---------------------- MODULE PlaybackSupervision_proofs ----------------------
(***************************************************************************)
(* The coalescing of the supervisor's wake-ups, and the promise that the   *)
(* front end is woken for what the reducer has not read, for every value   *)
(* of the constants: any number of requests, seeks, faults and lines, any  *)
(* size of the queues and any budget of a drain, a pass or a tick.         *)
(***************************************************************************)
EXTENDS PlaybackSupervision, FiniteSetTheorems, TLAPS

Requests == [kind : {"play", "stop", "seek", "shutdown"}, load : Nat]
Inbox == Seq({Refresh} \cup Requests)
Places == {"none", "recv", "clear", "poll", "wake", "rearm", "status", "gone"}
Workers == [step : Places, sent : Nat, processed : Nat]
Runs(w) == w.step \notin {"none", "gone"}

\* A Refresh waits in the inbox q.
Waits(q) == \E i \in DOMAIN q : q[i] = Refresh
OnlyOne(q) == \A i, j \in DOMAIN q : q[i] = Refresh /\ q[j] = Refresh => i = j

\* The flag is set exactly while a Refresh waits or was just taken, and never are
\* there two of them: the one just taken counts.
Coalesced(flag, q, w) ==
  /\ OnlyOne(q)
  /\ flag <=> Waits(q) \/ w.step = "clear"
  /\ w.step = "clear" => ~Waits(q)

InboxInv ==
  /\ jobs \in Inbox /\ pending \in BOOLEAN /\ epoch \in Nat /\ worker \in Workers
  /\ Runs(worker) => Coalesced(pending, jobs, worker)

-----------------------------------------------------------------------------
(* Queues of jobs *)

LEMMA RequestIsNoRefresh ==
  ASSUME NEW r \in Requests
  PROVE  r # Refresh
BY DEF Requests, Refresh

\* A request that is queued is no wake-up.
LEMMA AppendRequest ==
  ASSUME NEW q \in Inbox, NEW r \in Requests
  PROVE  /\ Append(q, r) \in Inbox
         /\ Waits(Append(q, r)) <=> Waits(q)
         /\ OnlyOne(q) => OnlyOne(Append(q, r))
<1>1. r # Refresh BY RequestIsNoRefresh
<1>2. /\ DOMAIN q = 1..Len(q) /\ Len(q) \in Nat
      /\ DOMAIN Append(q, r) = 1..(Len(q) + 1)
      /\ \A i \in 1..Len(q) : Append(q, r)[i] = q[i]
      /\ Append(q, r)[Len(q) + 1] = r
  BY DEF Inbox
<1>3. Append(q, r) \in Inbox BY DEF Inbox
<1>4. \A i \in DOMAIN Append(q, r) : Append(q, r)[i] = Refresh => i \in DOMAIN q /\ q[i] = Refresh
  BY <1>1, <1>2
<1>5. Waits(Append(q, r)) <=> Waits(q) BY <1>2, <1>4 DEF Waits
<1>6. OnlyOne(q) => OnlyOne(Append(q, r)) BY <1>4 DEF OnlyOne
<1> QED BY <1>3, <1>5, <1>6

\* A wake-up queued where there was none is the only one.
LEMMA AppendRefresh ==
  ASSUME NEW q \in Inbox, ~Waits(q)
  PROVE  /\ Append(q, Refresh) \in Inbox
         /\ Waits(Append(q, Refresh)) /\ OnlyOne(Append(q, Refresh))
<1>1. /\ DOMAIN q = 1..Len(q) /\ Len(q) \in Nat
      /\ DOMAIN Append(q, Refresh) = 1..(Len(q) + 1)
      /\ \A i \in 1..Len(q) : Append(q, Refresh)[i] = q[i]
      /\ Append(q, Refresh)[Len(q) + 1] = Refresh
  BY DEF Inbox
<1>2. Append(q, Refresh) \in Inbox BY DEF Inbox
<1>3. \A i \in DOMAIN Append(q, Refresh) : Append(q, Refresh)[i] = Refresh => i = Len(q) + 1
  BY <1>1 DEF Waits
<1>4. Waits(Append(q, Refresh)) BY <1>1 DEF Waits
<1> QED BY <1>2, <1>3, <1>4 DEF OnlyOne

\* Taking the only wake-up leaves none, taking a request leaves it.
LEMMA TailOfInbox ==
  ASSUME NEW q \in Inbox, q # <<>>, OnlyOne(q)
  PROVE  /\ Tail(q) \in Inbox /\ OnlyOne(Tail(q))
         /\ Waits(Tail(q)) <=> (Waits(q) /\ Head(q) # Refresh)
<1>1. /\ DOMAIN q = 1..Len(q) /\ Len(q) \in Nat \ {0} /\ Head(q) = q[1]
      /\ DOMAIN Tail(q) = 1..(Len(q) - 1)
      /\ \A i \in 1..(Len(q) - 1) : Tail(q)[i] = q[i + 1]
  BY DEF Inbox
<1>2. Tail(q) \in Inbox BY DEF Inbox
<1>3. OnlyOne(Tail(q))
  <2> SUFFICES ASSUME NEW i \in DOMAIN Tail(q), NEW j \in DOMAIN Tail(q),
                      Tail(q)[i] = Refresh, Tail(q)[j] = Refresh
               PROVE  i = j
    BY DEF OnlyOne
  <2>1. i + 1 = j + 1 BY <1>1 DEF OnlyOne
  <2> QED BY <1>1, <2>1
<1>4. Waits(Tail(q)) => Waits(q) /\ Head(q) # Refresh
  <2> SUFFICES ASSUME NEW i \in DOMAIN Tail(q), Tail(q)[i] = Refresh
               PROVE  Waits(q) /\ Head(q) # Refresh
    BY DEF Waits
  <2>1. i + 1 \in DOMAIN q /\ q[i + 1] = Refresh /\ i + 1 # 1 BY <1>1
  <2>2. 1 \in DOMAIN q BY <1>1
  <2> QED BY <1>1, <2>1, <2>2 DEF Waits, OnlyOne
<1>5. Waits(q) /\ Head(q) # Refresh => Waits(Tail(q))
  <2> SUFFICES ASSUME NEW i \in DOMAIN q, q[i] = Refresh, Head(q) # Refresh
               PROVE  Waits(Tail(q))
    BY DEF Waits
  <2>1. i - 1 \in DOMAIN Tail(q) /\ Tail(q)[i - 1] = Refresh BY <1>1
  <2> QED BY <2>1 DEF Waits
<1> QED BY <1>2, <1>3, <1>4, <1>5

-----------------------------------------------------------------------------
(* What the parts of an action do to the inbox *)

\* The worker goes on, without taking or finishing to take a wake-up.
GoesOn(w, next) ==
  /\ next \in Workers
  /\ w.step # "clear" /\ next.step # "clear" /\ (Runs(next) => Runs(w))

LEMMA StillInbox ==
  ASSUME InboxInv, UNCHANGED <<pending, jobs>>, worker' = worker \/ GoesOn(worker, worker'),
         epoch' \in Nat
  PROVE  InboxInv'
<1> USE DEF InboxInv
<1>1. CASE worker' = worker BY <1>1 DEF Coalesced, Runs
<1>2. CASE GoesOn(worker, worker') BY <1>2 DEF Coalesced, GoesOn
<1> QED BY <1>1, <1>2

LEMMA WokenInbox ==
  ASSUME InboxInv, NEW ring, WakeSupervisor(ring),
         worker' = worker \/ GoesOn(worker, worker'), epoch' \in Nat
  PROVE  InboxInv'
<1>1. CASE ring /\ ~pending
  <2>1. pending' = TRUE /\ jobs' = Append(jobs, Refresh) BY <1>1 DEF WakeSupervisor
  <2>2. jobs \in Inbox /\ worker' \in Workers BY DEF InboxInv, GoesOn
  <2>3. jobs' \in Inbox BY <2>1, <2>2 DEF Inbox
  <2>4. ASSUME Runs(worker') PROVE Coalesced(pending', jobs', worker')
    <3>1. Runs(worker) BY <2>4 DEF GoesOn, Runs
    <3>2. ~Waits(jobs) /\ worker.step # "clear" BY <1>1, <3>1 DEF InboxInv, Coalesced
    <3>3. Waits(jobs') /\ OnlyOne(jobs') BY <2>1, <2>2, <3>2, AppendRefresh
    <3>4. worker'.step # "clear" BY <3>2 DEF GoesOn
    <3> QED BY <2>1, <3>3, <3>4 DEF Coalesced
  <2> QED BY <2>1, <2>2, <2>3, <2>4 DEF InboxInv
<1>2. CASE ~(ring /\ ~pending)
  <2>1. UNCHANGED <<pending, jobs>> BY <1>2 DEF WakeSupervisor
  <2> QED BY <2>1, StillInbox
<1> QED BY <1>1, <1>2

LEMMA RequestedInbox ==
  ASSUME InboxInv, NEW r \in Requests, jobs' = Append(jobs, r),
         UNCHANGED <<pending, worker>>, epoch' \in Nat
  PROVE  InboxInv'
<1>1. jobs \in Inbox BY DEF InboxInv
<1>2. /\ jobs' \in Inbox /\ (Waits(jobs') <=> Waits(jobs))
      /\ OnlyOne(jobs) => OnlyOne(jobs')
  BY <1>1, AppendRequest
<1> QED BY <1>2 DEF InboxInv, Coalesced, Runs

\* Taking up a request, with or without a new wake-up.
LEMMA TakenInbox ==
  ASSUME InboxInv, NEW kind, Take(kind), kind # "refresh", NEW m, TookAndRang(m),
         GoesOn(worker, worker'), epoch' \in Nat
  PROVE  InboxInv'
<1>1. jobs \in Inbox /\ jobs # <<>> /\ Runs(worker) /\ worker.step # "clear"
  BY DEF InboxInv, Take, Runs
<1>2. Coalesced(pending, jobs, worker) BY <1>1 DEF InboxInv
<1>3. Head(jobs) # Refresh BY DEF Take, Refresh
<1>4. /\ Tail(jobs) \in Inbox /\ OnlyOne(Tail(jobs))
      /\ Waits(Tail(jobs)) <=> Waits(jobs)
  BY <1>1, <1>2, <1>3, TailOfInbox DEF Coalesced
<1>5. worker' \in Workers /\ worker'.step # "clear" BY DEF GoesOn
<1>6. CASE m.rang /\ ~pending
  <2>1. pending' = TRUE /\ jobs' = Append(Tail(jobs), Refresh) BY <1>6 DEF TookAndRang
  <2>2. ~Waits(Tail(jobs)) BY <1>2, <1>4, <1>6 DEF Coalesced
  <2>3. jobs' \in Inbox /\ Waits(jobs') /\ OnlyOne(jobs') BY <1>4, <2>1, <2>2, AppendRefresh
  <2> QED BY <1>5, <2>1, <2>3 DEF InboxInv, Coalesced
<1>7. CASE ~(m.rang /\ ~pending)
  <2>1. pending' = pending /\ jobs' = Tail(jobs) BY <1>7 DEF TookAndRang
  <2> QED BY <1>1, <1>2, <1>4, <1>5, <2>1 DEF InboxInv, Coalesced
<1> QED BY <1>6, <1>7

-----------------------------------------------------------------------------
(* The inductive invariant *)

LEMMA InitInbox == Init => InboxInv
<1> SUFFICES ASSUME Init PROVE InboxInv
  OBVIOUS
<1>1. jobs = <<>> /\ pending = FALSE /\ epoch = 0 /\ worker = NoWorker BY DEF Init
<1>2. worker \in Workers /\ ~Runs(worker) BY <1>1 DEF NoWorker, Workers, Places, Runs
<1>3. jobs \in Inbox BY <1>1 DEF Inbox
<1> QED BY <1>1, <1>2, <1>3 DEF InboxInv

\* Where the worker goes next, its other fields kept.
LEMMA MovedWorker ==
  ASSUME NEW w \in Workers, NEW next, NEW step \in Places, NEW sent \in Nat,
         \/ next = [w EXCEPT !.step = step]
         \/ next = [w EXCEPT !.step = step, !.sent = sent]
         \/ next = [w EXCEPT !.sent = sent, !.step = step]
  PROVE  next \in Workers /\ next.step = step
BY DEF Workers

LEMMA MpvInbox ==
  ASSUME InboxInv, Mpv \/ Notify
  PROVE  InboxInv'
<1> USE DEF supervisor, reducer
<1>1. CASE MpvStart BY <1>1, StillInbox DEF MpvStart, Emit, InboxInv
<1>2. CASE MpvAbandon BY <1>2, StillInbox DEF MpvAbandon, Emit, InboxInv
<1>3. CASE MpvAdvance BY <1>3, StillInbox DEF MpvAdvance, Emit, InboxInv
<1>4. CASE MpvRedirect BY <1>4, StillInbox DEF MpvRedirect, Emit, InboxInv
<1>5. CASE MpvEnd BY <1>5, StillInbox DEF MpvEnd, Emit, InboxInv
<1>6. CASE MpvExit BY <1>6, StillInbox DEF MpvExit, InboxInv
<1>7. CASE Notify BY <1>7, WokenInbox DEF Notify, InboxInv
<1> QED BY <1>1, <1>2, <1>3, <1>4, <1>5, <1>6, <1>7 DEF Mpv

\* After a request the worker polls.
LEMMA DoneGoesOn ==
  ASSUME InboxInv, NEW kind, Take(kind), kind # "refresh", Done(Head(jobs).load)
  PROVE  GoesOn(worker, worker')
<1>1. worker \in Workers /\ worker.step = "recv" /\ jobs \in Inbox /\ jobs # <<>>
  BY DEF InboxInv, Take
<1>2. Head(jobs) \in {Refresh} \cup Requests BY <1>1 DEF Inbox
<1>3. Head(jobs).load \in Nat BY <1>2 DEF Refresh, Requests, NoLoad
<1>4. worker' \in Workers /\ worker'.step = "poll" BY <1>1, <1>3 DEF Done, Workers, Places
<1> QED BY <1>1, <1>4 DEF GoesOn, Runs

LEMMA SuperviseInbox ==
  ASSUME InboxInv, Supervise
  PROVE  InboxInv'
<1> USE DEF reducer, supervisor, channels, backend
<1>0. worker \in Workers /\ epoch \in Nat /\ jobs \in Inbox BY DEF InboxInv
<1>1. CASE TakeRefresh
  <2>1. worker.step = "recv" /\ jobs # <<>> /\ Head(jobs).kind = "refresh"
    BY <1>1 DEF TakeRefresh, Take
  <2>2. Head(jobs) = Refresh
    <3>1. Head(jobs) \in {Refresh} \cup Requests BY <1>0, <2>1 DEF Inbox
    <3> QED BY <2>1, <3>1 DEF Requests
  <2>3. Coalesced(pending, jobs, worker) BY <2>1 DEF InboxInv, Runs
  <2>4. Tail(jobs) \in Inbox /\ OnlyOne(Tail(jobs)) /\ ~Waits(Tail(jobs))
    BY <1>0, <2>1, <2>2, <2>3, TailOfInbox DEF Coalesced
  <2>5. 1 \in DOMAIN jobs /\ jobs[1] = Refresh BY <1>0, <2>1, <2>2 DEF Inbox
  <2>6. pending BY <2>3, <2>5 DEF Coalesced, Waits
  <2>7. worker' \in Workers /\ worker'.step = "clear"
    BY <1>0, <1>1 DEF TakeRefresh, Workers, Places
  <2> QED BY <1>0, <1>1, <2>4, <2>6, <2>7 DEF TakeRefresh, InboxInv, Coalesced
<1>2. CASE ClearPending
  <2>1. worker.step = "clear" BY <1>2 DEF ClearPending
  <2>2. Coalesced(pending, jobs, worker) BY <2>1 DEF InboxInv, Runs
  <2>3. worker' \in Workers /\ worker'.step = "poll"
    BY <1>0, <1>2 DEF ClearPending, Workers, Places
  <2> QED BY <1>0, <1>2, <2>1, <2>2, <2>3 DEF ClearPending, InboxInv, Coalesced
<1>3. CASE ExecutePlay
  <2>1. Take("play") /\ epoch' = epoch BY <1>3 DEF ExecutePlay
  <2>2. PICK m : TookAndRang(m) /\ Done(Head(jobs).load) BY <1>3 DEF ExecutePlay
  <2>3. GoesOn(worker, worker') BY <2>1, <2>2, DoneGoesOn
  <2> QED BY <1>0, <2>1, <2>2, <2>3, TakenInbox
<1>4. CASE ExecuteStop
  <2>1. Take("stop") /\ epoch' = epoch BY <1>4 DEF ExecuteStop
  <2>2. PICK m : TookAndRang(m) /\ Done(Head(jobs).load) BY <1>4 DEF ExecuteStop
  <2>3. GoesOn(worker, worker') BY <2>1, <2>2, DoneGoesOn
  <2> QED BY <1>0, <2>1, <2>2, <2>3, TakenInbox
<1>5. CASE ExecuteSeek
  <2>1. Take("seek") /\ epoch' = epoch BY <1>5 DEF ExecuteSeek
  <2>2. PICK m : TookAndRang(m) /\ Done(Head(jobs).load) BY <1>5 DEF ExecuteSeek
  <2>3. GoesOn(worker, worker') BY <2>1, <2>2, DoneGoesOn
  <2> QED BY <1>0, <2>1, <2>2, <2>3, TakenInbox
<1>6. CASE ExecuteShutdown
  <2>1. worker' \in Workers /\ worker'.step = "gone"
    BY <1>0, <1>6 DEF ExecuteShutdown, Workers, Places
  <2>2. jobs' \in Inbox /\ pending' = FALSE BY <1>6 DEF ExecuteShutdown, Inbox
  <2> QED BY <1>0, <1>6, <2>1, <2>2 DEF ExecuteShutdown, InboxInv, Runs
<1>7. CASE PollEvent
  <2>1. worker.step = "poll" /\ epoch' = epoch BY <1>7 DEF PollEvent
  <2>2. PICK m : /\ WakeSupervisor(m.rang)
                 /\ \/ worker' = [worker EXCEPT !.step = "status", !.sent = 0]
                    \/ worker' = [worker EXCEPT !.step = "wake"]
    BY <1>7 DEF PollEvent
  <2>3. worker' \in Workers /\ worker'.step \in {"status", "wake"}
    <3>1. "status" \in Places /\ "wake" \in Places /\ 0 \in Nat BY DEF Places
    <3>2. CASE worker' = [worker EXCEPT !.step = "status", !.sent = 0]
      BY <1>0, <3>1, <3>2, MovedWorker
    <3>3. CASE worker' = [worker EXCEPT !.step = "wake"]
      BY <1>0, <3>1, <3>3, MovedWorker
    <3> QED BY <2>2, <3>2, <3>3
  <2>4. GoesOn(worker, worker') BY <2>1, <2>3 DEF GoesOn, Runs
  <2> QED BY <1>0, <2>1, <2>2, <2>4, WokenInbox
<1>8. CASE WakeAfterEvent
  <2>1. worker' \in Workers /\ worker'.step \in {"rearm", "poll"} /\ worker.step = "wake"
    <3> DEFINE sent == worker.sent + 1
    <3> DEFINE next == IF worker.sent + 1 = MaxPerPass THEN "rearm" ELSE "poll"
    <3>1. next \in Places BY DEF Places
    <3>2. sent \in Nat BY <1>0 DEF Workers
    <3>3. worker' = [worker EXCEPT !.sent = sent, !.step = next]
      BY <1>8 DEF WakeAfterEvent
    <3> HIDE DEF next, sent
    <3>4. worker' \in Workers /\ worker'.step = next BY <1>0, <3>1, <3>2, <3>3, MovedWorker
    <3>5. next \in {"rearm", "poll"} BY DEF next
    <3> QED BY <1>8, <3>4, <3>5 DEF WakeAfterEvent
  <2>2. GoesOn(worker, worker') BY <2>1 DEF GoesOn, Runs
  <2> QED BY <1>0, <1>8, <2>2, StillInbox DEF WakeAfterEvent
<1>9. CASE Rearm
  <2>1. worker' \in Workers /\ worker'.step = "status" /\ worker.step = "rearm"
    BY <1>0, <1>9 DEF Rearm, Workers, Places
  <2>2. GoesOn(worker, worker') BY <2>1 DEF GoesOn, Runs
  <2> QED BY <1>0, <1>9, <2>2, WokenInbox DEF Rearm
<1>10. CASE PublishStatus
  <2>1. worker' \in Workers /\ worker'.step = "recv" /\ worker.step = "status"
    BY <1>0, <1>10 DEF PublishStatus, Workers, Places
  <2>2. GoesOn(worker, worker') BY <2>1 DEF GoesOn, Runs
  <2>3. PICK m : WakeSupervisor(m.rang) BY <1>10 DEF PublishStatus
  <2>4. epoch' = epoch BY <1>10 DEF PublishStatus
  <2> QED BY <1>0, <2>2, <2>3, <2>4, WokenInbox
<1> QED BY <1>1, <1>2, <1>3, <1>4, <1>5, <1>6, <1>7, <1>8, <1>9, <1>10 DEF Supervise

\* A request of the reducer puts one request into the inbox.
LEMMA SentInbox ==
  ASSUME InboxInv, NEW kind \in {"play", "stop", "seek", "shutdown"}, NEW load \in Nat,
         Send(kind, load), UNCHANGED <<pending, worker>>, epoch' \in Nat
  PROVE  InboxInv'
<1>1. [kind |-> kind, load |-> load] \in Requests BY DEF Requests
<1> QED BY <1>1, RequestedInbox DEF Send

LEMMA ClosingInbox ==
  ASSUME InboxInv, NEW u, Closing(u), UNCHANGED <<pending, worker>>
  PROVE  InboxInv'
<1>1. epoch + 1 \in Nat /\ epoch' = epoch + 1 /\ Send("shutdown", epoch + 1)
  BY DEF Closing, InboxInv
<1> QED BY <1>1, SentInbox

LEMMA PlayingInbox ==
  ASSUME InboxInv, NEW u, RequestPlay(u), UNCHANGED <<pending, worker>>
  PROVE  InboxInv'
<1>1. epoch + 1 \in Nat /\ epoch' = epoch + 1 /\ Send("play", epoch + 1)
  BY DEF RequestPlay, InboxInv
<1> QED BY <1>1, SentInbox

LEMMA ReduceInbox ==
  ASSUME InboxInv, Tick \/ Reduce \/ User
  PROVE  InboxInv'
<1> USE DEF supervisor, UiOnly
<1>0. epoch \in Nat BY DEF InboxInv
<1>1. CASE Tick BY <1>0, <1>1, StillInbox DEF Tick
<1>2. CASE DrainEvent
  <2>1. UNCHANGED <<pending, worker>> BY <1>2 DEF DrainEvent
  <2>2. CASE UNCHANGED <<jobs, epoch>> BY <1>0, <2>1, <2>2, StillInbox
  <2>3. CASE \E u : RequestPlay(u) BY <2>1, <2>3, PlayingInbox
  <2>4. CASE \E u : Closing(u) BY <2>1, <2>4, ClosingInbox
  <2>5. UNCHANGED <<jobs, epoch>> \/ (\E u : RequestPlay(u)) \/ (\E u : Closing(u))
    BY <1>2 DEF DrainEvent, OnLoaded, OnStarted, OnReplacedStop, OnEnded, OnExited
  <2> QED BY <2>2, <2>3, <2>4, <2>5
<1>3. CASE TooManyEvents BY <1>3, ClosingInbox DEF TooManyEvents
<1>4. CASE CaughtUp
  <2>1. UNCHANGED <<pending, worker, epoch>> BY <1>4 DEF CaughtUp
  <2>2. Send("seek", epoch) \/ UNCHANGED jobs BY <1>4 DEF CaughtUp
  <2>3. CASE Send("seek", epoch) BY <1>0, <2>1, <2>3, SentInbox
  <2>4. CASE UNCHANGED jobs BY <1>0, <2>1, <2>4, StillInbox
  <2> QED BY <2>2, <2>3, <2>4
<1>5. CASE ReadStatus BY <1>0, <1>5, StillInbox DEF ReadStatus
<1>6. CASE ApplyStatus
  <2>1. UNCHANGED <<pending, worker>> BY <1>6 DEF ApplyStatus
  <2>2. Closing(Silent) \/ UNCHANGED <<jobs, epoch>> BY <1>6 DEF ApplyStatus
  <2> QED BY <1>0, <2>1, <2>2, ClosingInbox, StillInbox
<1>7. CASE AttachWaker BY <1>7, PlayingInbox DEF AttachWaker
<1>8. CASE PlayAnswered BY <1>0, <1>8, StillInbox DEF PlayAnswered
<1>9. CASE CommandAnswered BY <1>0, <1>9, StillInbox DEF CommandAnswered
<1>10. CASE SeekAnswered BY <1>0, <1>10, StillInbox DEF SeekAnswered
<1>11. CASE Joined
  <2>1. worker' \in Workers /\ ~Runs(worker')
    BY <1>11 DEF Joined, NoWorker, Workers, Places, Runs
  <2> QED BY <1>0, <1>11, <2>1 DEF Joined, InboxInv
<1>12. CASE StartPlayer
  <2>1. worker' \in Workers /\ worker'.step = "recv"
    BY <1>12 DEF StartPlayer, NoWorker, Workers, Places
  <2>2. pending' = TRUE /\ jobs' = <<Refresh>> /\ epoch' = epoch BY <1>12 DEF StartPlayer
  <2>3. jobs' \in Inbox /\ Waits(jobs') /\ OnlyOne(jobs') BY <2>2 DEF Inbox, Waits, OnlyOne
  <2> QED BY <1>0, <2>1, <2>2, <2>3 DEF InboxInv, Coalesced
<1>13. CASE Play BY <1>13, PlayingInbox DEF Play
<1>14. CASE Stop
  <2>1. epoch + 1 \in Nat /\ epoch' = epoch + 1 /\ Send("stop", epoch + 1)
    BY <1>0, <1>14 DEF Stop
  <2>2. UNCHANGED <<pending, worker>> BY <1>14 DEF Stop
  <2> QED BY <2>1, <2>2, SentInbox
<1>15. CASE Seek BY <1>0, <1>15, StillInbox DEF Seek
<1>16. CASE Close BY <1>16, ClosingInbox DEF Close
<1> QED BY <1>1, <1>2, <1>3, <1>4, <1>5, <1>6, <1>7, <1>8, <1>9, <1>10, <1>11, <1>12,
           <1>13, <1>14, <1>15, <1>16 DEF Reduce, User

LEMMA NextInbox == InboxInv /\ [Next]_vars => InboxInv'
<1> SUFFICES ASSUME InboxInv, [Next]_vars PROVE InboxInv'
  OBVIOUS
<1>1. CASE UNCHANGED vars
  BY <1>1, StillInbox DEF vars, supervisor, reducer, InboxInv
<1>2. CASE Next BY <1>2, MpvInbox, SuperviseInbox, ReduceInbox DEF Next
<1> QED BY <1>1, <1>2

LEMMA InboxImpliesWake == InboxInv => WakeIsQueued
<1> SUFFICES ASSUME InboxInv, Runs(worker) PROVE WakeIsQueued
  BY DEF WakeIsQueued, Runs
<1> DEFINE queued == {i \in DOMAIN jobs : jobs[i] = Refresh}
<1>1. Coalesced(pending, jobs, worker) BY DEF InboxInv
<1>2. pending <=> (queued # {} \/ worker.step = "clear") BY <1>1 DEF Coalesced, Waits
<1>3. Cardinality(queued) <= 1
  <2>1. CASE queued = {} BY <2>1, FS_EmptySet
  <2>2. CASE queued # {}
    <3>1. PICK i : i \in queued BY <2>2
    <3>2. queued = {i} BY <1>1, <3>1 DEF Coalesced, OnlyOne
    <3> QED BY <3>2, FS_Singleton
  <2> QED BY <2>1, <2>2
<1> QED BY <1>2, <1>3 DEF WakeIsQueued

\* However many lines, operations and full passes ring for the supervisor, and
\* whatever else waits in its inbox, one wake-up is queued exactly while the flag
\* is set and not just being cleared (BackendWake, run).
THEOREM WakeCoalesced == Spec => []WakeIsQueued
<1>1. Init => InboxInv BY InitInbox
<1>2. InboxInv /\ [Next]_vars => InboxInv' BY NextInbox
<1>3. InboxInv => WakeIsQueued BY InboxImpliesWake
<1> QED BY <1>1, <1>2, <1>3, PTL DEF Spec

-----------------------------------------------------------------------------
(* The front end is told *)

UiSteps == Drains \cup {"parked", "attach", "status", "playing", "commanding", "seeking", "closing"}
Reducers == [step : UiSteps, phase : {"idle", "loading", "loaded", "playing"}, current : Nat,
             latest : Nat, ignore : BOOLEAN, polled : Nat, failed : BOOLEAN, cut : BOOLEAN,
             dropped : BOOLEAN]

UiInv ==
  /\ ui \in Reducers /\ woken \in BOOLEAN
  /\ shared \in [failure : BOOLEAN, attached : BOOLEAN]

\* The front end has been woken, or is about to be.
Told == woken \/ worker.step = "wake"
\* An event or a failure that the reducer has not read.
Unread == events # <<>> \/ shared.failure
\* A request to end waits in the inbox q.
Ends(q) == \E i \in DOMAIN q : q[i].kind = "shutdown"

\* Where the reducer will look at the channels again before it waits for input.
Looking == {"tick", "status", "recheck", "closing", "attach"}

\* Outside a tick, what is unread was told.  Within one the promise is made up step by
\* step: the first drain leaves only events that were told since, and taking the failure
\* leaves nothing unread that was not.  There is a supervisor while a waker is
\* registered, and it ends only for a reducer that waits for its end.
ToldInv ==
  /\ shared.attached =>
       /\ ui.step \notin Looking /\ ~ui.cut /\ Unread => Told
       /\ ui.step = "status" /\ events # <<>> => Told
       /\ ui.step = "recheck" /\ Unread => Told
  /\ worker.step = "none" => ~shared.attached /\ ui.step # "attach"
  /\ worker.step = "gone" => ui.step = "closing"
  /\ Ends(jobs) => ui.step = "closing" /\ worker.step # "gone"

\* Queues without a request to end.
LEMMA AppendEnds ==
  ASSUME NEW q \in Inbox, NEW r \in {Refresh} \cup Requests
  PROVE  Ends(Append(q, r)) => Ends(q) \/ r.kind = "shutdown"
<1>1. /\ DOMAIN q = 1..Len(q) /\ Len(q) \in Nat
      /\ DOMAIN Append(q, r) = 1..(Len(q) + 1)
      /\ \A i \in 1..Len(q) : Append(q, r)[i] = q[i]
      /\ Append(q, r)[Len(q) + 1] = r
  BY DEF Inbox
<1> QED BY <1>1 DEF Ends

LEMMA TailEnds ==
  ASSUME NEW q \in Inbox, q # <<>>
  PROVE  Tail(q) \in Inbox /\ (Ends(Tail(q)) => Ends(q))
<1>1. /\ DOMAIN q = 1..Len(q) /\ Len(q) \in Nat \ {0}
      /\ DOMAIN Tail(q) = 1..(Len(q) - 1)
      /\ \A i \in 1..(Len(q) - 1) : Tail(q)[i] = q[i + 1]
  BY DEF Inbox
<1>2. Tail(q) \in Inbox BY DEF Inbox
<1> QED BY <1>1, <1>2 DEF Ends

LEMMA RefreshEnds ==
  ASSUME NEW q \in Inbox
  PROVE  Ends(Append(q, Refresh)) => Ends(q)
BY AppendEnds DEF Refresh

LEMMA HeadEnds ==
  ASSUME NEW q \in Inbox, q # <<>>, Head(q).kind = "shutdown"
  PROVE  Ends(q)
<1>1. DOMAIN q = 1..Len(q) /\ Len(q) \in Nat \ {0} /\ Head(q) = q[1] BY DEF Inbox
<1> QED BY <1>1 DEF Ends

LEMMA WokenEnds ==
  ASSUME jobs \in Inbox, NEW ring, WakeSupervisor(ring)
  PROVE  Ends(jobs') => Ends(jobs)
<1>1. CASE ring /\ ~pending
  BY <1>1, RefreshEnds DEF WakeSupervisor
<1>2. CASE ~(ring /\ ~pending)
  BY <1>2 DEF WakeSupervisor
<1> QED BY <1>1, <1>2

LEMMA TakenEnds ==
  ASSUME jobs \in Inbox, jobs # <<>>, NEW m, TookAndRang(m)
  PROVE  Ends(jobs') => Ends(jobs)
<1>1. Tail(jobs) \in Inbox /\ (Ends(Tail(jobs)) => Ends(jobs)) BY TailEnds
<1>2. CASE m.rang /\ ~pending
  BY <1>1, <1>2, RefreshEnds DEF TookAndRang
<1>3. CASE ~(m.rang /\ ~pending)
  BY <1>1, <1>3 DEF TookAndRang
<1> QED BY <1>2, <1>3

\* Steps of the others: what they leave unread they tell, and they end nothing.
LEMMA OthersTell ==
  ASSUME UiInv, ToldInv, ui' = ui, shared'.attached = shared.attached,
         worker'.step = worker.step \/ (worker.step \notin {"none", "gone"}
                                         /\ worker'.step \notin {"none", "gone"}),
         Ends(jobs') => Ends(jobs),
         shared.attached /\ Told => Told',
         events' = events \/ (shared.attached => Told'),
         shared'.failure = shared.failure \/ shared.failure \/ (shared.attached => Told')
  PROVE  ToldInv'
<1>1. shared.attached => \/ Told'
                         \/ ~Told /\ events' = events /\ (shared'.failure => shared.failure)
  OBVIOUS
<1>2. shared'.attached =>
       /\ ui'.step \notin Looking /\ ~ui'.cut /\ Unread' => Told'
       /\ ui'.step = "status" /\ events' # <<>> => Told'
       /\ ui'.step = "recheck" /\ Unread' => Told'
  BY <1>1 DEF ToldInv, Unread
<1> QED BY <1>2 DEF ToldInv

LEMMA MpvTells ==
  ASSUME InboxInv, UiInv, ToldInv, Mpv \/ Notify
  PROVE  UiInv' /\ ToldInv'
<1>1. UNCHANGED <<ui, worker, shared, events, woken>>
  BY DEF Mpv, MpvStart, MpvAbandon, MpvAdvance, MpvRedirect, MpvEnd, MpvExit, Notify, Emit,
         supervisor, channels, reducer
<1>2. Ends(jobs') => Ends(jobs)
  <2>1. CASE Mpv
    BY <2>1 DEF Mpv, MpvStart, MpvAbandon, MpvAdvance, MpvRedirect, MpvEnd, MpvExit, Emit,
                supervisor
  <2>2. CASE Notify
    BY <2>2, WokenEnds DEF Notify, InboxInv
  <2> QED BY <2>1, <2>2
<1> QED BY <1>1, <1>2, OthersTell DEF UiInv, Told

LEMMA FrontWoken ==
  ASSUME UiInv, WakeFront
  PROVE  woken' \in BOOLEAN /\ (shared.attached => woken') /\ (woken => woken')
BY DEF UiInv, WakeFront

\* A published failure is told, or one was unread before.
LEMMA FailureTold ==
  ASSUME UiInv, PublishFailure
  PROVE  /\ shared' \in [failure : BOOLEAN, attached : BOOLEAN]
         /\ shared'.attached = shared.attached /\ woken' \in BOOLEAN /\ (woken => woken')
         /\ shared.failure \/ (shared.attached => woken')
<1>1. shared' = [shared EXCEPT !.failure = TRUE] BY DEF PublishFailure
<1>2. CASE shared.failure BY <1>1, <1>2 DEF PublishFailure, UiInv
<1>3. CASE ~shared.failure
  <2>1. WakeFront BY <1>3 DEF PublishFailure
  <2> QED BY <1>1, <2>1, FrontWoken DEF UiInv
<1> QED BY <1>2, <1>3

LEMMA RequestTells ==
  ASSUME InboxInv, UiInv, ToldInv, NEW kind \in {"play", "stop", "seek"}, Take(kind),
         NEW m, TookAndRang(m), Done(Head(jobs).load),
         UNCHANGED <<events, shared, woken, ui>>
  PROVE  UiInv' /\ ToldInv'
<1>1. jobs \in Inbox /\ jobs # <<>> /\ worker \in Workers /\ worker.step = "recv"
  BY DEF InboxInv, Take
<1>2. worker'.step = "poll" BY <1>1 DEF Done, Workers
<1>3. Ends(jobs') => Ends(jobs) BY <1>1, TakenEnds
<1> QED BY <1>1, <1>2, <1>3, OthersTell DEF UiInv, Told

LEMMA SuperviseTells ==
  ASSUME InboxInv, UiInv, ToldInv, Supervise
  PROVE  UiInv' /\ ToldInv'
<1> USE DEF reducer, channels
<1>0. worker \in Workers /\ jobs \in Inbox BY DEF InboxInv
<1>1. CASE TakeRefresh
  <2>1. /\ UNCHANGED <<ui, shared, events, woken>> /\ worker.step = "recv" /\ jobs # <<>>
        /\ jobs' = Tail(jobs)
    BY <1>1 DEF TakeRefresh, Take
  <2>2. worker'.step = "clear" BY <1>0, <1>1 DEF TakeRefresh, Workers
  <2>3. Ends(jobs') => Ends(jobs) BY <1>0, <2>1, TailEnds
  <2> QED BY <2>1, <2>2, <2>3, OthersTell DEF UiInv, Told
<1>2. CASE ClearPending
  <2>1. UNCHANGED <<ui, shared, events, woken, jobs>> /\ worker.step = "clear"
    BY <1>2 DEF ClearPending
  <2>2. worker'.step = "poll" BY <1>0, <1>2 DEF ClearPending, Workers
  <2> QED BY <2>1, <2>2, OthersTell DEF UiInv, Told
<1>3. CASE ExecutePlay
  <2>1. Take("play") /\ UNCHANGED <<events, shared, woken, ui>> BY <1>3 DEF ExecutePlay
  <2>2. PICK m : TookAndRang(m) /\ Done(Head(jobs).load) BY <1>3 DEF ExecutePlay
  <2> QED BY <2>1, <2>2, RequestTells
<1>4. CASE ExecuteStop
  <2>1. Take("stop") /\ UNCHANGED <<events, shared, woken, ui>> BY <1>4 DEF ExecuteStop
  <2>2. PICK m : TookAndRang(m) /\ Done(Head(jobs).load) BY <1>4 DEF ExecuteStop
  <2> QED BY <2>1, <2>2, RequestTells
<1>5. CASE ExecuteSeek
  <2>1. Take("seek") /\ UNCHANGED <<events, shared, woken, ui>> BY <1>5 DEF ExecuteSeek
  <2>2. PICK m : TookAndRang(m) /\ Done(Head(jobs).load) BY <1>5 DEF ExecuteSeek
  <2> QED BY <2>1, <2>2, RequestTells
<1>6. CASE ExecuteShutdown
  <2>1. /\ UNCHANGED <<ui, shared, events, woken>> /\ jobs' = <<>>
        /\ jobs # <<>> /\ Head(jobs).kind = "shutdown"
    BY <1>6 DEF ExecuteShutdown, Take
  <2>2. worker'.step = "gone" BY <1>0, <1>6 DEF ExecuteShutdown, Workers
  <2>3. ui.step = "closing" BY <1>0, <2>1, HeadEnds DEF ToldInv
  <2>4. ~Ends(jobs') BY <2>1 DEF Ends
  <2> QED BY <2>1, <2>2, <2>3, <2>4 DEF ToldInv, UiInv, Looking
<1>7. CASE PollEvent
  <2>1. worker.step = "poll" /\ UNCHANGED ui BY <1>7 DEF PollEvent
  <2>2. PICK m : /\ WakeSupervisor(m.rang)
                 /\ \/ /\ PublishFailure /\ UNCHANGED events
                       /\ worker' = [worker EXCEPT !.step = "status", !.sent = 0]
                    \/ /\ worker' = [worker EXCEPT !.step = "status", !.sent = 0]
                       /\ UNCHANGED <<events, shared, woken>>
                    \/ worker' = [worker EXCEPT !.step = "wake"] /\ UNCHANGED <<shared, woken>>
    BY <1>7 DEF PollEvent
  <2>3. Ends(jobs') => Ends(jobs) BY <1>0, <2>2, WokenEnds
  <2>4. CASE /\ PublishFailure /\ UNCHANGED events
             /\ worker' = [worker EXCEPT !.step = "status", !.sent = 0]
    <3>1. worker'.step = "status" BY <1>0, <2>4 DEF Workers
    <3> QED BY <2>1, <2>3, <2>4, <3>1, FailureTold, OthersTell DEF UiInv, Told
  <2>5. CASE /\ worker' = [worker EXCEPT !.step = "status", !.sent = 0]
             /\ UNCHANGED <<events, shared, woken>>
    <3>1. worker'.step = "status" BY <1>0, <2>5 DEF Workers
    <3> QED BY <2>1, <2>3, <2>5, <3>1, OthersTell DEF UiInv, Told
  <2>6. CASE worker' = [worker EXCEPT !.step = "wake"] /\ UNCHANGED <<shared, woken>>
    <3>1. worker'.step = "wake" BY <1>0, <2>6 DEF Workers
    <3> QED BY <2>1, <2>3, <2>6, <3>1, OthersTell DEF UiInv, Told
  <2> QED BY <2>2, <2>4, <2>5, <2>6
<1>8. CASE WakeAfterEvent
  <2>1. UNCHANGED <<ui, shared, events, jobs>> /\ worker.step = "wake" /\ WakeFront
    BY <1>8 DEF WakeAfterEvent
  <2>2. worker'.step \in {"rearm", "poll"}
    <3>1. worker'.step = IF worker.sent + 1 = MaxPerPass THEN "rearm" ELSE "poll"
      BY <1>0, <1>8 DEF WakeAfterEvent, Workers
    <3> QED BY <3>1
  <2> QED BY <2>1, <2>2, FrontWoken, OthersTell DEF UiInv, Told
<1>9. CASE Rearm
  <2>1. UNCHANGED <<ui, shared, events, woken>> /\ worker.step = "rearm" /\ WakeSupervisor(TRUE)
    BY <1>9 DEF Rearm
  <2>2. worker'.step = "status" BY <1>0, <1>9 DEF Rearm, Workers
  <2>3. Ends(jobs') => Ends(jobs) BY <1>0, <2>1, WokenEnds
  <2> QED BY <2>1, <2>2, <2>3, OthersTell DEF UiInv, Told
<1>10. CASE PublishStatus
  <2>1. worker.step = "status" /\ UNCHANGED <<ui, events>> BY <1>10 DEF PublishStatus
  <2>2. worker'.step = "recv" BY <1>0, <1>10 DEF PublishStatus, Workers
  <2>3. PICK m : /\ WakeSupervisor(m.rang)
                 /\ \/ PublishFailure
                    \/ UNCHANGED shared /\ (WakeFront \/ UNCHANGED woken)
    BY <1>10 DEF PublishStatus
  <2>4. Ends(jobs') => Ends(jobs) BY <1>0, <2>3, WokenEnds
  <2>5. CASE PublishFailure
    BY <2>1, <2>2, <2>4, <2>5, FailureTold, OthersTell DEF UiInv, Told
  <2>6. CASE UNCHANGED shared /\ (WakeFront \/ UNCHANGED woken)
    <3>1. woken' \in BOOLEAN /\ (woken => woken') BY <2>6, FrontWoken DEF UiInv
    <3> QED BY <2>1, <2>2, <2>4, <2>6, <3>1, OthersTell DEF UiInv, Told
  <2> QED BY <2>3, <2>5, <2>6
<1> QED BY <1>1, <1>2, <1>3, <1>4, <1>5, <1>6, <1>7, <1>8, <1>9, <1>10 DEF Supervise

\* A request of the reducer other than to end.
LEMMA SendEnds ==
  ASSUME jobs \in Inbox, NEW kind \in {"play", "stop", "seek"}, NEW load \in Nat, Send(kind, load)
  PROVE  Ends(jobs') => Ends(jobs)
<1> DEFINE r == [kind |-> kind, load |-> load]
<1>1. r \in Requests /\ r.kind # "shutdown" BY DEF Requests
<1>2. jobs' = Append(jobs, r) BY DEF Send
<1> HIDE DEF r
<1> QED BY <1>1, <1>2, AppendEnds

\* Steps of a reducer that does not wait for the supervisor's end.
LEMMA ReducerTells ==
  ASSUME ToldInv, worker' = worker, shared'.attached = shared.attached,
         ui.step # "closing", ui'.step # "attach",
         Ends(jobs') => Ends(jobs) \/ ui'.step = "closing",
         shared.attached => /\ ui'.step \notin Looking /\ ~ui'.cut /\ Unread' => Told'
                            /\ ui'.step = "status" /\ events' # <<>> => Told'
                            /\ ui'.step = "recheck" /\ Unread' => Told'
  PROVE  ToldInv'
BY DEF ToldInv

LEMMA SilentReducer ==
  ASSUME UiInv
  PROVE  Silent \in Reducers /\ Silent.step = ui.step
BY DEF UiInv, Silent, Reducers, NoLoad

LEMMA ClosingTells ==
  ASSUME UiInv, ToldInv, NEW u \in Reducers, Closing(u), ui.step # "closing",
         UNCHANGED <<worker, shared, woken>>
  PROVE  UiInv' /\ ToldInv'
<1>1. ui' = [u EXCEPT !.step = "closing", !.latest = NoLoad] BY DEF Closing
<1>2. ui' \in Reducers /\ ui'.step = "closing" BY <1>1 DEF Reducers, UiSteps, NoLoad
<1> QED BY <1>2, ReducerTells DEF UiInv, Looking

LEMMA PlayingTells ==
  ASSUME InboxInv, NEW u \in Reducers, RequestPlay(u)
  PROVE  /\ ui' \in Reducers /\ ui'.step = "playing" /\ ui'.cut = u.cut
         /\ Ends(jobs') => Ends(jobs)
<1> DEFINE load == epoch + 1
<1>1. load \in Nat /\ jobs \in Inbox BY DEF InboxInv
<1>2. ui' = [u EXCEPT !.step = "playing", !.latest = load] /\ Send("play", load)
  BY DEF RequestPlay
<1> HIDE DEF load
<1>3. ui' \in Reducers BY <1>1, <1>2 DEF Reducers, UiSteps
<1>4. ui'.step = "playing" /\ ui'.cut = u.cut BY <1>2 DEF Reducers
<1> QED BY <1>1, <1>2, <1>3, <1>4, SendEnds

\* A drained event leaves nothing unread that was not, unless it cuts the batch short.
LEMMA DrainTells ==
  ASSUME InboxInv, UiInv, ToldInv, DrainEvent
  PROVE  UiInv' /\ ToldInv'
<1>0. /\ ui \in Reducers /\ jobs \in Inbox /\ epoch \in Nat
      /\ Silent \in Reducers /\ Silent.step = ui.step
  BY SilentReducer DEF UiInv, InboxInv
<1>1. /\ ui.step \in Drains /\ events # <<>> /\ events' = Tail(events)
      /\ UNCHANGED <<worker, shared, woken>>
  BY DEF DrainEvent, Draining
<1>2. ui.step # "closing" /\ ui.step # "attach" /\ ui.step # "status" BY <1>1 DEF Drains
<1>3. CASE /\ ui' \in Reducers /\ ui'.step = ui.step /\ ui'.cut = ui.cut
           /\ UNCHANGED jobs
  <2>1. Unread BY <1>1 DEF Unread
  <2>2. shared.attached => /\ ui'.step \notin Looking /\ ~ui'.cut /\ Unread' => Told'
                           /\ ui'.step = "status" /\ events' # <<>> => Told'
                           /\ ui'.step = "recheck" /\ Unread' => Told'
    BY <1>1, <1>2, <1>3, <2>1 DEF ToldInv, Told
  <2> QED BY <1>1, <1>2, <1>3, <2>2, ReducerTells DEF UiInv
<1>4. CASE /\ ui' = [Silent EXCEPT !.step = "parked", !.cut = TRUE] /\ UNCHANGED jobs
  <2>1. ui' \in Reducers /\ ui'.step = "parked" /\ ui'.cut
    BY <1>0, <1>4 DEF Reducers, UiSteps
  <2> QED BY <1>1, <1>2, <1>4, <2>1, ReducerTells DEF UiInv
<1>5. CASE RequestPlay([Silent EXCEPT !.cut = TRUE])
  <2> DEFINE u == [Silent EXCEPT !.cut = TRUE]
  <2>1. u \in Reducers /\ u.cut BY <1>0 DEF Reducers
  <2>2. RequestPlay(u) BY <1>5
  <2> HIDE DEF u
  <2>3. /\ ui' \in Reducers /\ ui'.step = "playing" /\ ui'.cut /\ (Ends(jobs') => Ends(jobs))
    BY <2>1, <2>2, PlayingTells
  <2> QED BY <1>1, <1>2, <2>3, ReducerTells DEF UiInv
<1>6. CASE Closing(Silent) BY <1>0, <1>1, <1>2, <1>6, ClosingTells
<1>7. CASE /\ OnLoaded \/ OnStarted \/ OnReplacedStop
  <2>1. Consumed \in Reducers /\ Consumed.step = ui.step /\ Consumed.cut = ui.cut
    BY <1>0 DEF Consumed, Reducers
  <2>2. \/ ui' = [Consumed EXCEPT !.phase = "loaded", !.ignore = FALSE]
        \/ ui' = Consumed
        \/ ui' = [Consumed EXCEPT !.phase = "playing"]
        \/ ui' = [Consumed EXCEPT !.ignore = FALSE]
    BY <1>7 DEF OnLoaded, OnStarted, OnReplacedStop
  <2>3. UNCHANGED jobs BY <1>7 DEF OnLoaded, OnStarted, OnReplacedStop
  <2>4. ui' \in Reducers /\ ui'.step = ui.step /\ ui'.cut = ui.cut
    BY <2>1, <2>2 DEF Reducers
  <2> QED BY <1>3, <2>3, <2>4
<1> QED BY <1>4, <1>5, <1>6, <1>7 DEF DrainEvent, OnEnded, OnExited

LEMMA ReduceTells ==
  ASSUME InboxInv, UiInv, ToldInv, Tick \/ Reduce \/ User
  PROVE  UiInv' /\ ToldInv'
<1> USE DEF supervisor
<1>0. /\ ui \in Reducers /\ jobs \in Inbox /\ epoch \in Nat
      /\ Silent \in Reducers /\ Silent.step = ui.step
      /\ shared \in [failure : BOOLEAN, attached : BOOLEAN]
  BY SilentReducer DEF UiInv, InboxInv
<1>1. CASE Tick
  <2>1. /\ ui.step = "parked" /\ woken' = FALSE /\ UNCHANGED <<worker, shared, jobs, events>>
        /\ ui' = IF Up THEN [ui EXCEPT !.step = "tick"] ELSE ui
    BY <1>1 DEF Tick
  <2>2. CASE Up
    <3>1. ui' \in Reducers /\ ui'.step = "tick" BY <1>0, <2>1, <2>2 DEF Reducers, UiSteps, Drains
    <3> QED BY <2>1, <3>1, ReducerTells DEF UiInv, Looking
  <2>3. CASE ~Up
    <3>1. ~shared.attached BY <2>1, <2>3 DEF Up, ToldInv
    <3> QED BY <1>0, <2>1, <2>3, <3>1, ReducerTells DEF UiInv
  <2> QED BY <2>2, <2>3
<1>2. CASE DrainEvent BY <1>2, DrainTells
<1>3. CASE TooManyEvents
  <2>1. Closing(Silent) /\ ui.step \in Drains /\ UNCHANGED <<worker, shared, woken>>
    BY <1>3 DEF TooManyEvents, UiOnly
  <2> QED BY <1>0, <2>1, ClosingTells DEF Drains
<1>4. CASE CaughtUp
  <2>1. /\ events = <<>> /\ ui.step \in Drains /\ ui.step # "recheck"
        /\ UNCHANGED <<worker, shared, woken, events>>
    BY <1>4 DEF CaughtUp, Draining, UiOnly
  <2>2. PICK next \in {"status", "seeking", "parked"} :
               /\ ui' = [ui EXCEPT !.step = next, !.polled = 0]
               /\ ui.step = "tick" <=> next = "status"
    BY <1>4 DEF CaughtUp
  <2>3. ui' \in Reducers /\ ui'.step = next /\ ui'.cut = ui.cut
    BY <1>0, <2>2 DEF Reducers, UiSteps
  <2>4. Send("seek", epoch) \/ UNCHANGED jobs BY <1>4 DEF CaughtUp
  <2>5. Ends(jobs') => Ends(jobs) BY <1>0, <2>4, SendEnds
  <2>6. ui.step \in Looking <=> next = "status" BY <2>1, <2>2 DEF Looking, Drains
  <2>7. shared.attached => /\ ui'.step \notin Looking /\ ~ui'.cut /\ Unread' => Told'
                           /\ ui'.step = "status" /\ events' # <<>> => Told'
                           /\ ui'.step = "recheck" /\ Unread' => Told'
    BY <2>1, <2>2, <2>3, <2>6 DEF ToldInv, Looking, Unread, Told
  <2> QED BY <2>1, <2>2, <2>3, <2>5, <2>7, ReducerTells DEF UiInv, Drains
<1>5. CASE ReadStatus
  <2>1. /\ ui.step = "status" /\ ui' = [ui EXCEPT !.step = "recheck", !.failed = shared.failure]
        /\ shared' = [shared EXCEPT !.failure = FALSE]
        /\ UNCHANGED <<worker, jobs, events, woken>>
    BY <1>5 DEF ReadStatus
  <2>2. ui' \in Reducers /\ ui'.step = "recheck"
    BY <1>0, <2>1 DEF Reducers, UiSteps, Drains
  <2>3. /\ shared' \in [failure : BOOLEAN, attached : BOOLEAN]
        /\ ~shared'.failure /\ shared'.attached = shared.attached
    BY <1>0, <2>1
  <2>4. shared.attached => (Unread' => Told')
    BY <2>1, <2>3 DEF ToldInv, Unread, Told
  <2> QED BY <2>1, <2>2, <2>3, <2>4, ReducerTells DEF UiInv, Looking
<1>6. CASE ApplyStatus
  <2>1. /\ ui.step = "recheck" /\ events = <<>> /\ UNCHANGED <<worker, shared, woken, events>>
    BY <1>6 DEF ApplyStatus, UiOnly
  <2>2. CASE Closing(Silent) BY <1>0, <2>1, <2>2, ClosingTells
  <2>3. CASE ui' = [ui EXCEPT !.step = "parked", !.polled = 0, !.cut = FALSE] /\ UNCHANGED jobs
    <3>1. ui' \in Reducers /\ ui'.step = "parked" BY <1>0, <2>3 DEF Reducers, UiSteps
    <3>2. shared.attached => (Unread' => Told') BY <2>1 DEF ToldInv, Unread, Told
    <3> QED BY <2>1, <2>3, <3>1, <3>2, ReducerTells DEF UiInv
  <2> QED BY <1>6, <2>2, <2>3 DEF ApplyStatus
<1>7. CASE AttachWaker
  <2>1. /\ ui.step = "attach" /\ RequestPlay(ui) /\ woken' = TRUE
        /\ shared' = [shared EXCEPT !.attached = TRUE] /\ UNCHANGED worker
    BY <1>7 DEF AttachWaker
  <2>2. /\ ui' \in Reducers /\ ui'.step = "playing" /\ (Ends(jobs') => Ends(jobs))
    BY <1>0, <2>1, PlayingTells
  <2>3. shared' \in [failure : BOOLEAN, attached : BOOLEAN] BY <1>0, <2>1
  <2>4. worker.step \notin {"none", "gone"} /\ ~Ends(jobs) BY <2>1 DEF ToldInv
  <2> QED BY <2>1, <2>2, <2>3, <2>4 DEF UiInv, ToldInv, Told
<1>8. CASE PlayAnswered
  <2>1. ui.step = "playing" /\ UNCHANGED <<worker, shared, woken, events, jobs>>
    BY <1>8 DEF PlayAnswered, UiOnly
  <2>2. ui' \in Reducers /\ ui'.step = "parked" /\ ui'.cut = ui.cut
    <3>1. CASE ui' = [ui EXCEPT !.step = "parked", !.current = ui.latest, !.phase = "loading",
                                !.ignore = ui.current # NoLoad]
      BY <1>0, <3>1 DEF Reducers, UiSteps
    <3>2. CASE ui' = [ui EXCEPT !.step = "parked"]
      BY <1>0, <3>2 DEF Reducers, UiSteps
    <3> QED BY <1>8, <3>1, <3>2 DEF PlayAnswered
  <2>3. shared.attached => (~ui'.cut /\ Unread' => Told')
    BY <2>1, <2>2 DEF ToldInv, Looking, Unread, Told
  <2> QED BY <2>1, <2>2, <2>3, ReducerTells DEF UiInv
<1>9. CASE CommandAnswered
  <2>1. /\ ui.step = "commanding" /\ UNCHANGED <<worker, shared, woken, events, jobs>>
        /\ ui' = [ui EXCEPT !.step = "parked"]
    BY <1>9 DEF CommandAnswered, UiOnly
  <2>2. ui' \in Reducers /\ ui'.step = "parked" /\ ui'.cut = ui.cut
    BY <1>0, <2>1 DEF Reducers, UiSteps
  <2>3. shared.attached => (~ui'.cut /\ Unread' => Told')
    BY <2>1, <2>2 DEF ToldInv, Looking, Unread, Told
  <2> QED BY <2>1, <2>2, <2>3, ReducerTells DEF UiInv
<1>10. CASE SeekAnswered
  <2>1. /\ ui.step = "seeking" /\ UNCHANGED <<worker, shared, woken, events, jobs>>
        /\ \E next \in {"parked", "refused"} : ui' = [ui EXCEPT !.step = next]
    BY <1>10 DEF SeekAnswered, UiOnly
  <2>2. ui' \in Reducers /\ ui'.step \in {"parked", "refused"} /\ ui'.cut = ui.cut
    BY <1>0, <2>1 DEF Reducers, UiSteps, Drains
  <2>3. shared.attached => (~ui'.cut /\ Unread' => Told')
    BY <2>1, <2>2 DEF ToldInv, Looking, Unread, Told
  <2> QED BY <2>1, <2>2, <2>3, ReducerTells DEF UiInv
<1>11. CASE Joined
  <2>1. /\ worker.step = "gone" /\ worker' = NoWorker /\ shared' = Detached
        /\ ui' = [ui EXCEPT !.step = "parked", !.cut = FALSE, !.dropped = FALSE]
        /\ UNCHANGED <<jobs, woken>>
    BY <1>11 DEF Joined
  <2>2. ui' \in Reducers /\ ui'.step = "parked" BY <1>0, <2>1 DEF Reducers, UiSteps
  <2>3. /\ shared' \in [failure : BOOLEAN, attached : BOOLEAN] /\ ~shared'.attached
    BY <2>1 DEF Detached
  <2>4. worker'.step = "none" BY <2>1 DEF NoWorker
  <2>5. ~Ends(jobs') BY <2>1 DEF ToldInv, Ends
  <2> QED BY <2>1, <2>2, <2>3, <2>4, <2>5 DEF UiInv, ToldInv
<1>12. CASE StartPlayer
  <2>1. /\ ui.step = "parked" /\ ~Up /\ jobs' = <<Refresh>>
        /\ worker' = [NoWorker EXCEPT !.step = "recv"] /\ ui' = [ui EXCEPT !.step = "attach"]
        /\ UNCHANGED <<shared, woken>>
    BY <1>12 DEF StartPlayer, channels
  <2>2. ui' \in Reducers /\ ui'.step = "attach" BY <1>0, <2>1 DEF Reducers, UiSteps
  <2>3. ~shared.attached BY <2>1 DEF Up, ToldInv
  <2>4. worker'.step = "recv" BY <2>1 DEF NoWorker
  <2>5. ~Ends(jobs') BY <2>1 DEF Ends, Refresh
  <2> QED BY <2>1, <2>2, <2>3, <2>4, <2>5 DEF UiInv, ToldInv
<1>13. CASE Play
  <2>1. ui.step = "parked" /\ RequestPlay(ui) /\ UNCHANGED <<worker, shared, woken, events>>
    BY <1>13 DEF Play, UiOnly
  <2>2. /\ ui' \in Reducers /\ ui'.step = "playing" /\ ui'.cut = ui.cut
        /\ Ends(jobs') => Ends(jobs)
    BY <1>0, <2>1, PlayingTells
  <2>3. shared.attached => (~ui'.cut /\ Unread' => Told')
    BY <2>1, <2>2 DEF ToldInv, Looking, Unread, Told
  <2> QED BY <2>1, <2>2, <2>3, ReducerTells DEF UiInv
<1>14. CASE Stop
  <2>1. /\ ui.step = "parked" /\ UNCHANGED <<worker, shared, woken, events>>
        /\ ui' = [ui EXCEPT !.step = "commanding"] /\ epoch + 1 \in Nat /\ Send("stop", epoch + 1)
    BY <1>0, <1>14 DEF Stop, UiOnly
  <2>2. ui' \in Reducers /\ ui'.step = "commanding" /\ ui'.cut = ui.cut
    BY <1>0, <2>1 DEF Reducers, UiSteps
  <2>3. Ends(jobs') => Ends(jobs) BY <1>0, <2>1, SendEnds
  <2>4. shared.attached => (~ui'.cut /\ Unread' => Told')
    BY <2>1, <2>2 DEF ToldInv, Looking, Unread, Told
  <2> QED BY <2>1, <2>2, <2>3, <2>4, ReducerTells DEF UiInv
<1>15. CASE Seek
  <2>1. /\ ui.step = "parked" /\ UNCHANGED <<worker, shared, woken, events, jobs>>
        /\ ui' = [ui EXCEPT !.step = "aim"]
    BY <1>15 DEF Seek, UiOnly
  <2>2. ui' \in Reducers /\ ui'.step = "aim" /\ ui'.cut = ui.cut
    BY <1>0, <2>1 DEF Reducers, UiSteps, Drains
  <2>3. shared.attached => (~ui'.cut /\ Unread' => Told')
    BY <2>1, <2>2 DEF ToldInv, Looking, Unread, Told
  <2> QED BY <2>1, <2>2, <2>3, ReducerTells DEF UiInv
<1>16. CASE Close
  <2>1. Closing(Silent) /\ ui.step = "parked" /\ UNCHANGED <<worker, shared, woken>>
    BY <1>16 DEF Close, UiOnly
  <2> QED BY <1>0, <2>1, ClosingTells
<1> QED BY <1>1, <1>2, <1>3, <1>4, <1>5, <1>6, <1>7, <1>8, <1>9, <1>10, <1>11, <1>12,
           <1>13, <1>14, <1>15, <1>16 DEF Reduce, User

LEMMA InitTold == Init => UiInv /\ ToldInv
<1> SUFFICES ASSUME Init PROVE UiInv /\ ToldInv
  OBVIOUS
<1>1. ui \in Reducers /\ ui.step = "parked"
  BY DEF Init, Reducers, UiSteps, NoLoad
<1>2. woken = FALSE /\ shared = Detached /\ worker.step = "none" /\ jobs = <<>>
  BY DEF Init, NoWorker
<1>3. ~Ends(jobs) BY <1>2 DEF Ends
<1> QED BY <1>1, <1>2, <1>3 DEF UiInv, ToldInv, Detached

LEMMA NextTold == InboxInv /\ UiInv /\ ToldInv /\ [Next]_vars => UiInv' /\ ToldInv'
<1> SUFFICES ASSUME InboxInv, UiInv, ToldInv, [Next]_vars PROVE UiInv' /\ ToldInv'
  OBVIOUS
<1>1. CASE UNCHANGED vars
  <2>1. UNCHANGED <<ui, worker, jobs, events, shared, woken>>
    BY <1>1 DEF vars, supervisor, channels, reducer
  <2> QED BY <2>1, OthersTell DEF UiInv, Told
<1>2. CASE Next BY <1>2, MpvTells, SuperviseTells, ReduceTells DEF Next
<1> QED BY <1>1, <1>2

LEMMA ToldImpliesFront == ToldInv => FrontIsTold
BY DEF ToldInv, FrontIsTold, Looking, Unread, Told

\* However the requests, the events, a failure and the wake-ups of the front end cross,
\* a reducer that waits for input while something it has not read lies in its channels
\* has been woken or is about to be (publish_failure, take_shared, WorkerNotifier::wake).
THEOREM FrontToldAlways == Spec => []FrontIsTold
<1> DEFINE Inv == InboxInv /\ UiInv /\ ToldInv
<1>1. Init => Inv BY InitInbox, InitTold
<1>2. Inv /\ [Next]_vars => Inv' BY NextInbox, NextTold
<1>3. Inv => FrontIsTold BY ToldImpliesFront
<1> HIDE DEF Inv
<1> QED BY <1>1, <1>2, <1>3, PTL DEF Spec
=============================================================================
