------------------------ MODULE PlaybackSupervision ------------------------
(***************************************************************************)
(* Playback off the reducer's thread.  mpv reports what it plays on a      *)
(* pipe; a reader thread queues the lines and wakes the supervisor; the    *)
(* supervisor runs one blocking request at a time, forwards lifecycle      *)
(* events and publishes a snapshot; the reducer sends requests, waits for  *)
(* their answer and drains events when the front end wakes it.  Requests,  *)
(* lines and wake-ups cross at any moment, and mpv may answer late, fail   *)
(* or exit.                                                                *)
(***************************************************************************)
EXTENDS MpvIpc, FiniteSetsExt

CONSTANTS
  MaxLines,      \* capacity of the reader's queue
  MaxPerDrain,   \* lines one drain_ready reads
  MaxPerPass,    \* MAX_EVENTS_PER_PASS
  MaxPerTick,    \* MAX_EVENTS_PER_TICK
  MaxRequests,   \* bound: loads and stops
  MaxSeeks,      \* bound: seeks of the user
  MaxFaults      \* bound: requests mpv fails and exits of mpv

ASSUME ConstantsAssumption ==
  /\ {MaxBacklog, MaxLines, MaxPerDrain, MaxPerPass, MaxPerTick} \subseteq Nat \ {0}
  /\ {MaxRequests, MaxSeeks, MaxFaults} \subseteq Nat

VARIABLES
  mpv,      \* the player process: its file and the command it has accepted
  lines,    \* lines the reader has queued
  notice,   \* the reader queued a line, or saw the end, and has not notified yet
  ipc, cache,  \* the adapter: see MpvIpc
  pending,  \* BackendWake.pending
  jobs,     \* the supervisor's inbox
  worker,   \* the supervisor: where it is, events sent in this pass, its load epoch
  events,   \* lifecycle events on their way to the reducer
  shared,   \* a published failure, and whether a waker is registered
  reply,    \* the answer to the reducer's request
  woken,    \* the front end has been woken
  ui,       \* the reducer
  epoch,    \* cache_epoch, which also numbers the loads
  history,  \* the last seek mpv carried out, with the file it reached; whether loads
            \* crossed: a start-file was another load's, or a request failed that mpv
            \* carried out all the same or while a load had still to begin; whether
            \* the last poll failed
  seeks, faults

backend == <<mpv, lines, notice, ipc, cache, history>>
supervisor == <<pending, jobs, worker>>
channels == <<events, shared, reply, woken>>
reducer == <<ui, epoch, seeks>>
vars == <<backend, supervisor, channels, reducer, faults>>

Refresh == [kind |-> "refresh", load |-> NoLoad]
IdleMpv == [alive |-> TRUE, file |-> NoLoad, stage |-> "idle", next |-> NoLoad, stop |-> FALSE]
NoHistory == [sought |-> NoLoad, reached |-> NoLoad, crossed |-> FALSE, failed |-> FALSE]
NoWorker == [step |-> "none", sent |-> 0, processed |-> 0]
Detached == [failure |-> FALSE, attached |-> FALSE]
NoMpv == [IdleMpv EXCEPT !.alive = FALSE]

-----------------------------------------------------------------------------
(* mpv and the thread that reads its pipe *)

Emit(kind, load) ==
  /\ ~notice /\ Len(lines) < MaxLines
  /\ lines' = Append(lines, [kind |-> kind, load |-> load]) /\ notice' = TRUE
  /\ UNCHANGED <<ipc, cache, history, supervisor, channels, reducer, faults>>

\* The accepted load begins, or resumes after a redirection.
MpvStart ==
  /\ mpv.alive /\ mpv.file = NoLoad /\ mpv.next # NoLoad
  /\ Emit("start", mpv.next)
  /\ mpv' = [mpv EXCEPT !.file = mpv.next, !.stage = "opening", !.next = NoLoad]

\* A replacement or a stop ends the file that was open.
MpvAbandon ==
  /\ mpv.alive /\ mpv.file # NoLoad /\ (mpv.next # NoLoad \/ mpv.stop)
  /\ Emit("stop", mpv.file)
  /\ mpv' = [mpv EXCEPT !.file = NoLoad, !.stage = "idle", !.stop = FALSE]

\* Until then it goes on.
MpvAdvance ==
  /\ mpv.alive
  /\ \/ /\ mpv.stage = "opening"
        /\ Emit("loaded", mpv.file) /\ mpv' = [mpv EXCEPT !.stage = "ready"]
     \/ /\ mpv.stage = "ready"
        /\ Emit("restart", mpv.file) /\ mpv' = [mpv EXCEPT !.stage = "playing"]

MpvRedirect ==
  /\ mpv.alive /\ mpv.stage = "opening" /\ mpv.next = NoLoad /\ ~mpv.stop
  /\ Emit("redirect", mpv.file)
  /\ mpv' = [mpv EXCEPT !.file = NoLoad, !.stage = "idle", !.next = mpv.file]

MpvEnd ==
  /\ mpv.alive /\ mpv.file # NoLoad
  /\ \E kind \in {"eof", "error"} :
       (kind = "eof" => mpv.stage = "playing") /\ Emit(kind, mpv.file)
  /\ mpv' = [mpv EXCEPT !.file = NoLoad, !.stage = "idle", !.stop = FALSE]

\* The reader notifies once more when the stream has ended.
StreamEnded_Quietly == UNCHANGED notice    \* mutant: the end of the stream is not notified
StreamEnded == notice' = TRUE

MpvExit ==
  /\ mpv.alive /\ ~notice /\ faults < MaxFaults
  /\ mpv' = NoMpv /\ StreamEnded /\ faults' = faults + 1
  /\ UNCHANGED <<lines, ipc, cache, history, supervisor, channels, reducer>>

\* BackendWake::wake_by_ref: only the first wake-up since the last Refresh was
\* taken up is queued.
WakeSupervisor(ring) ==
  IF ring /\ ~pending THEN pending' = TRUE /\ jobs' = Append(jobs, Refresh)
                      ELSE UNCHANGED <<pending, jobs>>

\* The reader notifies after it queued the line.
Notify ==
  /\ notice /\ notice' = FALSE
  /\ WakeSupervisor(TRUE)
  /\ UNCHANGED <<mpv, lines, ipc, cache, history, worker, channels, reducer, faults>>

-----------------------------------------------------------------------------
(* The supervisor's calls into the adapter *)

Adapter == Reading(ipc, cache, lines, history)

Became(m) ==
  ipc' = m.ipc /\ cache' = m.cache /\ lines' = m.lines /\ history' = m.history

\* The outcomes of a request: carried out, or failed while mpv still runs.
MayFail(failed) ==
  /\ failed \in BOOLEAN
  /\ failed => mpv.alive /\ faults < MaxFaults
  /\ faults' = IF failed THEN faults + 1 ELSE faults

\* A dead pipe fails at once; a failure of a running mpv has read its lines.
Requested(m, failed) ==
  IF mpv.alive THEN [Answered(m) EXCEPT !.error = failed] ELSE [m EXCEPT !.error = TRUE]

\* A seek of a load reaches the file mpv has open; without one mpv refuses it, and
\* one that was told to stop takes none.
Sought(m, load, failed) ==
  LET done == Requested(m, failed \/ mpv.file = NoLoad)
  IN IF done.error \/ mpv.stop THEN done
     ELSE [done EXCEPT !.history.sought = load, !.history.reached = mpv.file]

SeekIsDue(i) == i.loaded /\ ~i.loading /\ ~i.accepted /\ i.seek # NoLoad

\* service_pending_absolute_seek
Serviced(m, failed) ==
  IF m.error \/ ~SeekIsDue(m.ipc) THEN m
  ELSE Sought([m EXCEPT !.ipc.seek = NoLoad], m.ipc.seek, failed)

\* drain_ready: a full budget rings again; the end of the stream is an error.
Drained(m) ==
  LET count == Min({Len(m.lines), MaxPerDrain})
      read == ReadLines(m, count)
  IN [read EXCEPT !.rang = @ \/ count = MaxPerDrain,
                  !.error = count < MaxPerDrain /\ ~mpv.alive]

\* The property reads after a completed load, which may read another one.
Synced(m, failed) ==
  IF m.error \/ m.ipc.synced THEN m
  ELSE LET read == Requested([m EXCEPT !.ipc.synced = TRUE], failed)
       IN IF read.error THEN [read EXCEPT !.ipc.synced = FALSE] ELSE read

\* MpvBackend::status
Status(failed) == Serviced(Synced(Serviced(Drained(Adapter), failed), failed), failed)

\* load_prepared
Loading(load, failed) ==
  LET begun == [Adapter EXCEPT !.ipc.seek = NoLoad, !.ipc.loading = TRUE, !.ipc.accepted = TRUE,
                               !.cache = [Invalidated(@) EXCEPT !.input = load]]
      sent == Requested(begun, failed)
  IN IF sent.error
     THEN [sent EXCEPT !.ipc.accepted = FALSE, !.ipc.loading = FALSE, !.ipc.seek = NoLoad]
     ELSE sent

Stopping(failed) ==
  Requested([Adapter EXCEPT !.ipc.seek = NoLoad, !.ipc.loading = FALSE,
                            !.cache = Invalidated(@)], failed)

\* A seek during a load is retained for it; the latest one wins.
Seeking(load, failed) ==
  IF ipc.loading THEN [Adapter EXCEPT !.ipc.seek = load]
  ELSE Sought([Adapter EXCEPT !.ipc.seek = NoLoad], load, failed)

-----------------------------------------------------------------------------
(* The supervisor: run *)

Answer(m) == reply' = IF m.error THEN "error" ELSE "ok"

Take(kind) ==
  /\ worker.step = "recv" /\ jobs # <<>> /\ Head(jobs).kind = kind

\* The wake-ups of an operation are queued behind the jobs that wait.
TookAndRang(m) ==
  IF m.rang /\ ~pending
  THEN pending' = TRUE /\ jobs' = Append(Tail(jobs), Refresh)
  ELSE pending' = pending /\ jobs' = Tail(jobs)

TakeRefresh ==
  /\ Take("refresh")
  /\ jobs' = Tail(jobs) /\ worker' = [worker EXCEPT !.step = "clear"]
  /\ UNCHANGED <<backend, pending, channels, reducer, faults>>

ClearPending_Never ==    \* mutant: the flag stays set
  /\ worker.step = "clear"
  /\ worker' = [worker EXCEPT !.step = "poll", !.sent = 0]
  /\ UNCHANGED <<backend, pending, jobs, channels, reducer, faults>>
\* The flag is cleared before anything is read, so a later line rings again.
ClearPending ==
  /\ worker.step = "clear"
  /\ pending' = FALSE /\ worker' = [worker EXCEPT !.step = "poll", !.sent = 0]
  /\ UNCHANGED <<backend, jobs, channels, reducer, faults>>

Done(load) == worker' = [worker EXCEPT !.step = "poll", !.sent = 0, !.processed = load]

\* A load that timed out may still be carried out.
ExecutePlay ==
  /\ Take("play")
  /\ \E failed \in BOOLEAN, late \in BOOLEAN :
       LET load == Head(jobs).load
           m == Loading(load, failed)
       IN /\ MayFail(failed) /\ (late => failed)
          /\ Became([m EXCEPT !.history.crossed = @ \/ late \/ (failed /\ ipc.accepted)])
          /\ TookAndRang(m) /\ Answer(m) /\ Done(load)
          /\ mpv' = IF mpv.alive /\ (failed => late) THEN [mpv EXCEPT !.next = load] ELSE mpv
  /\ UNCHANGED <<notice, events, shared, woken, reducer>>

ExecuteStop ==
  /\ Take("stop")
  /\ \E failed \in BOOLEAN :
       LET m == Stopping(failed)
       IN /\ MayFail(failed) /\ TookAndRang(m) /\ Answer(m)
          /\ Became([m EXCEPT !.history.crossed = @ \/ (failed /\ ipc.accepted)])
          /\ mpv' = IF m.error THEN mpv
                    ELSE [mpv EXCEPT !.next = NoLoad, !.stop = mpv.file # NoLoad]
  /\ Done(Head(jobs).load)
  /\ UNCHANGED <<notice, events, shared, woken, reducer>>

\* The epoch of a seek is the one its sender read.
ExecuteSeek ==
  /\ Take("seek")
  /\ \E failed \in BOOLEAN :
       LET m == Seeking(ui.current, failed)
       IN MayFail(failed) /\ Became(m) /\ TookAndRang(m) /\ Answer(m)
  /\ Done(Head(jobs).load)
  /\ UNCHANGED <<mpv, notice, events, shared, woken, reducer>>

\* The supervisor ends, and with it mpv and its pipe.
ExecuteShutdown ==
  /\ Take("shutdown")
  /\ cache' = CacheShutdown(cache) /\ ipc' = NewIpc /\ mpv' = NoMpv
  /\ lines' = <<>> /\ notice' = FALSE /\ jobs' = <<>> /\ pending' = FALSE
  /\ worker' = [worker EXCEPT !.step = "gone"] /\ reply' = "ok"
  /\ UNCHANGED <<history, events, shared, woken, reducer, faults>>

WakeFront == woken' = (woken \/ shared.attached)

PublishFailure_Silently ==    \* mutant: a failure waits for another wake-up
  shared' = [shared EXCEPT !.failure = TRUE] /\ UNCHANGED woken
\* publish_failure: the first failure the reducer has not read is kept.
PublishFailure ==
  /\ shared' = [shared EXCEPT !.failure = TRUE]
  /\ IF shared.failure THEN UNCHANGED woken ELSE WakeFront

\* poll_event: an event read before goes first, then an exit, then what can be
\* read now.
PolledExit(m) ==
  [m EXCEPT !.ipc.exited = TRUE, !.ipc.seek = NoLoad, !.ipc.loading = FALSE,
            !.ipc.events = <<[kind |-> "exited", load |-> NoLoad]>>, !.cache = CacheShutdown(@)]
Polled(failed) ==
  LET queued == Serviced(Adapter, failed)
  IN IF queued.error \/ queued.ipc.events # <<>> \/ queued.ipc.exited THEN queued
     ELSE IF ~mpv.alive THEN PolledExit(queued)
     ELSE Serviced(Drained(queued), failed)

PollEvent ==
  /\ worker.step = "poll" /\ UNCHANGED <<mpv, notice, reply, reducer>>
  /\ \E failed \in BOOLEAN :
       LET read == Polled(failed)
           m == [read EXCEPT !.history.failed = read.error]
       IN /\ MayFail(failed) /\ WakeSupervisor(m.rang)
          /\ \/ /\ m.error
                /\ Became(m) /\ PublishFailure
                /\ worker' = [worker EXCEPT !.step = "status", !.sent = 0] /\ UNCHANGED events
             \/ /\ ~m.error /\ m.ipc.events = <<>>
                /\ Became(m)
                /\ worker' = [worker EXCEPT !.step = "status", !.sent = 0]
                /\ UNCHANGED <<events, shared, woken>>
             \/ /\ ~m.error /\ m.ipc.events # <<>>
                /\ Became([m EXCEPT !.ipc.events = Tail(@)])
                /\ events' = Append(events, Head(m.ipc.events))
                /\ worker' = [worker EXCEPT !.step = "wake"] /\ UNCHANGED <<shared, woken>>

\* The reducer is woken after the event is in its channel.
WakeAfterEvent ==
  /\ worker.step = "wake" /\ WakeFront
  /\ worker' = [worker EXCEPT !.sent = @ + 1,
                  !.step = IF worker.sent + 1 = MaxPerPass THEN "rearm" ELSE "poll"]
  /\ UNCHANGED <<backend, pending, jobs, events, shared, reply, reducer, faults>>

Rearm_Never ==    \* mutant: a full pass waits for another signal
  /\ worker.step = "rearm"
  /\ worker' = [worker EXCEPT !.step = "status", !.sent = 0]
  /\ UNCHANGED <<backend, pending, jobs, channels, reducer, faults>>
\* A full pass may have used up the last signal of the pipe.
Rearm ==
  /\ worker.step = "rearm" /\ WakeSupervisor(TRUE)
  /\ worker' = [worker EXCEPT !.step = "status", !.sent = 0]
  /\ UNCHANGED <<backend, channels, reducer, faults>>

\* The number an export ticket is made with: that of the last job taken up.
TicketEpoch_Shared == epoch    \* mutant: the number of the last request
TicketEpoch == worker.processed

\* The snapshot, then the export ticket.  Whether a changed snapshot wakes the
\* reducer depends on the last motion.
PublishStatus ==
  /\ worker.step = "status" /\ worker' = [worker EXCEPT !.step = "recv"]
  /\ \E failed \in BOOLEAN :
       LET m == Status(failed)
       IN /\ MayFail(failed) /\ WakeSupervisor(m.rang)
          /\ Became([m EXCEPT !.cache.ticket = Handle(m.cache, TicketEpoch)])
          /\ \/ m.error /\ PublishFailure
             \/ ~m.error /\ UNCHANGED shared /\ (WakeFront \/ UNCHANGED woken)
  /\ UNCHANGED <<mpv, notice, events, reply, reducer>>

-----------------------------------------------------------------------------
(* The reducer *)

Up == worker.step \notin {"gone", "none"}

UiOnly == UNCHANGED <<backend, pending, worker, events, shared, faults>>

Send(kind, load) == jobs' = Append(jobs, [kind |-> kind, load |-> load]) /\ reply' = "none"

\* A failure that was read and not looked at yet is dropped.
Silent == [ui EXCEPT !.phase = "idle", !.current = NoLoad, !.ignore = FALSE,
                       !.failed = FALSE, !.dropped = @ \/ ui.failed, !.polled = 0]

\* shutdown: outstanding tickets are revoked, then the supervisor is asked to end.
Closing(u) ==
  /\ ui' = [u EXCEPT !.step = "closing", !.latest = NoLoad]
  /\ epoch' = epoch + 1 /\ Send("shutdown", epoch + 1)

\* tick: the front end's flag is acknowledged before anything is drained.
Tick ==
  /\ ui.step = "parked" /\ woken' = FALSE
  /\ ui' = IF Up THEN [ui EXCEPT !.step = "tick"] ELSE ui
  /\ UNCHANGED <<backend, supervisor, events, shared, reply, epoch, seeks, faults>>

\* ThreadedBackend::play, after the player is there.
RequestPlay(u) ==
  /\ epoch < MaxRequests
  /\ epoch' = epoch + 1 /\ Send("play", epoch + 1)
  /\ ui' = [u EXCEPT !.step = "playing", !.latest = epoch + 1]

\* The lifecycle events: none of them names the load it is about.
Drains == {"tick", "recheck", "aim", "refused"}
Draining == ui.step \in Drains /\ ui.polled < MaxPerTick
Consumed == [ui EXCEPT !.polled = @ + 1]

OnLoaded ==
  /\ Head(events).kind = "loaded"
  /\ ui' = IF ui.phase = "loading" THEN [Consumed EXCEPT !.phase = "loaded", !.ignore = FALSE]
                                   ELSE Consumed
  /\ UNCHANGED <<jobs, reply, epoch>>

OnStarted ==
  /\ Head(events).kind = "restart"
  /\ ui' = [Consumed EXCEPT !.phase = "playing"]
  /\ UNCHANGED <<jobs, reply, epoch>>

OnReplacedStop ==
  /\ Head(events).kind = "stop" /\ ui.ignore
  /\ ui' = [Consumed EXCEPT !.ignore = FALSE]
  /\ UNCHANGED <<jobs, reply, epoch>>

\* handle_playback_end: the rest of the channel waits for another tick.
OnEnded ==
  /\ Head(events).kind \in {"stop", "eof", "error"}
  /\ ~(Head(events).kind = "stop" /\ ui.ignore)
  /\ \/ ui' = [Silent EXCEPT !.step = "parked", !.cut = TRUE] /\ UNCHANGED <<jobs, reply, epoch>>
     \* the queue goes on
     \/ /\ Head(events).kind = "eof" /\ ui.phase = "playing"
        /\ RequestPlay([Silent EXCEPT !.cut = TRUE])

OnExited == Head(events).kind = "exited" /\ Closing(Silent)

DrainEvent ==
  /\ Draining /\ events # <<>> /\ events' = Tail(events)
  /\ OnLoaded \/ OnStarted \/ OnReplacedStop \/ OnEnded \/ OnExited
  /\ UNCHANGED <<backend, pending, worker, shared, woken, seeks, faults>>

\* A tick that drains its whole budget gives the player up.
TooManyEvents ==
  /\ ui.step \in Drains /\ ui.polled = MaxPerTick
  /\ Closing(Silent)
  /\ UiOnly /\ UNCHANGED <<woken, seeks>>

\* The channel is empty: a tick reads the status next; a seek is sent, if the
\* drain left something to seek in.
CaughtUp ==
  /\ Draining /\ events = <<>> /\ ui.step # "recheck"
  /\ LET next == CASE ui.step = "tick" -> "status"
                   [] ui.step = "aim" /\ ui.phase # "idle" /\ ui.current # NoLoad -> "seeking"
                   [] OTHER            -> "parked"
     IN /\ ui' = [ui EXCEPT !.step = next, !.polled = 0]
        /\ IF next = "seeking" THEN Send("seek", epoch) ELSE UNCHANGED <<jobs, reply>>
  /\ UiOnly /\ UNCHANGED <<woken, epoch, seeks>>

\* take_shared: the failure is taken before a second drain.
ReadStatus ==
  /\ ui.step = "status"
  /\ ui' = [ui EXCEPT !.step = "recheck", !.failed = shared.failure]
  /\ shared' = [shared EXCEPT !.failure = FALSE]
  /\ UNCHANGED <<backend, supervisor, events, reply, woken, epoch, seeks, faults>>

\* What was read is believed once nothing overtakes it.
ApplyStatus ==
  /\ Draining /\ events = <<>> /\ ui.step = "recheck"
  /\ IF ui.failed THEN Closing(Silent)
     ELSE /\ ui' = [ui EXCEPT !.step = "parked", !.polled = 0, !.cut = FALSE]
          /\ UNCHANGED <<jobs, reply, epoch>>
  /\ UiOnly /\ UNCHANGED <<woken, seeks>>

\* A first load starts the player; its backend rings once on registration.
StartPlayer ==
  /\ ui.step = "parked" /\ ~Up /\ epoch < MaxRequests
  /\ mpv' = IdleMpv /\ pending' = TRUE /\ jobs' = <<Refresh>>
  /\ worker' = [NoWorker EXCEPT !.step = "recv"]
  /\ ui' = [ui EXCEPT !.step = "attach"]
  /\ UNCHANGED <<lines, notice, ipc, cache, history, channels, epoch, seeks, faults>>

\* set_worker_waker registers, then wakes for what was published before.
AttachWaker ==
  /\ ui.step = "attach" /\ RequestPlay(ui)
  /\ shared' = [shared EXCEPT !.attached = TRUE] /\ woken' = TRUE
  /\ UNCHANGED <<backend, pending, worker, events, seeks, faults>>

Play ==
  /\ ui.step = "parked" /\ Up /\ RequestPlay(ui)
  /\ UiOnly /\ UNCHANGED <<woken, seeks>>

Stop ==
  /\ ui.step = "parked" /\ Up /\ epoch < MaxRequests
  /\ epoch' = epoch + 1 /\ Send("stop", epoch + 1)
  /\ ui' = [ui EXCEPT !.step = "commanding"]
  /\ UiOnly /\ UNCHANGED <<woken, seeks>>

\* seek_player_command drains the lifecycle events first.
Seek ==
  /\ ui.step = "parked" /\ Up /\ ui.phase # "idle" /\ ui.current # NoLoad /\ seeks < MaxSeeks
  /\ seeks' = seeks + 1
  /\ ui' = [ui EXCEPT !.step = "aim"]
  /\ UiOnly /\ UNCHANGED <<jobs, reply, woken, epoch>>

Close ==
  /\ ui.step = "parked" /\ Up
  /\ Closing(Silent)
  /\ UiOnly /\ UNCHANGED <<woken, seeks>>

\* The answer to a load decides what is current; the stop of what it replaced is
\* to be ignored.
PlayAnswered ==
  /\ ui.step = "playing" /\ reply # "none" /\ reply' = "none"
  /\ ui' = IF reply = "ok"
           THEN [ui EXCEPT !.step = "parked", !.current = ui.latest, !.phase = "loading",
                           !.ignore = ui.current # NoLoad]
           ELSE [ui EXCEPT !.step = "parked"]
  /\ UiOnly /\ UNCHANGED <<jobs, woken, epoch, seeks>>

CommandAnswered ==
  /\ ui.step = "commanding" /\ reply # "none" /\ reply' = "none"
  /\ ui' = [ui EXCEPT !.step = "parked"]
  /\ UiOnly /\ UNCHANGED <<jobs, woken, epoch, seeks>>

SeekAnswered_Retrying ==    \* mutant: a refused seek is sent again
  /\ ui.step = "seeking" /\ reply # "none"
  /\ IF reply = "ok"
     THEN reply' = "none" /\ ui' = [ui EXCEPT !.step = "parked"] /\ UNCHANGED jobs
     ELSE Send("seek", epoch) /\ UNCHANGED ui
  /\ UiOnly /\ UNCHANGED <<woken, epoch, seeks>>
\* A refused seek drains again: the file may just have ended.
SeekAnswered ==
  /\ ui.step = "seeking" /\ reply # "none" /\ reply' = "none"
  /\ ui' = IF reply = "ok" THEN [ui EXCEPT !.step = "parked"]
           ELSE [ui EXCEPT !.step = "refused"]
  /\ UiOnly /\ UNCHANGED <<jobs, woken, epoch, seeks>>

\* The supervisor's thread is joined and its channels are dropped.
Joined ==
  /\ ui.step = "closing" /\ worker.step = "gone" /\ reply # "none" /\ reply' = "none"
  /\ worker' = NoWorker /\ events' = <<>> /\ shared' = Detached
  /\ cache' = NewCache /\ history' = NoHistory
  /\ ui' = [ui EXCEPT !.step = "parked", !.cut = FALSE, !.dropped = FALSE]
  /\ UNCHANGED <<mpv, lines, notice, ipc, pending, jobs, woken, epoch, seeks, faults>>

-----------------------------------------------------------------------------
Init ==
  /\ mpv = NoMpv /\ lines = <<>> /\ notice = FALSE /\ ipc = NewIpc /\ cache = NewCache
  /\ history = NoHistory
  /\ pending = FALSE /\ jobs = <<>> /\ worker = NoWorker
  /\ events = <<>> /\ shared = Detached
  /\ reply = "none" /\ woken = FALSE /\ epoch = 0 /\ seeks = 0 /\ faults = 0
  /\ ui = [step |-> "parked", phase |-> "idle", current |-> NoLoad,
           latest |-> NoLoad, ignore |-> FALSE, polled |-> 0, failed |-> FALSE,
           cut |-> FALSE, dropped |-> FALSE]

Mpv == MpvStart \/ MpvAbandon \/ MpvAdvance \/ MpvRedirect \/ MpvEnd \/ MpvExit
Supervise ==
  \/ TakeRefresh \/ ClearPending \/ ExecutePlay \/ ExecuteStop \/ ExecuteSeek \/ ExecuteShutdown
  \/ PollEvent \/ WakeAfterEvent \/ Rearm \/ PublishStatus
Reduce ==
  \/ DrainEvent \/ TooManyEvents \/ CaughtUp \/ ReadStatus \/ ApplyStatus
  \/ AttachWaker \/ PlayAnswered \/ CommandAnswered \/ SeekAnswered
  \/ Joined
User == StartPlayer \/ Play \/ Stop \/ Seek \/ Close

Next == Mpv \/ Notify \/ Supervise \/ Tick \/ Reduce \/ User

\* Each thread goes on while it can: mpv carries out what it has accepted, the
\* reader notifies, the reducer works its events off and ticks at least every
\* IDLE_TICK.  SupervisorRuns is WF_vars(Supervise) spelled out: every step of the
\* supervisor changes worker, and it can take one unless it is parked or gone.
Parked == worker.step \in {"none", "gone"} \/ (worker.step = "recv" /\ jobs = <<>>)
SupervisorRuns == []<>Parked \/ []<><<TRUE>>_worker
Fairness ==
  /\ WF_vars(MpvStart) /\ WF_vars(MpvAbandon) /\ WF_vars(Notify)
  /\ SupervisorRuns
  /\ WF_vars(Reduce) /\ WF_vars(Tick)

Spec == Init /\ [][Next]_vars /\ Fairness
-----------------------------------------------------------------------------
Loads == 0..(MaxRequests + 1)
Lines == [kind : {"start", "loaded", "restart", "redirect", "stop", "eof", "error"}, load : Loads]
LifecycleEvents ==
  [kind : {"loaded", "restart", "stop", "eof", "error", "exited"}, load : Loads]

\* Every variable keeps its type, and the queues their bounds.
TypeOK ==
  /\ mpv \in [alive : BOOLEAN, file : Loads, next : Loads, stop : BOOLEAN,
              stage : {"idle", "opening", "ready", "playing"}]
  /\ lines \in Seq(Lines) /\ Len(lines) <= MaxLines
  /\ {notice, pending, woken} \subseteq BOOLEAN
  /\ ipc.events \in Seq(LifecycleEvents) /\ Len(ipc.events) <= MaxBacklog
  /\ ipc.seek \in Loads
  /\ cache.input \in Loads /\ cache.ticket.input \in Loads /\ cache.ticket.expected \in Loads
  /\ jobs \in Seq([kind : {"refresh", "play", "stop", "seek", "shutdown"}, load : Loads])
  /\ worker \in [step : {"none", "recv", "clear", "poll", "wake", "rearm", "status", "gone"},
                 sent : 0..MaxPerPass, processed : Loads]
  /\ events \in Seq(LifecycleEvents)
  /\ shared \in [failure : BOOLEAN, attached : BOOLEAN]
  /\ reply \in {"none", "ok", "error"}
  /\ ui \in [step : Drains \cup {"parked", "attach", "status", "playing",
                                 "commanding", "seeking", "closing"},
             phase : {"idle", "loading", "loaded", "playing"}, current : Loads, latest : Loads,
             ignore : BOOLEAN, polled : 0..MaxPerTick, failed : BOOLEAN,
             cut : BOOLEAN, dropped : BOOLEAN]

\* At most one wake-up is queued for the supervisor however many lines and
\* operations ring, and the flag that coalesces them is set exactly while that
\* wake-up is queued or has just been taken: a flag left set would silence the
\* reader for good, one cleared early would flood the inbox.
WakeIsQueued ==
  worker.step \notin {"none", "gone"} =>
    LET queued == {i \in DOMAIN jobs : jobs[i] = Refresh}
    IN /\ Cardinality(queued) <= 1
       /\ pending <=> (queued # {} \/ worker.step = "clear")

\* When the supervisor sleeps with an empty inbox, nothing waits for it: every
\* line read off the pipe is parsed or its signal is on the way, no retained seek is
\* due, every parsed lifecycle event was forwarded and the exit of mpv was reported.
\* After a poll that failed, events and the exit are left to the next signal: the
\* failure was published in their place.
NothingStranded ==
  worker.step = "recv" /\ jobs = <<>> /\ ~notice =>
    /\ lines = <<>> /\ ~SeekIsDue(ipc)
    /\ ~history.failed => ipc.events = <<>> /\ (~mpv.alive => ipc.exited)

\* While the reducer waits for input, an event or a failure it has not read yet
\* has woken the front end or is about to, except for the rest of a batch that
\* the end of a file cut short.
FrontIsTold ==
  /\ ui.step = "parked" /\ shared.attached /\ ~ui.cut
  /\ events # <<>> \/ shared.failure
  => woken \/ worker.step = "wake"

\* A cache-export ticket that still counts as current is for the load the
\* reducer asked for last, even while that request waits behind a snapshot.
TicketIsLatest ==
  cache.ticket.valid /\ cache.ticket.expected = epoch => cache.ticket.input = ui.latest

\* A seek reaches the load it was made for, held back as long as that takes,
\* unless mpv reported the start of an older load after a newer was accepted,
\* carried out a load whose request had failed, or failed a load or a stop before
\* the last accepted load began.
SeekReachesItsLoad == history.sought = history.reached \/ history.crossed

\* The reducer never waits for ever: every request is answered, whatever mpv
\* does meanwhile.
RequestsAnswered ==
  ui.step \in {"playing", "commanding", "seeking", "closing"} ~> ui.step = "parked"

\* An exit of mpv that nobody asked for reaches the reducer, which gives the
\* player up, unless the end of a file made it drop a failure it had just read.
ExitIsNoticed == shared.attached /\ ~mpv.alive ~> ~shared.attached \/ ui.dropped
=============================================================================
