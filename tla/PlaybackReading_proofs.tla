---------------------- MODULE PlaybackReading_proofs ----------------------
(***************************************************************************)
(* What the adapter makes of the lines it reads, and with it the types of  *)
(* the whole supervision, that nothing is stranded in it, and that tickets *)
(* and seeks belong to their loads, for every value of the constants.      *)
(***************************************************************************)
EXTENDS PlaybackSupervision_proofs, FoldTheorems

-----------------------------------------------------------------------------
(* Folds over a queue *)

\* A non-empty set of positions of a queue has a last one.
LEMMA LastPosition ==
  ASSUME NEW n \in Nat, NEW A \in SUBSET (1..n), A # {}
  PROVE  Max(A) \in A
<1> DEFINE B == {n - x : x \in A}
<1>1. B \in SUBSET Nat /\ B # {}
  <2>1. \A x \in A : x \in Int /\ n - x \in Nat OBVIOUS
  <2>2. B # {} OBVIOUS
  <2> QED BY <2>1, <2>2
<1>2. PICK b \in B : \A y \in B : b <= y BY <1>1, LeastNatural
<1>3. PICK x \in A : b = n - x BY <1>2
<1>4. ASSUME NEW y \in A PROVE x >= y
  <2>1. n - y \in B OBVIOUS
  <2>2. n - x <= n - y BY <1>2, <1>3, <2>1
  <2> QED BY <2>2
<1> QED BY <1>4 DEF Max

\* Whatever holds of what the queue is read into, and is kept by every line, holds of
\* the result.
LEMMA FoldKeeps ==
  ASSUME NEW T, NEW L, NEW m \in T, NEW q \in Seq(L),
         \A x \in T, line \in L : HandleEvent(x, line) \in T
  PROVE  FoldLeft(HandleEvent, m, q) \in T
<1> DEFINE S == DOMAIN q
           pick == [A \in SUBSET S |-> Max(A)]
           step == [i \in S |-> [x \in T |-> HandleEvent(x, q[i])]]
           Rec(f) == [A \in SUBSET S |->
                        IF A = {} THEN m ELSE HandleEvent(f[A \ {Max(A)}], q[Max(A)])]
           chosen == CHOOSE f : f = Rec(f)
<1>1. S = 1..Len(q) /\ Len(q) \in Nat OBVIOUS
<1>2. IsFiniteSet(S) BY <1>1, FS_Interval
<1>3. \A A \in SUBSET S : A # {} => Max(A) \in A BY <1>1, LastPosition
<1>4. \A i \in S : q[i] \in L OBVIOUS
<1>5. \A A \in SUBSET S : A # {} => pick[A] \in A BY <1>3
<1>6. step \in [S -> [T -> T]] BY <1>4
<1> HIDE DEF S
<1>7. PICK f : IsFold(S, T, m, pick, step, f)
  <2> HIDE DEF pick, step
  <2> QED BY <1>2, <1>5, <1>6, FoldExists
<1>8. f = Rec(f)
  <2>1. f \in [SUBSET S -> T] BY <1>7 DEF IsFold
  <2>2. ASSUME NEW A \in SUBSET S
        PROVE  f[A] = IF A = {} THEN m ELSE HandleEvent(f[A \ {Max(A)}], q[Max(A)])
    <3>1. CASE A = {} BY <1>7, <3>1 DEF IsFold
    <3>2. CASE A # {}
      <4>1. f[A] = step[pick[A]][f[A \ {pick[A]}]] BY <1>7, <3>2 DEF IsFold
      <4>2. pick[A] = Max(A) /\ Max(A) \in S BY <1>3, <3>2
      <4>3. f[A \ {Max(A)}] \in T BY <2>1
      <4> QED BY <3>2, <4>1, <4>2, <4>3
    <3> QED BY <3>1, <3>2
  <2> QED BY <2>1, <2>2
<1>9. chosen = Rec(chosen)
  <2> HIDE DEF Rec
  <2> QED BY <1>8
<1> HIDE DEF chosen
<1>10. \A A \in SUBSET S : chosen[A] = IF A = {} THEN m
                                      ELSE HandleEvent(chosen[A \ {Max(A)}], q[Max(A)])
  BY <1>9
<1> DEFINE G == {A \in SUBSET S : chosen[A] \in T}
<1>11. ASSUME NEW A \in SUBSET S, \A x \in A : A \ {x} \in G PROVE A \in G
  <2>1. CASE A = {} BY <1>10, <2>1
  <2>2. CASE A # {}
    <3>1. Max(A) \in A /\ q[Max(A)] \in L BY <1>3, <1>4, <2>2
    <3>2. chosen[A \ {Max(A)}] \in T BY <1>11, <3>1
    <3>3. chosen[A] = HandleEvent(chosen[A \ {Max(A)}], q[Max(A)]) BY <1>10, <2>2
    <3> QED BY <3>1, <3>2, <3>3
  <2> QED BY <2>1, <2>2
<1> HIDE DEF G
<1>12. \A A \in SUBSET S : A \in G BY <1>2, <1>11, SubsetsHave
<1>13. chosen[S] \in T BY <1>12 DEF G
<1>14. FoldLeft(HandleEvent, m, q) = chosen[S]
  BY DEF FoldLeft, MapThenFoldSet, chosen, S
<1> QED BY <1>13, <1>14

-----------------------------------------------------------------------------
(* What one line does *)

Backlog == {q \in Seq(LifecycleEvents) : Len(q) <= MaxBacklog}
Ipcs == [accepted : BOOLEAN, loading : BOOLEAN, loaded : BOOLEAN, synced : BOOLEAN,
         exited : BOOLEAN, seek : Loads, events : Backlog]
Tickets == [input : Loads, expected : Loads, valid : BOOLEAN]
Caches == [input : Loads, loaded : BOOLEAN, alive : BOOLEAN, ticket : Tickets]
Histories == [sought : Loads, reached : Loads, crossed : BOOLEAN, failed : BOOLEAN]
Readings(L) == [ipc : Ipcs, cache : Caches, lines : Seq(L), history : Histories,
                rang : BOOLEAN, error : BOOLEAN]

\* What r, read from m, has kept: an event it did not have rang, and so did what made a
\* seek due; a seek or a ticket is the one it was or none.
Later(m, r) ==
  /\ m.history.crossed => r.history.crossed
  /\ r.history.failed = m.history.failed
  /\ m.rang => r.rang
  /\ r.rang \/ r.ipc.events = m.ipc.events
  /\ SeekIsDue(r.ipc) => r.rang \/ SeekIsDue(m.ipc)
  /\ r.ipc.seek \in {m.ipc.seek, NoLoad}
  /\ r.ipc.exited = m.ipc.exited
  /\ r.ipc.accepted => m.ipc.accepted
  /\ r.cache.input = m.cache.input
  /\ r.cache.ticket = m.cache.ticket \/ ~r.cache.ticket.valid

LEMMA LaterAgain ==
  ASSUME NEW m, NEW r, NEW s, Later(m, r), Later(r, s)
  PROVE  Later(m, s)
BY DEF Later

LEMMA LaterSelf == ASSUME NEW m PROVE Later(m, m)
BY DEF Later

\* A start-file ends the wait for the load, and is another's or crosses; no other line
\* ends it, or the loading of a load that is waited for.
Handled(m, line, r) ==
  /\ r.lines = m.lines /\ r.error = m.error
  /\ r.history.sought = m.history.sought /\ r.history.reached = m.history.reached
  /\ line.kind = "start" =>
       ~r.ipc.accepted /\ (line.load = m.cache.input \/ r.history.crossed)
  /\ line.kind # "start" =>
       /\ r.ipc.accepted = m.ipc.accepted
       /\ m.ipc.accepted /\ m.ipc.loading => r.ipc.loading

\* r is what it was read from, but for its events, and has rung.
Rung(m, r) ==
  /\ r.rang /\ r.cache = m.cache /\ r.history = m.history
  /\ r.lines = m.lines /\ r.error = m.error
  /\ r.ipc.accepted = m.ipc.accepted /\ r.ipc.loading = m.ipc.loading
  /\ r.ipc.seek = m.ipc.seek /\ r.ipc.exited = m.ipc.exited

LEMMA PushedReading ==
  ASSUME NEW L, NEW m \in Readings(L), NEW line \in LifecycleEvents
  PROVE  Pushed(m, line) \in Readings(L) /\ Rung(m, Pushed(m, line))
<1> DEFINE kept == IF Len(m.ipc.events) = MaxBacklog THEN Tail(m.ipc.events) ELSE m.ipc.events
<1>0. MaxBacklog \in Nat \ {0} BY ConstantsAssumption
<1>1. m.ipc \in Ipcs /\ m.ipc.events \in Seq(LifecycleEvents) /\ Len(m.ipc.events) <= MaxBacklog
  BY DEF Readings, Ipcs, Backlog
<1>2. kept \in Seq(LifecycleEvents) /\ Len(kept) < MaxBacklog
  BY <1>0, <1>1
<1> DEFINE new == Append(kept, line)
<1>3. new \in Backlog BY <1>0, <1>2 DEF Backlog
<1>4. Pushed(m, line) = [m EXCEPT !.ipc.events = new, !.rang = TRUE] BY DEF Pushed
<1> HIDE DEF kept, new
<1>5. [m.ipc EXCEPT !.events = new] \in Ipcs BY <1>1, <1>3 DEF Ipcs
<1>6. Pushed(m, line) \in Readings(L) BY <1>4, <1>5 DEF Readings
<1>7. Rung(m, Pushed(m, line)) BY <1>4, <1>1 DEF Readings, Ipcs, Rung
<1> QED BY <1>6, <1>7

NoTicketTyped == NoTicket \in Tickets /\ ~NoTicket.valid

LEMMA NoTicketIs == NoTicketTyped
BY ConstantsAssumption DEF NoTicketTyped, NoTicket, Tickets, Loads, NoLoad

LEMMA InvalidatedCache ==
  ASSUME NEW c \in Caches
  PROVE  /\ Invalidated(c) \in Caches /\ ~Invalidated(c).ticket.valid
         /\ Invalidated(c).input = c.input
BY NoTicketIs DEF NoTicketTyped, Invalidated, Caches

LEMMA HandledBy ==
  ASSUME NEW L, L \subseteq Lines, NEW m \in Readings(L), NEW line \in Lines
  PROVE  LET r == HandleEvent(m, line)
         IN  r \in Readings(L) /\ Later(m, r) /\ Handled(m, line, r)
<1> DEFINE r == HandleEvent(m, line)
<1> SUFFICES r \in Readings(L) /\ Later(m, r) /\ Handled(m, line, r)
  OBVIOUS
<1>0. /\ m.ipc \in Ipcs /\ m.cache \in Caches /\ m.history \in Histories
      /\ m.rang \in BOOLEAN /\ m.error \in BOOLEAN /\ m.lines \in Seq(L) /\ NoLoad \in Loads
  BY ConstantsAssumption DEF Readings, Loads, NoLoad
<1>1. /\ Invalidated(m.cache) \in Caches /\ ~Invalidated(m.cache).ticket.valid
      /\ Invalidated(m.cache).input = m.cache.input
  BY <1>0, InvalidatedCache
<1>2. CASE line.kind = "start"
  <2>1. r = Started(m, line) BY <1>2 DEF HandleEvent
  <2> DEFINE i == [m.ipc EXCEPT !.accepted = FALSE, !.loading = TRUE, !.loaded = FALSE]
             c == Invalidated(m.cache)
             h == [m.history EXCEPT !.crossed = @ \/ line.load # m.cache.input]
  <2>2. r = [m EXCEPT !.ipc = i, !.cache = c, !.history = h]
    BY <2>1, <1>0 DEF Started, Readings, Ipcs, Histories
  <2>3. /\ i \in Ipcs /\ ~i.accepted /\ ~SeekIsDue(i)
        /\ i.seek = m.ipc.seek /\ i.exited = m.ipc.exited /\ i.events = m.ipc.events
    BY <1>0 DEF Ipcs, SeekIsDue
  <2>4. /\ h \in Histories /\ h.sought = m.history.sought /\ h.reached = m.history.reached
        /\ h.failed = m.history.failed
        /\ h.crossed <=> m.history.crossed \/ line.load # m.cache.input
    BY <1>0 DEF Histories
  <2> HIDE DEF i, c, h, r
  <2>5. r \in Readings(L) /\ r.ipc = i /\ r.cache = c /\ r.history = h
    BY <2>2, <2>3, <2>4, <1>1 DEF Readings, c
  <2>6. r.rang = m.rang /\ r.lines = m.lines /\ r.error = m.error BY <2>2 DEF Readings
  <2> QED BY <1>1, <1>2, <2>3, <2>4, <2>5, <2>6 DEF Later, Handled, c
<1>3. CASE line.kind = "loaded"
  <2> DEFINE i == [m.ipc EXCEPT !.loading = @ /\ m.ipc.accepted, !.loaded = TRUE, !.synced = FALSE]
             c == [m.cache EXCEPT !.loaded = TRUE]
             n == [m EXCEPT !.ipc = i, !.cache = c]
  <2>1. r = Pushed(n, line)
    BY <1>0, <1>3 DEF HandleEvent, Loaded, Readings, Ipcs, Caches
  <2>2. /\ i \in Ipcs /\ i.accepted = m.ipc.accepted
        /\ (m.ipc.accepted /\ m.ipc.loading => i.loading)
        /\ i.seek = m.ipc.seek /\ i.exited = m.ipc.exited
    BY <1>0 DEF Ipcs
  <2>3. c \in Caches /\ c.input = m.cache.input /\ c.ticket = m.cache.ticket
    BY <1>0 DEF Caches
  <2> HIDE DEF i, c
  <2>4. /\ n \in Readings(L) /\ n.ipc = i /\ n.cache = c /\ n.history = m.history
        /\ n.lines = m.lines /\ n.error = m.error
    BY <2>2, <2>3 DEF Readings
  <2>5. line \in LifecycleEvents BY <1>3 DEF Lines, LifecycleEvents
  <2> HIDE DEF n, r
  <2>6. r \in Readings(L) /\ Rung(n, r) BY <2>1, <2>4, <2>5, PushedReading
  <2> QED BY <1>3, <2>2, <2>3, <2>4, <2>6 DEF Later, Handled, Rung
<1>4. CASE line.kind = "restart"
  <2>1. r = Pushed(m, line) BY <1>4 DEF HandleEvent
  <2>2. line \in LifecycleEvents BY <1>4 DEF Lines, LifecycleEvents
  <2> HIDE DEF r
  <2>3. r \in Readings(L) /\ Rung(m, r) BY <2>1, <2>2, PushedReading
  <2> QED BY <1>4, <2>3 DEF Later, Handled, Rung
<1>5. CASE line.kind = "redirect"
  <2>1. r = Redirected(m) BY <1>5 DEF HandleEvent
  <2> DEFINE i == [m.ipc EXCEPT !.loading = TRUE, !.loaded = FALSE]
             c == Invalidated(m.cache)
  <2>2. r = [m EXCEPT !.ipc = i, !.cache = c]
    BY <2>1, <1>0 DEF Redirected, Readings, Ipcs
  <2>3. /\ i \in Ipcs /\ i.accepted = m.ipc.accepted /\ i.loading /\ ~SeekIsDue(i)
        /\ i.seek = m.ipc.seek /\ i.exited = m.ipc.exited /\ i.events = m.ipc.events
    BY <1>0 DEF Ipcs, SeekIsDue
  <2> HIDE DEF i, c, r
  <2>4. r \in Readings(L) /\ r.ipc = i /\ r.cache = c /\ r.history = m.history
    BY <2>2, <2>3, <1>1 DEF Readings, c
  <2>5. r.rang = m.rang /\ r.lines = m.lines /\ r.error = m.error BY <2>2 DEF Readings
  <2> QED BY <1>1, <1>5, <2>3, <2>4, <2>5 DEF Later, Handled, c
<1>6. CASE line.kind \in {"stop", "eof", "error"}
  <2> DEFINE i == [m.ipc EXCEPT !.loading = @ /\ m.ipc.accepted, !.loaded = FALSE,
                                !.seek = IF m.ipc.accepted THEN @ ELSE NoLoad]
             c == Invalidated(m.cache)
             n == [m EXCEPT !.ipc = i, !.cache = c]
  <2>1. r = Pushed(n, line)
    <3>1. r = Ended(m, line) BY <1>6 DEF HandleEvent
    <3> QED BY <1>0, <3>1 DEF Ended, Readings, Ipcs, Caches
  <2>2. /\ i \in Ipcs /\ i.accepted = m.ipc.accepted
        /\ (m.ipc.accepted /\ m.ipc.loading => i.loading)
        /\ i.seek \in {m.ipc.seek, NoLoad} /\ i.exited = m.ipc.exited
    BY <1>0 DEF Ipcs
  <2> HIDE DEF i, c
  <2>4. /\ n \in Readings(L) /\ n.ipc = i /\ n.cache = c /\ n.history = m.history
        /\ n.lines = m.lines /\ n.error = m.error
    BY <1>1, <2>2 DEF Readings, c
  <2>5. line \in LifecycleEvents BY <1>6 DEF Lines, LifecycleEvents
  <2> HIDE DEF n, r
  <2>6. r \in Readings(L) /\ Rung(n, r) BY <2>1, <2>4, <2>5, PushedReading
  <2> QED BY <1>1, <1>6, <2>2, <2>4, <2>6 DEF Later, Handled, Rung, c
<1>7. line.kind \in {"start", "loaded", "restart", "redirect", "stop", "eof", "error"}
  BY DEF Lines
<1> QED BY <1>2, <1>3, <1>4, <1>5, <1>6, <1>7

-----------------------------------------------------------------------------
(* What reading lines keeps *)

\* A load that a seek, a file or a command is of, if it is of any.
In(load, A) == load \in {NoLoad, A}

\* No start-file of A among the lines L is that of a file the player p has not open.
Begun(L, p, A) == \A line \in L : line.kind = "start" /\ line.load = A => In(p.file, A)

\* While x waits for A of a player that runs, and no loads crossed.
NoneYet(L, p, x, A) == p.alive /\ x.ipc.accepted /\ ~x.history.crossed => Begun(L, p, A)

\* The seeks of x are for A: the file of p is A, or A is the load that p and x wait for,
\* behind the end of the file, unless loads crossed; and the last seek reached its load.
Aligned(p, x, A) ==
  /\ x.history.sought = x.history.reached \/ x.history.crossed
  /\ \/ x.history.crossed
     \/ ~p.alive
     \/ /\ In(x.ipc.seek, A)
        /\ x.ipc.accepted => A = x.cache.input /\ A # NoLoad
        /\ \/ In(p.file, A)
           \/ x.ipc.accepted /\ (p.stop \/ (x.ipc.loading /\ p.next = A))

Kept(L, m, r, p, A) ==
  /\ r \in Readings(L) /\ Later(m, r) /\ Len(r.lines) <= Len(m.lines)
  /\ NoneYet(L, p, m, A) /\ Aligned(p, m, A) => Aligned(p, r, A)

LEMMA KeptAgain ==
  ASSUME NEW L, NEW m \in Readings(L), NEW r \in Readings(L), NEW s \in Readings(L),
         NEW p, NEW A, Kept(L, m, r, p, A), Kept(L, r, s, p, A)
  PROVE  Kept(L, m, s, p, A)
<1>1. Later(m, s) BY LaterAgain DEF Kept
<1>2. Len(s.lines) <= Len(m.lines)
  <2>1. m.lines \in Seq(L) /\ r.lines \in Seq(L) /\ s.lines \in Seq(L) BY DEF Readings
  <2>2. Len(m.lines) \in Nat /\ Len(r.lines) \in Nat /\ Len(s.lines) \in Nat BY <2>1
  <2> QED BY <2>2 DEF Kept
<1>3. NoneYet(L, p, m, A) => NoneYet(L, p, r, A) BY DEF Kept, Later, NoneYet
<1> QED BY <1>1, <1>2, <1>3 DEF Kept

LEMMA KeptSelf ==
  ASSUME NEW L, NEW m \in Readings(L), NEW p, NEW A
  PROVE  Kept(L, m, m, p, A)
<1>1. Len(m.lines) \in Nat BY DEF Readings
<1> QED BY <1>1, LaterSelf DEF Kept

\* One line keeps the alignment.
LEMMA HandledAligned ==
  ASSUME NEW L, L \subseteq Lines, NEW m \in Readings(L), NEW line \in L, NEW p, NEW A,
         NoneYet(L, p, m, A), Aligned(p, m, A)
  PROVE  Aligned(p, HandleEvent(m, line), A)
<1> DEFINE r == HandleEvent(m, line)
<1>1. Later(m, r) /\ Handled(m, line, r) BY HandledBy
<1> HIDE DEF r
<1>2. r.history.sought = r.history.reached \/ r.history.crossed
  BY <1>1 DEF Later, Handled, Aligned
<1>3. CASE m.history.crossed \/ ~p.alive
  BY <1>1, <1>2, <1>3 DEF Later, Aligned, r
<1>4. CASE ~(m.history.crossed \/ ~p.alive)
  <2>1. /\ In(m.ipc.seek, A)
        /\ m.ipc.accepted => A = m.cache.input /\ A # NoLoad
        /\ \/ In(p.file, A)
           \/ m.ipc.accepted /\ (p.stop \/ (m.ipc.loading /\ p.next = A))
    BY <1>4 DEF Aligned
  <2>2. In(r.ipc.seek, A) /\ r.cache.input = m.cache.input BY <1>1, <2>1 DEF Later, In
  <2>3. CASE line.kind = "start" /\ ~r.history.crossed
    <3>1. ~r.ipc.accepted /\ line.load = m.cache.input BY <1>1, <2>3 DEF Handled
    <3>2. In(p.file, A)
      <4>1. m.ipc.accepted => Begun(L, p, A) BY <1>4 DEF NoneYet
      <4> QED BY <2>1, <2>3, <3>1, <4>1 DEF Begun
    <3> QED BY <1>2, <2>2, <3>1, <3>2 DEF Aligned, r
  <2>4. CASE line.kind # "start"
    <3>1. r.ipc.accepted = m.ipc.accepted /\ (m.ipc.accepted /\ m.ipc.loading => r.ipc.loading)
      BY <1>1, <2>4 DEF Handled
    <3> QED BY <1>2, <2>1, <2>2, <3>1 DEF Aligned, r
  <2>5. CASE r.history.crossed BY <1>2, <2>5 DEF Aligned, r
  <2> QED BY <2>3, <2>4, <2>5
<1> QED BY <1>3, <1>4

\* ReadLines reads the first lines and leaves the others.
LEMMA ReadBy ==
  ASSUME NEW L, L \subseteq Lines, NEW m \in Readings(L), NEW n \in 0..Len(m.lines),
         NEW p, NEW A
  PROVE  /\ Kept(L, m, ReadLines(m, n), p, A)
         /\ n = Len(m.lines) => ReadLines(m, n).lines = <<>>
         /\ ReadLines(m, n).error = m.error
<1> DEFINE q == SubSeq(m.lines, 1, n)
           rest == SubSeq(m.lines, n + 1, Len(m.lines))
           ok == NoneYet(L, p, m, A) /\ Aligned(p, m, A)
           T == {x \in Readings(L) : /\ Later(m, x) /\ x.error = m.error
                                     /\ ok => Aligned(p, x, A)}
           f == FoldLeft(HandleEvent, m, q)
<1>0. m.lines \in Seq(L) /\ Len(m.lines) \in Nat /\ n \in Nat /\ n <= Len(m.lines)
  BY DEF Readings
<1>1. q \in Seq(L) /\ rest \in Seq(L) /\ Len(rest) = Len(m.lines) - n
  BY <1>0
<1>2. m \in T BY LaterSelf
<1>3. ASSUME NEW x \in T, NEW line \in L PROVE HandleEvent(x, line) \in T
  <2> DEFINE r == HandleEvent(x, line)
  <2>1. r \in Readings(L) /\ Later(x, r) /\ r.error = x.error BY HandledBy DEF Handled
  <2>2. Later(m, r) BY <2>1, LaterAgain
  <2>3. ok => Aligned(p, r, A)
    <3>1. NoneYet(L, p, m, A) => NoneYet(L, p, x, A) BY DEF Later, NoneYet
    <3> QED BY <3>1, HandledAligned
  <2> HIDE DEF r, ok
  <2>4. r \in T BY <2>1, <2>2, <2>3
  <2> QED BY <2>4 DEF r
<1> HIDE DEF T
<1>4. f \in T
  <2> HIDE DEF q
  <2> QED BY <1>1, <1>2, <1>3, FoldKeeps
<1>5. f \in Readings(L) /\ Later(m, f) /\ f.error = m.error /\ (ok => Aligned(p, f, A))
  BY <1>4 DEF T
<1> DEFINE r == ReadLines(m, n)
<1>6. r = [f EXCEPT !.lines = rest] BY DEF ReadLines
<1> HIDE DEF f, rest, q, r
<1>7. /\ r \in Readings(L) /\ r.lines = rest /\ r.ipc = f.ipc /\ r.cache = f.cache
      /\ r.history = f.history /\ r.rang = f.rang /\ r.error = f.error
  BY <1>1, <1>5, <1>6 DEF Readings
<1>8. Later(m, r) BY <1>5, <1>7 DEF Later
<1>9. ok => Aligned(p, r, A) BY <1>5, <1>7 DEF Aligned
<1>10. Len(r.lines) <= Len(m.lines) BY <1>0, <1>1, <1>7
<1>11. n = Len(m.lines) => r.lines = <<>> BY <1>0, <1>1, <1>7
<1> QED BY <1>5, <1>7, <1>8, <1>9, <1>10, <1>11 DEF Kept, r

-----------------------------------------------------------------------------
(* The supervisor's calls into the adapter *)

Players == [alive : BOOLEAN, file : Loads, next : Loads, stop : BOOLEAN,
            stage : {"idle", "opening", "ready", "playing"}]

LEMMA RequestedBy ==
  ASSUME NEW L, L \subseteq Lines, NEW m \in Readings(L), NEW failed \in BOOLEAN, NEW p, NEW A,
         mpv.alive \in BOOLEAN
  PROVE  /\ Kept(L, m, Requested(m, failed), p, A)
         /\ Requested(m, failed).error <=> failed \/ ~mpv.alive
<1> DEFINE r == Requested(m, failed)
<1>0. Len(m.lines) \in 0..Len(m.lines) BY DEF Readings
<1> DEFINE f == ReadLines(m, Len(m.lines))
<1>1. Kept(L, m, f, p, A) BY <1>0, ReadBy
<1>2. CASE mpv.alive
  <2>1. r = [f EXCEPT !.error = failed] BY <1>2 DEF Requested, Answered
  <2> HIDE DEF f, r
  <2>2. /\ r \in Readings(L) /\ r.ipc = f.ipc /\ r.cache = f.cache /\ r.lines = f.lines
        /\ r.history = f.history /\ r.rang = f.rang /\ r.error = failed
    BY <1>1, <2>1 DEF Kept, Readings
  <2>3. Kept(L, m, r, p, A) BY <1>1, <2>2 DEF Kept, Later, Aligned
  <2> QED BY <1>2, <2>2, <2>3 DEF r
<1>3. CASE ~mpv.alive
  <2>1. r = [m EXCEPT !.error = TRUE] BY <1>3 DEF Requested
  <2> HIDE DEF r
  <2>2. /\ r \in Readings(L) /\ r.ipc = m.ipc /\ r.cache = m.cache /\ r.lines = m.lines
        /\ r.history = m.history /\ r.rang = m.rang /\ r.error = TRUE
    BY <2>1 DEF Readings
  <2>3. Len(m.lines) \in Nat BY DEF Readings
  <2>4. Kept(L, m, r, p, A) BY <2>2, <2>3 DEF Kept, Later, Aligned
  <2> QED BY <1>3, <2>2, <2>4 DEF r
<1> QED BY <1>2, <1>3

\* A seek of A that reached a file reached A's, if the player has no other open or
\* takes none.
LEMMA SoughtBy ==
  ASSUME NEW L, L \subseteq Lines, NEW m \in Readings(L), NEW failed \in BOOLEAN,
         NEW load \in Loads, NEW A, mpv \in Players
  PROVE  LET r == Sought(m, load, failed)
         IN  /\ r \in Readings(L) /\ Later(m, r) /\ Len(r.lines) <= Len(m.lines)
             /\ /\ NoneYet(L, mpv, m, A)
                /\ Aligned(mpv, m, A) /\ load = A
                /\ m.history.crossed \/ ~mpv.alive \/ In(mpv.file, A) \/ mpv.stop
                => Aligned(mpv, r, A)
<1> DEFINE lost == failed \/ mpv.file = NoLoad
           done == Requested(m, lost)
           r == Sought(m, load, failed)
<1>0. lost \in BOOLEAN /\ mpv.alive \in BOOLEAN BY DEF Players
<1> SUFFICES /\ r \in Readings(L) /\ Later(m, r) /\ Len(r.lines) <= Len(m.lines)
             /\ /\ NoneYet(L, mpv, m, A)
                /\ Aligned(mpv, m, A) /\ load = A
                /\ m.history.crossed \/ ~mpv.alive \/ In(mpv.file, A) \/ mpv.stop
                => Aligned(mpv, r, A)
  OBVIOUS
<1>1. /\ Kept(L, m, done, mpv, A) /\ (done.error <=> lost \/ ~mpv.alive)
  <2> HIDE DEF lost
  <2> QED BY <1>0, RequestedBy
<1>2. CASE done.error \/ mpv.stop
  <2>1. r = done BY <1>2 DEF Sought
  <2> QED BY <1>1, <2>1 DEF Kept
<1>3. CASE ~(done.error \/ mpv.stop)
  <2>1. r = [done EXCEPT !.history.sought = load, !.history.reached = mpv.file]
    BY <1>3 DEF Sought
  <2>2. done.history \in Histories /\ mpv.file \in Loads BY <1>1 DEF Kept, Readings, Players
  <2> DEFINE h == [done.history EXCEPT !.sought = load, !.reached = mpv.file]
  <2>3. /\ h \in Histories /\ h.sought = load /\ h.reached = mpv.file
        /\ h.crossed = done.history.crossed /\ h.failed = done.history.failed
    BY <2>2 DEF Histories
  <2> HIDE DEF lost, done, r
  <2>4. r = [done EXCEPT !.history = h] BY <1>1, <2>1 DEF Kept, Readings
  <2> HIDE DEF h
  <2>5. /\ r \in Readings(L) /\ r.ipc = done.ipc /\ r.cache = done.cache /\ r.lines = done.lines
        /\ r.history = h /\ r.rang = done.rang /\ r.error = done.error
    BY <1>1, <2>3, <2>4 DEF Kept, Readings
  <2>6. Later(m, r) /\ Len(r.lines) <= Len(m.lines)
    BY <1>1, <2>3, <2>5 DEF Kept, Later
  <2>7. mpv.file # NoLoad /\ mpv.alive /\ ~mpv.stop BY <1>1, <1>3 DEF lost
  <2>8. ASSUME NoneYet(L, mpv, m, A), Aligned(mpv, m, A), load = A,
               m.history.crossed \/ ~mpv.alive \/ In(mpv.file, A) \/ mpv.stop
        PROVE  Aligned(mpv, r, A)
    <3>1. Aligned(mpv, done, A) BY <1>1, <2>8 DEF Kept
    <3>2. m.history.crossed => done.history.crossed BY <1>1 DEF Kept, Later
    <3>3. r.history.crossed \/ mpv.file = A BY <2>3, <2>5, <2>7, <2>8, <3>2 DEF In
    <3> QED BY <2>3, <2>5, <2>8, <3>1, <3>3 DEF Aligned
  <2> QED BY <2>5, <2>6, <2>8
<1> QED BY <1>2, <1>3

\* A seek that is due is gone once it was serviced.
LEMMA ServicedBy ==
  ASSUME NEW L, L \subseteq Lines, NEW m \in Readings(L), NEW failed \in BOOLEAN,
         NEW A, mpv \in Players
  PROVE  /\ Kept(L, m, Serviced(m, failed), mpv, A)
         /\ m.error \/ ~SeekIsDue(Serviced(m, failed).ipc)
         /\ Serviced(m, failed).error => m.error \/ SeekIsDue(m.ipc)
<1> DEFINE r == Serviced(m, failed)
<1>1. CASE m.error \/ ~SeekIsDue(m.ipc)
  <2>1. r = m BY <1>1 DEF Serviced
  <2> QED BY <1>1, <2>1, KeptSelf
<1>2. CASE ~m.error /\ SeekIsDue(m.ipc)
  <2> DEFINE n == [m EXCEPT !.ipc.seek = NoLoad]
             i == [m.ipc EXCEPT !.seek = NoLoad]
             load == m.ipc.seek
  <2>1. r = Sought(n, load, failed) BY <1>2 DEF Serviced
  <2>2. m.ipc \in Ipcs /\ NoLoad \in Loads BY ConstantsAssumption DEF Readings, Loads, NoLoad
  <2>3. /\ i \in Ipcs /\ i.seek = NoLoad /\ i.accepted = m.ipc.accepted
        /\ i.loading = m.ipc.loading /\ i.loaded = m.ipc.loaded /\ i.events = m.ipc.events
        /\ i.exited = m.ipc.exited
    BY <2>2 DEF Ipcs
  <2>4. n = [m EXCEPT !.ipc = i] BY DEF Readings
  <2>5. load \in Loads /\ load # NoLoad /\ ~m.ipc.accepted /\ SeekIsDue(m.ipc)
    BY <1>2, <2>2 DEF SeekIsDue, Ipcs
  <2> HIDE DEF n, i, load, r
  <2>6. /\ n \in Readings(L) /\ n.ipc = i /\ n.cache = m.cache /\ n.lines = m.lines
        /\ n.history = m.history /\ n.rang = m.rang /\ n.error = m.error
    BY <2>3, <2>4 DEF Readings
  <2>7. ~SeekIsDue(n.ipc) BY <2>3, <2>6 DEF SeekIsDue
  <2>8. Later(m, n) BY <2>3, <2>5, <2>6, <2>7 DEF Later
  <2>9. r \in Readings(L) /\ Later(n, r) /\ Len(r.lines) <= Len(n.lines)
    BY <2>1, <2>5, <2>6, SoughtBy
  <2>10. Later(m, r) BY <2>8, <2>9, LaterAgain
  <2>11. r.ipc.seek = NoLoad BY <2>3, <2>6, <2>9 DEF Later
  <2>12. ASSUME NoneYet(L, mpv, m, A), Aligned(mpv, m, A)
         PROVE  Aligned(mpv, r, A)
    <3>1. Aligned(mpv, n, A) BY <2>3, <2>6, <2>12 DEF Aligned, In
    <3>2. CASE n.history.crossed \/ ~mpv.alive
      <4>1. n.history.crossed => r.history.crossed BY <2>9 DEF Later
      <4>2. CASE n.history.crossed BY <4>1, <4>2 DEF Aligned
      <4>3. CASE ~mpv.alive
        <5> DEFINE B == load
        <5>1. NoneYet(L, mpv, n, B) BY <4>3 DEF NoneYet
        <5>2. Aligned(mpv, n, B) BY <3>1, <4>3 DEF Aligned
        <5>3. Aligned(mpv, r, B) BY <2>1, <2>5, <2>6, <4>3, <5>1, <5>2, SoughtBy
        <5> QED BY <4>3, <5>3 DEF Aligned
      <4> QED BY <3>2, <4>2, <4>3
    <3>3. CASE ~(n.history.crossed \/ ~mpv.alive)
      <4>1. load = A /\ In(mpv.file, A)
        BY <2>5, <2>6, <2>12, <3>3 DEF Aligned, In, load
      <4>2. NoneYet(L, mpv, n, A) BY <2>3, <2>5, <2>6 DEF NoneYet
      <4> QED BY <2>1, <2>5, <2>6, <3>1, <4>1, <4>2, SoughtBy
    <3> QED BY <3>2, <3>3
  <2>13. Kept(L, m, r, mpv, A) BY <2>6, <2>9, <2>10, <2>12 DEF Kept
  <2>14. ~SeekIsDue(r.ipc) BY <2>11 DEF SeekIsDue
  <2> QED BY <1>2, <2>13, <2>14 DEF r
<1> QED BY <1>1, <1>2

LEMMA DrainedBy ==
  ASSUME NEW L, L \subseteq Lines, NEW m \in Readings(L), NEW A, mpv \in Players
  PROVE  /\ Kept(L, m, Drained(m), mpv, A)
         /\ Drained(m).lines = <<>> \/ Drained(m).rang
         /\ mpv.alive => ~Drained(m).error
<1> DEFINE count == Min({Len(m.lines), MaxPerDrain})
           f == ReadLines(m, count)
           rang == f.rang \/ count = MaxPerDrain
           error == count < MaxPerDrain /\ ~mpv.alive
           r == Drained(m)
<1>0. Len(m.lines) \in Nat /\ MaxPerDrain \in Nat /\ mpv.alive \in BOOLEAN
  BY ConstantsAssumption DEF Readings, Players
<1>1. count \in Nat /\ count <= Len(m.lines) /\ (count = Len(m.lines) \/ count = MaxPerDrain)
  <2>1. count = IF Len(m.lines) <= MaxPerDrain THEN Len(m.lines) ELSE MaxPerDrain
    <3>1. CASE Len(m.lines) <= MaxPerDrain BY <1>0, <3>1 DEF Min
    <3>2. CASE ~(Len(m.lines) <= MaxPerDrain) BY <1>0, <3>2 DEF Min
    <3> QED BY <3>1, <3>2
  <2> QED BY <1>0, <2>1
<1>2. Kept(L, m, f, mpv, A) /\ (count = Len(m.lines) => f.lines = <<>>)
  <2>1. count \in 0..Len(m.lines) BY <1>0, <1>1
  <2> HIDE DEF count
  <2> QED BY <2>1, ReadBy
<1>3. r = [f EXCEPT !.rang = rang, !.error = error] BY DEF Drained
<1>4. rang \in BOOLEAN /\ error \in BOOLEAN OBVIOUS
<1>5. (f.rang => rang) /\ (count = MaxPerDrain => rang) /\ (mpv.alive => ~error) OBVIOUS
<1> HIDE DEF count, f, r, rang, error
<1>6. /\ r \in Readings(L) /\ r.ipc = f.ipc /\ r.cache = f.cache /\ r.lines = f.lines
      /\ r.history = f.history /\ r.rang = rang /\ r.error = error
  BY <1>2, <1>3, <1>4 DEF Kept, Readings
<1>7. Kept(L, m, r, mpv, A)
  BY <1>2, <1>5, <1>6 DEF Kept, Later, Aligned
<1> QED BY <1>1, <1>2, <1>5, <1>6, <1>7 DEF r

LEMMA SyncedBy ==
  ASSUME NEW L, L \subseteq Lines, NEW m \in Readings(L), NEW failed \in BOOLEAN,
         NEW A, mpv \in Players
  PROVE  Kept(L, m, Synced(m, failed), mpv, A)
<1> DEFINE r == Synced(m, failed)
<1>0. mpv.alive \in BOOLEAN /\ Len(m.lines) \in Nat BY DEF Players, Readings
<1>1. CASE m.error \/ m.ipc.synced
  <2>1. r = m BY <1>1 DEF Synced
  <2> QED BY <2>1, KeptSelf
<1>2. CASE ~(m.error \/ m.ipc.synced)
  <2> DEFINE n == [m EXCEPT !.ipc.synced = TRUE]
             read == Requested(n, failed)
  \* Setting a flag that nothing else looks at keeps all.
  <2>1. ASSUME NEW x \in Readings(L), NEW flag \in BOOLEAN, NEW y, y = [x EXCEPT !.ipc.synced = flag]
        PROVE  Kept(L, x, y, mpv, A)
    <3> DEFINE i == [x.ipc EXCEPT !.synced = flag]
    <3>1. x.ipc \in Ipcs /\ Len(x.lines) \in Nat BY DEF Readings
    <3>2. /\ i \in Ipcs /\ i.seek = x.ipc.seek /\ i.accepted = x.ipc.accepted
          /\ i.loading = x.ipc.loading /\ i.loaded = x.ipc.loaded
          /\ i.events = x.ipc.events /\ i.exited = x.ipc.exited
      BY <3>1 DEF Ipcs
    <3>3. y = [x EXCEPT !.ipc = i] BY <2>1 DEF Readings
    <3> HIDE DEF i
    <3>4. /\ y \in Readings(L) /\ y.ipc = i /\ y.cache = x.cache /\ y.lines = x.lines
          /\ y.history = x.history /\ y.rang = x.rang
      BY <3>2, <3>3 DEF Readings
    <3>5. Later(x, y) BY <3>2, <3>4 DEF Later, SeekIsDue
    <3>6. Aligned(mpv, x, A) => Aligned(mpv, y, A) BY <3>2, <3>4 DEF Aligned
    <3> QED BY <3>1, <3>4, <3>5, <3>6 DEF Kept
  <2>2. Kept(L, m, n, mpv, A) BY <2>1
  <2>3. n \in Readings(L) BY <2>2 DEF Kept
  <2>4. Kept(L, n, read, mpv, A) BY <1>0, <2>3, RequestedBy
  <2>5. read \in Readings(L) BY <2>4 DEF Kept
  <2>6. Kept(L, m, read, mpv, A) BY <2>2, <2>3, <2>4, <2>5, KeptAgain
  <2>7. r = IF read.error THEN [read EXCEPT !.ipc.synced = FALSE] ELSE read
    BY <1>2 DEF Synced
  <2> HIDE DEF n, read, r
  <2>8. CASE r = read BY <2>6, <2>8 DEF r
  <2>9. CASE r = [read EXCEPT !.ipc.synced = FALSE]
    <3> DEFINE off == FALSE
    <3>1. r = [read EXCEPT !.ipc.synced = off] /\ off \in BOOLEAN BY <2>9
    <3> HIDE DEF off
    <3>2. Kept(L, read, r, mpv, A) BY <2>1, <2>5, <3>1
    <3>3. r \in Readings(L) BY <3>2 DEF Kept
    <3> QED BY <2>5, <2>6, <3>2, <3>3, KeptAgain DEF r
  <2> QED BY <2>7, <2>8, <2>9
<1> QED BY <1>1, <1>2

LEMMA AdapterTyped ==
  ASSUME NEW L, ipc \in Ipcs, cache \in Caches, lines \in Seq(L), history \in Histories
  PROVE  /\ Adapter \in Readings(L) /\ Adapter.ipc = ipc /\ Adapter.cache = cache
         /\ Adapter.lines = lines /\ Adapter.history = history /\ Adapter.rang = FALSE
         /\ Adapter.error = FALSE
BY DEF Adapter, Reading, Readings

\* A status reads every line that waits or rings again.
LEMMA StatusBy ==
  ASSUME NEW L, L \subseteq Lines, Adapter \in Readings(L), NEW failed \in BOOLEAN,
         NEW A, mpv \in Players
  PROVE  /\ Kept(L, Adapter, Status(failed), mpv, A)
         /\ Status(failed).lines = <<>> \/ Status(failed).rang
<1> DEFINE d == Drained(Adapter)
           s == Serviced(d, failed)
           y == Synced(s, failed)
           r == Serviced(y, failed)
<1>1. Kept(L, Adapter, d, mpv, A) /\ (d.lines = <<>> \/ d.rang) BY DrainedBy
<1>2. d \in Readings(L) BY <1>1 DEF Kept
<1> HIDE DEF d
<1>3. Kept(L, d, s, mpv, A) BY <1>2, ServicedBy
<1>4. s \in Readings(L) BY <1>3 DEF Kept
<1> HIDE DEF s
<1>5. Kept(L, s, y, mpv, A) BY <1>4, SyncedBy
<1>6. y \in Readings(L) BY <1>5 DEF Kept
<1> HIDE DEF y
<1>7. Kept(L, y, r, mpv, A) BY <1>6, ServicedBy
<1>8. r \in Readings(L) BY <1>7 DEF Kept
<1> HIDE DEF r
<1>9. Kept(L, d, y, mpv, A) BY <1>2, <1>3, <1>4, <1>5, <1>6, KeptAgain
<1>10. Kept(L, d, r, mpv, A) BY <1>2, <1>6, <1>7, <1>8, <1>9, KeptAgain
<1>11. Kept(L, Adapter, r, mpv, A) BY <1>1, <1>2, <1>8, <1>10, KeptAgain
<1>12. r.lines = <<>> \/ r.rang
  <2>1. CASE d.rang BY <1>10, <2>1 DEF Kept, Later
  <2>2. CASE d.lines = <<>>
    <3>1. Len(r.lines) <= 0 /\ r.lines \in Seq(L) BY <1>8, <1>10, <2>2 DEF Kept, Readings
    <3>2. r.lines = <<>> BY <3>1
    <3> QED BY <3>2
  <2> QED BY <1>1, <2>1, <2>2
<1>13. Status(failed) = r BY DEF Status, r, y, s, d
<1> QED BY <1>11, <1>12, <1>13

\* An event read before, an exit or what can be read now.
LEMMA PolledBy ==
  ASSUME NEW L, L \subseteq Lines, Adapter \in Readings(L), NEW failed \in BOOLEAN,
         NEW A, mpv \in Players
  PROVE  LET r == Polled(failed)
         IN  /\ r \in Readings(L) /\ Len(r.lines) <= Len(Adapter.lines)
             /\ ~SeekIsDue(r.ipc)
             /\ r.cache.input = Adapter.cache.input
             /\ r.cache.ticket = Adapter.cache.ticket \/ ~r.cache.ticket.valid
             /\ r.ipc.accepted => Adapter.ipc.accepted
             /\ Adapter.history.crossed => r.history.crossed
             /\ ~r.error /\ r.ipc.events = <<>> /\ ~mpv.alive => r.ipc.exited
             /\ /\ NoneYet(L, mpv, Adapter, A)
                /\ Aligned(mpv, Adapter, A)
                => Aligned(mpv, r, A)
<1> DEFINE q == Serviced(Adapter, failed)
           r == Polled(failed)
           Goal == /\ r \in Readings(L) /\ Len(r.lines) <= Len(Adapter.lines)
                   /\ ~SeekIsDue(r.ipc)
                   /\ r.cache.input = Adapter.cache.input
                   /\ r.cache.ticket = Adapter.cache.ticket \/ ~r.cache.ticket.valid
                   /\ r.ipc.accepted => Adapter.ipc.accepted
                   /\ Adapter.history.crossed => r.history.crossed
                   /\ ~r.error /\ r.ipc.events = <<>> /\ ~mpv.alive => r.ipc.exited
                   /\ /\ NoneYet(L, mpv, Adapter, A)
                      /\ Aligned(mpv, Adapter, A)
                      => Aligned(mpv, r, A)
<1> SUFFICES Goal
  OBVIOUS
<1>1. Kept(L, Adapter, q, mpv, A) /\ (Adapter.error \/ ~SeekIsDue(q.ipc)) BY ServicedBy
<1>2. ~Adapter.error BY DEF Adapter, Reading
<1>3. q \in Readings(L) BY <1>1 DEF Kept
<1>4. r = IF q.error \/ q.ipc.events # <<>> \/ q.ipc.exited THEN q
          ELSE IF ~mpv.alive THEN PolledExit(q)
          ELSE Serviced(Drained(q), failed)
  BY DEF Polled
<1> HIDE DEF q, r
<1>5. CASE q.error \/ q.ipc.events # <<>> \/ q.ipc.exited
  <2>1. r = q BY <1>4, <1>5
  <2> QED BY <1>1, <1>2, <1>5, <2>1 DEF Kept, Later
<1>6. CASE ~(q.error \/ q.ipc.events # <<>> \/ q.ipc.exited) /\ ~mpv.alive
  <2> DEFINE gone == [kind |-> "exited", load |-> NoLoad]
             i == [q.ipc EXCEPT !.exited = TRUE, !.seek = NoLoad, !.loading = FALSE,
                                !.events = <<gone>>]
             c == CacheShutdown(q.cache)
  <2>1. r = PolledExit(q) BY <1>4, <1>6
  <2>2. q.ipc \in Ipcs /\ q.cache \in Caches /\ NoLoad \in Loads
    BY <1>3, ConstantsAssumption DEF Readings, Loads, NoLoad
  <2>3. gone \in LifecycleEvents BY <2>2 DEF LifecycleEvents
  <2> HIDE DEF gone
  <2>4. <<gone>> \in Backlog
    <3>1. <<gone>> \in Seq(LifecycleEvents) /\ Len(<<gone>>) = 1 BY <2>3
    <3> QED BY <3>1, ConstantsAssumption DEF Backlog
  <2>5. /\ i \in Ipcs /\ ~SeekIsDue(i) /\ i.exited /\ i.accepted = q.ipc.accepted
    BY <2>2, <2>4 DEF Ipcs, SeekIsDue
  <2>6. c \in Caches /\ c.input = q.cache.input /\ ~c.ticket.valid
    BY <2>2, InvalidatedCache DEF CacheShutdown, Caches
  <2>7. r = [q EXCEPT !.ipc = i, !.cache = c]
    BY <1>3, <2>1 DEF PolledExit, Readings, gone
  <2> HIDE DEF i, c
  <2>8. /\ r \in Readings(L) /\ r.ipc = i /\ r.cache = c /\ r.lines = q.lines
        /\ r.history = q.history
    BY <1>3, <2>5, <2>6, <2>7 DEF Readings
  <2>9. Aligned(mpv, q, A) => Aligned(mpv, r, A) BY <1>6, <2>8 DEF Aligned
  <2> QED BY <1>1, <1>6, <2>5, <2>6, <2>8, <2>9 DEF Kept, Later
<1>7. CASE ~(q.error \/ q.ipc.events # <<>> \/ q.ipc.exited) /\ mpv.alive
  <2> DEFINE d == Drained(q)
  <2>1. Kept(L, q, d, mpv, A) /\ ~d.error BY <1>3, <1>7, DrainedBy
  <2>2. d \in Readings(L) BY <2>1 DEF Kept
  <2>3. r = Serviced(d, failed) BY <1>4, <1>7
  <2> HIDE DEF d
  <2>4. Kept(L, d, r, mpv, A) /\ ~SeekIsDue(r.ipc) BY <2>1, <2>2, <2>3, ServicedBy
  <2>5. r \in Readings(L) BY <2>4 DEF Kept
  <2>6. Kept(L, q, r, mpv, A) BY <1>3, <2>1, <2>2, <2>4, <2>5, KeptAgain
  <2>7. Kept(L, Adapter, r, mpv, A) BY <1>1, <1>3, <2>5, <2>6, KeptAgain
  <2> QED BY <1>7, <2>4, <2>7 DEF Kept, Later
<1> QED BY <1>5, <1>6, <1>7

\* A seek during a load is kept for it; one outside a load reaches what is open.
LEMMA SeekingBy ==
  ASSUME NEW L, L \subseteq Lines, Adapter \in Readings(L), NEW failed \in BOOLEAN,
         NEW load \in Loads, mpv \in Players
  PROVE  LET r == Seeking(load, failed)
         IN  /\ r \in Readings(L) /\ Len(r.lines) <= Len(Adapter.lines)
             /\ r.cache.input = Adapter.cache.input
             /\ r.cache.ticket = Adapter.cache.ticket \/ ~r.cache.ticket.valid
             /\ r.ipc.accepted => Adapter.ipc.accepted
             /\ Adapter.history.crossed => r.history.crossed
             /\ /\ NoneYet(L, mpv, Adapter, load)
                /\ Aligned(mpv, Adapter, load)
                => Aligned(mpv, r, load)
<1> SUFFICES ASSUME NEW r, r = Seeking(load, failed), NEW m, m = Adapter
             PROVE  /\ r \in Readings(L) /\ Len(r.lines) <= Len(m.lines)
                    /\ r.cache.input = m.cache.input
                    /\ r.cache.ticket = m.cache.ticket \/ ~r.cache.ticket.valid
                    /\ r.ipc.accepted => m.ipc.accepted
                    /\ m.history.crossed => r.history.crossed
                    /\ /\ NoneYet(L, mpv, m, load)
                       /\ Aligned(mpv, m, load)
                       => Aligned(mpv, r, load)
  OBVIOUS
<1> DEFINE i(to) == [m.ipc EXCEPT !.seek = to]
           n(to) == [m EXCEPT !.ipc.seek = to]
<1>0. m \in Readings(L) OBVIOUS
<1>1. r = IF m.ipc.loading THEN n(load) ELSE Sought(n(NoLoad), load, failed)
  BY DEF Seeking, Adapter, Reading
<1>2. m.ipc \in Ipcs /\ NoLoad \in Loads /\ Len(m.lines) \in Nat
  BY <1>0, ConstantsAssumption DEF Readings, Loads, NoLoad
<1>3. ASSUME NEW to \in Loads
      PROVE  /\ n(to) \in Readings(L) /\ n(to).ipc.seek = to
             /\ n(to).ipc.accepted = m.ipc.accepted /\ n(to).ipc.loading = m.ipc.loading
             /\ n(to).cache = m.cache /\ n(to).lines = m.lines /\ n(to).history = m.history
  <2>1. /\ i(to) \in Ipcs /\ i(to).seek = to /\ i(to).accepted = m.ipc.accepted
        /\ i(to).loading = m.ipc.loading
    BY <1>2 DEF Ipcs
  <2>2. n(to) = [m EXCEPT !.ipc = i(to)] BY <1>0 DEF Readings
  <2> HIDE DEF i, n
  <2> QED BY <1>0, <2>1, <2>2 DEF Readings
<1> HIDE DEF n
<1>4. CASE m.ipc.loading
  <2>1. r = n(load) BY <1>1, <1>4
  <2>2. Aligned(mpv, m, load) => Aligned(mpv, r, load) BY <1>3, <2>1 DEF Aligned, In
  <2> QED BY <1>2, <1>3, <2>1, <2>2
<1>5. CASE ~m.ipc.loading
  <2> DEFINE x == n(NoLoad)
  <2>1. r = Sought(x, load, failed) BY <1>1, <1>5
  <2>2. /\ x \in Readings(L) /\ x.ipc.seek = NoLoad /\ x.ipc.accepted = m.ipc.accepted
        /\ x.ipc.loading = m.ipc.loading /\ x.cache = m.cache /\ x.lines = m.lines
        /\ x.history = m.history
    BY <1>2, <1>3
  <2> HIDE DEF x
  <2>3. r \in Readings(L) /\ Later(x, r) /\ Len(r.lines) <= Len(x.lines)
    BY <2>1, <2>2, SoughtBy
  <2>4. ASSUME NoneYet(L, mpv, m, load), Aligned(mpv, m, load)
        PROVE  Aligned(mpv, r, load)
    <3>1. Aligned(mpv, x, load) BY <2>2, <2>4 DEF Aligned, In
    <3>2. x.history.crossed \/ ~mpv.alive \/ In(mpv.file, load) \/ mpv.stop
      BY <1>5, <2>2, <3>1 DEF Aligned
    <3>3. NoneYet(L, mpv, x, load) BY <2>2, <2>4 DEF NoneYet
    <3> QED BY <2>1, <2>2, <3>1, <3>2, <3>3, SoughtBy
  <2> QED BY <2>2, <2>3, <2>4 DEF Later
<1> QED BY <1>4, <1>5

\* A load that was sent is what seeks are for from then on; a failed one is given up.
LEMMA LoadingBy ==
  ASSUME NEW L, L \subseteq Lines, Adapter \in Readings(L), NEW failed \in BOOLEAN,
         NEW load \in Loads, mpv \in Players, NEW p
  PROVE  LET r == Loading(load, failed)
         IN  /\ r \in Readings(L) /\ Len(r.lines) <= Len(Adapter.lines)
             /\ r.cache.input = load /\ ~r.cache.ticket.valid
             /\ r.error <=> failed \/ ~mpv.alive
             /\ r.error => ~r.ipc.accepted /\ r.ipc.seek = NoLoad
             /\ Adapter.history.crossed => r.history.crossed
             /\ Aligned(NoMpv, Adapter, load) => Aligned(NoMpv, r, load)
             /\ /\ Aligned(NoMpv, Adapter, load) /\ ~r.error /\ load # NoLoad
                /\ Begun(L, p, load) /\ p.next = load
                => Aligned(p, r, load)
<1> SUFFICES ASSUME NEW r, r = Loading(load, failed), NEW m, m = Adapter
             PROVE  /\ r \in Readings(L) /\ Len(r.lines) <= Len(m.lines)
                    /\ r.cache.input = load /\ ~r.cache.ticket.valid
                    /\ r.error <=> failed \/ ~mpv.alive
                    /\ r.error => ~r.ipc.accepted /\ r.ipc.seek = NoLoad
                    /\ m.history.crossed => r.history.crossed
                    /\ Aligned(NoMpv, m, load) => Aligned(NoMpv, r, load)
                    /\ /\ Aligned(NoMpv, m, load) /\ ~r.error /\ load # NoLoad
                       /\ Begun(L, p, load) /\ p.next = load
                       => Aligned(p, r, load)
  OBVIOUS
<1>0. m \in Readings(L) /\ mpv.alive \in BOOLEAN BY DEF Players
<1>1. m.ipc \in Ipcs /\ m.cache \in Caches /\ NoLoad \in Loads /\ ~NoMpv.alive
  BY <1>0, ConstantsAssumption DEF Readings, Loads, NoLoad, NoMpv, IdleMpv
<1> DEFINE i == [m.ipc EXCEPT !.seek = NoLoad, !.loading = TRUE, !.accepted = TRUE]
           c == [Invalidated(m.cache) EXCEPT !.input = load]
           b == [m EXCEPT !.ipc = i, !.cache = c]
           s == Requested(b, failed)
<1>2. r = IF s.error
          THEN [s EXCEPT !.ipc.accepted = FALSE, !.ipc.loading = FALSE, !.ipc.seek = NoLoad]
          ELSE s
  <2> DEFINE begun == [m EXCEPT !.ipc.seek = NoLoad, !.ipc.loading = TRUE, !.ipc.accepted = TRUE,
                                !.cache = [Invalidated(@) EXCEPT !.input = load]]
             t == Requested(begun, failed)
  <2>1. r = IF t.error
            THEN [t EXCEPT !.ipc.accepted = FALSE, !.ipc.loading = FALSE, !.ipc.seek = NoLoad]
            ELSE t
    BY DEF Loading
  <2>2. begun = b BY <1>0, <1>1 DEF Readings, Ipcs
  <2> HIDE DEF begun, b
  <2> QED BY <2>1, <2>2
<1>3. i \in Ipcs /\ i.seek = NoLoad /\ i.loading /\ i.accepted BY <1>1 DEF Ipcs
<1>4. c \in Caches /\ c.input = load /\ ~c.ticket.valid
  BY <1>1, InvalidatedCache DEF Caches
<1> HIDE DEF i, c
<1>5. /\ b \in Readings(L) /\ b.ipc = i /\ b.cache = c /\ b.history = m.history
      /\ b.lines = m.lines
  BY <1>0, <1>3, <1>4 DEF Readings
<1> HIDE DEF b
<1>6. \A q : Kept(L, b, s, q, load) BY <1>0, <1>5, RequestedBy
<1>7. s.error <=> failed \/ ~mpv.alive BY <1>0, <1>5, RequestedBy
<1> HIDE DEF s
<1>8. s \in Readings(L) /\ Later(b, s) /\ Len(s.lines) <= Len(m.lines)
  BY <1>5, <1>6 DEF Kept
<1>9. /\ s.cache.input = load /\ ~s.cache.ticket.valid /\ s.ipc.seek = NoLoad
      /\ m.history.crossed => s.history.crossed
  BY <1>3, <1>4, <1>5, <1>8 DEF Later
<1>10. \A q : /\ Aligned(NoMpv, m, load) /\ load # NoLoad /\ Begun(L, q, load) /\ q.next = load
              => Aligned(q, s, load)
  <2> SUFFICES ASSUME NEW q, Aligned(NoMpv, m, load), load # NoLoad, Begun(L, q, load),
                      q.next = load
               PROVE  Aligned(q, s, load)
    OBVIOUS
  <2>1. Aligned(q, b, load) BY <1>3, <1>4, <1>5 DEF Aligned, In
  <2>2. NoneYet(L, q, b, load) BY DEF NoneYet
  <2> QED BY <1>6, <2>1, <2>2 DEF Kept
<1>11. Aligned(NoMpv, m, load) => Aligned(NoMpv, s, load)
  <2> SUFFICES ASSUME Aligned(NoMpv, m, load)
               PROVE  s.history.sought = s.history.reached \/ s.history.crossed
    BY <1>1 DEF Aligned
  <2> DEFINE q == [alive |-> FALSE, file |-> load]
  <2>1. NoneYet(L, q, b, load) BY DEF NoneYet
  <2>2. Aligned(q, b, load) BY <1>5 DEF Aligned
  <2> HIDE DEF q
  <2>3. Aligned(q, s, load) BY <1>6, <2>1, <2>2 DEF Kept
  <2> QED BY <2>3 DEF Aligned
<1>12. CASE ~s.error BY <1>2, <1>7, <1>8, <1>9, <1>10, <1>11, <1>12
<1>13. CASE s.error
  <2> DEFINE e == [s.ipc EXCEPT !.accepted = FALSE, !.loading = FALSE, !.seek = NoLoad]
  <2>1. s.ipc \in Ipcs BY <1>8 DEF Readings
  <2>2. e \in Ipcs /\ ~e.accepted /\ e.seek = NoLoad BY <1>1, <2>1 DEF Ipcs
  <2>3. r = [s EXCEPT !.ipc = e] BY <1>2, <1>8, <1>13, <2>1 DEF Readings, Ipcs
  <2> HIDE DEF e
  <2>4. /\ r \in Readings(L) /\ r.ipc = e /\ r.cache = s.cache /\ r.history = s.history
        /\ r.lines = s.lines /\ r.error = s.error
    BY <1>8, <2>2, <2>3 DEF Readings
  <2>5. Aligned(NoMpv, s, load) => Aligned(NoMpv, r, load) BY <1>1, <2>4 DEF Aligned
  <2> QED BY <1>7, <1>8, <1>9, <1>11, <1>13, <2>2, <2>4, <2>5
<1> QED BY <1>12, <1>13

\* A stop gives the retained seek up, and what is waited for comes after it.
LEMMA StoppingBy ==
  ASSUME NEW L, L \subseteq Lines, Adapter \in Readings(L), NEW failed \in BOOLEAN,
         mpv \in Players, NEW p, NEW A
  PROVE  LET r == Stopping(failed)
         IN  /\ r \in Readings(L) /\ Len(r.lines) <= Len(Adapter.lines)
             /\ r.cache.input = Adapter.cache.input /\ ~r.cache.ticket.valid
             /\ r.error <=> failed \/ ~mpv.alive
             /\ r.ipc.accepted => Adapter.ipc.accepted
             /\ Adapter.history.crossed => r.history.crossed
             /\ /\ NoneYet(L, p, Adapter, A)
                /\ Aligned(NoMpv, Adapter, A)
                /\ \/ Adapter.history.crossed
                   \/ ~p.alive
                   \/ /\ Adapter.ipc.accepted => A = Adapter.cache.input /\ A # NoLoad
                      /\ In(p.file, A) \/ (Adapter.ipc.accepted /\ p.stop)
                => Aligned(p, r, A)
<1> SUFFICES ASSUME NEW r, r = Stopping(failed), NEW m, m = Adapter
             PROVE  /\ r \in Readings(L) /\ Len(r.lines) <= Len(m.lines)
                    /\ r.cache.input = m.cache.input /\ ~r.cache.ticket.valid
                    /\ r.error <=> failed \/ ~mpv.alive
                    /\ r.ipc.accepted => m.ipc.accepted
                    /\ m.history.crossed => r.history.crossed
                    /\ /\ NoneYet(L, p, m, A)
                       /\ Aligned(NoMpv, m, A)
                       /\ \/ m.history.crossed
                          \/ ~p.alive
                          \/ /\ m.ipc.accepted => A = m.cache.input /\ A # NoLoad
                             /\ In(p.file, A) \/ (m.ipc.accepted /\ p.stop)
                       => Aligned(p, r, A)
  OBVIOUS
<1>0. m \in Readings(L) /\ mpv.alive \in BOOLEAN BY DEF Players
<1>1. m.ipc \in Ipcs /\ m.cache \in Caches /\ NoLoad \in Loads
  BY <1>0, ConstantsAssumption DEF Readings, Loads, NoLoad
<1> DEFINE i == [m.ipc EXCEPT !.seek = NoLoad, !.loading = FALSE]
           c == Invalidated(m.cache)
           b == [m EXCEPT !.ipc = i, !.cache = c]
<1>2. r = Requested(b, failed)
  <2> DEFINE begun == [m EXCEPT !.ipc.seek = NoLoad, !.ipc.loading = FALSE,
                                !.cache = Invalidated(@)]
  <2>1. r = Requested(begun, failed) BY DEF Stopping
  <2>2. begun = b BY <1>0, <1>1 DEF Readings, Ipcs
  <2> HIDE DEF begun, b
  <2> QED BY <2>1, <2>2
<1>3. i \in Ipcs /\ i.seek = NoLoad /\ i.accepted = m.ipc.accepted BY <1>1 DEF Ipcs
<1>4. c \in Caches /\ c.input = m.cache.input /\ ~c.ticket.valid
  BY <1>1, InvalidatedCache
<1> HIDE DEF i, c
<1>5. /\ b \in Readings(L) /\ b.ipc = i /\ b.cache = c /\ b.history = m.history
      /\ b.lines = m.lines
  BY <1>0, <1>3, <1>4 DEF Readings
<1> HIDE DEF b
<1>6. Kept(L, b, r, p, A) /\ (r.error <=> failed \/ ~mpv.alive)
  BY <1>0, <1>2, <1>5, RequestedBy
<1>7. r \in Readings(L) /\ Later(b, r) /\ Len(r.lines) <= Len(m.lines)
  BY <1>5, <1>6 DEF Kept
<1>8. /\ r.cache.input = m.cache.input /\ ~r.cache.ticket.valid
      /\ r.ipc.accepted => m.ipc.accepted
      /\ m.history.crossed => r.history.crossed
  BY <1>3, <1>4, <1>5, <1>7 DEF Later
<1>9. ASSUME NoneYet(L, p, m, A),
             Aligned(NoMpv, m, A),
             \/ m.history.crossed
             \/ ~p.alive
             \/ /\ m.ipc.accepted => A = m.cache.input /\ A # NoLoad
                /\ In(p.file, A) \/ (m.ipc.accepted /\ p.stop)
      PROVE  Aligned(p, r, A)
  <2>1. b.history.sought = b.history.reached \/ b.history.crossed
    BY <1>5, <1>9 DEF Aligned
  <2>2. In(b.ipc.seek, A) /\ b.ipc.accepted = m.ipc.accepted /\ b.cache.input = m.cache.input
    BY <1>3, <1>4, <1>5 DEF In
  <2>3. Aligned(p, b, A) BY <1>5, <1>9, <2>1, <2>2 DEF Aligned
  <2>4. NoneYet(L, p, b, A) BY <1>5, <1>9, <2>2 DEF NoneYet
  <2> QED BY <1>6, <2>3, <2>4 DEF Kept
<1> QED BY <1>6, <1>7, <1>8, <1>9

-----------------------------------------------------------------------------
(* Requests, their numbers and the reducer that waits for them *)

\* A reducer at step may wait for a request of this kind.
Fits(kind, step) ==
  \/ kind = "play" /\ step = "playing"
  \/ kind = "stop" /\ step = "commanding"
  \/ kind = "seek" /\ step = "seeking"
  \/ kind = "shutdown" /\ step = "closing"

\* A request waits in the inbox q, and whatever waits is the reducer's only one.
Asked(q) == \E i \in DOMAIN q : q[i] # Refresh
AsksFor(q, step, load) ==
  /\ \A i \in DOMAIN q : q[i] # Refresh => Fits(q[i].kind, step) /\ q[i].load = load
  /\ \A i, j \in DOMAIN q : q[i] # Refresh /\ q[j] # Refresh => i = j

LEMMA NotAsked ==
  ASSUME NEW q, ~Asked(q), NEW step, NEW load
  PROVE  AsksFor(q, step, load)
BY DEF Asked, AsksFor

LEMMA AskAppended ==
  ASSUME NEW q \in Inbox, NEW r \in {Refresh} \cup Requests, NEW step, NEW load,
         AsksFor(q, step, load), r # Refresh => ~Asked(q) /\ Fits(r.kind, step) /\ r.load = load
  PROVE  /\ AsksFor(Append(q, r), step, load)
         /\ Asked(Append(q, r)) <=> Asked(q) \/ r # Refresh
<1>1. /\ DOMAIN q = 1..Len(q) /\ Len(q) \in Nat
      /\ DOMAIN Append(q, r) = 1..(Len(q) + 1)
      /\ \A i \in 1..Len(q) : Append(q, r)[i] = q[i]
      /\ Append(q, r)[Len(q) + 1] = r
  BY DEF Inbox
<1>2. Asked(Append(q, r)) <=> Asked(q) \/ r # Refresh BY <1>1 DEF Asked
<1>3. ASSUME NEW i \in DOMAIN Append(q, r), Append(q, r)[i] # Refresh
      PROVE  /\ (i = Len(q) + 1 /\ r # Refresh) \/ (i \in DOMAIN q /\ q[i] # Refresh)
             /\ Fits(Append(q, r)[i].kind, step) /\ Append(q, r)[i].load = load
  BY <1>1, <1>3 DEF AsksFor
<1>4. ASSUME NEW i \in DOMAIN Append(q, r), NEW j \in DOMAIN Append(q, r),
             Append(q, r)[i] # Refresh, Append(q, r)[j] # Refresh
      PROVE  i = j
  BY <1>3, <1>4 DEF AsksFor, Asked
<1> QED BY <1>2, <1>3, <1>4 DEF AsksFor

LEMMA AskTaken ==
  ASSUME NEW q \in Inbox, q # <<>>, NEW step, NEW load, AsksFor(q, step, load)
  PROVE  /\ AsksFor(Tail(q), step, load)
         /\ Asked(Tail(q)) <=> Asked(q) /\ Head(q) = Refresh
         /\ Head(q) # Refresh => Asked(q) /\ Fits(Head(q).kind, step) /\ Head(q).load = load
<1>1. /\ DOMAIN q = 1..Len(q) /\ Len(q) \in Nat \ {0} /\ Head(q) = q[1]
      /\ DOMAIN Tail(q) = 1..(Len(q) - 1)
      /\ \A i \in 1..(Len(q) - 1) : Tail(q)[i] = q[i + 1]
  BY DEF Inbox
<1>2. 1 \in DOMAIN q BY <1>1
<1>3. \A i \in DOMAIN Tail(q) : i + 1 \in DOMAIN q /\ Tail(q)[i] = q[i + 1] /\ i + 1 # 1
  BY <1>1
<1>4. \A i \in DOMAIN q : i # 1 => i - 1 \in DOMAIN Tail(q) /\ Tail(q)[i - 1] = q[i]
  BY <1>1
<1>5. Head(q) # Refresh => Asked(q) /\ Fits(Head(q).kind, step) /\ Head(q).load = load
  BY <1>1, <1>2 DEF Asked, AsksFor
<1>6. Asked(Tail(q)) => Asked(q) /\ Head(q) = Refresh BY <1>1, <1>2, <1>3 DEF Asked, AsksFor
<1>7. Asked(q) /\ Head(q) = Refresh => Asked(Tail(q)) BY <1>1, <1>4 DEF Asked
<1>8. ASSUME NEW i \in DOMAIN Tail(q), Tail(q)[i] # Refresh
      PROVE  Fits(Tail(q)[i].kind, step) /\ Tail(q)[i].load = load
  BY <1>3, <1>8 DEF AsksFor
<1>9. ASSUME NEW i \in DOMAIN Tail(q), NEW j \in DOMAIN Tail(q),
             Tail(q)[i] # Refresh, Tail(q)[j] # Refresh
      PROVE  i = j
  <2>1. i + 1 = j + 1 BY <1>3, <1>9 DEF AsksFor
  <2> QED BY <1>1, <2>1
<1> QED BY <1>5, <1>6, <1>7, <1>8, <1>9 DEF AsksFor

\* A wake-up is no request.
LEMMA AskWoken ==
  ASSUME NEW q \in Inbox, NEW step, NEW load, AsksFor(q, step, load),
         NEW r, r = q \/ r = Append(q, Refresh)
  PROVE  r \in Inbox /\ AsksFor(r, step, load) /\ (Asked(r) <=> Asked(q))
<1>1. Refresh \in {Refresh} \cup Requests /\ Append(q, Refresh) \in Inbox BY DEF Inbox
<1> QED BY <1>1, AskAppended

\* A request is answered before the next is made.  It has a higher number than the one
\* the worker took up last, a seek the same; and once the reducer ends, no load is the
\* latest.
AskInv ==
  /\ AsksFor(jobs, ui.step, epoch)
  /\ reply \in {"none", "ok", "error"} /\ (Asked(jobs) => reply = "none")
  /\ Asked(jobs) /\ ui.step # "seeking" => worker.processed < epoch
  /\ worker.processed <= epoch
  /\ ui.step = "closing" => ui.latest = NoLoad /\ (Runs(worker) => worker.processed < epoch)
  /\ epoch <= MaxRequests + 1
  /\ epoch > MaxRequests => ui.step = "closing" \/ worker.step = "none"
  /\ worker.step = "none" => ui.step = "parked" /\ ui.latest = NoLoad
  /\ ui.current <= epoch /\ ui.latest <= epoch
  /\ ui.step = "playing" => ui.latest = epoch
  /\ ui.step = "seeking" => ui.current # NoLoad
  /\ ui.polled <= MaxPerTick

Waiting == {"playing", "commanding", "seeking", "closing"}

LEMMA NothingAsked ==
  ASSUME AskInv, ui.step \notin Waiting \/ reply # "none"
  PROVE  ~Asked(jobs)
<1>1. CASE ui.step \notin Waiting BY <1>1 DEF AskInv, Asked, AsksFor, Fits, Waiting
<1>2. CASE reply # "none" BY <1>2 DEF AskInv
<1> QED BY <1>1, <1>2

\* Nothing of this moves while the worker only wakes itself or takes a wake-up.
LEMMA AsksGoOn ==
  ASSUME AskInv, UNCHANGED <<ui, epoch, reply>>, worker'.processed = worker.processed,
         Runs(worker') => Runs(worker), worker'.step = "none" => worker.step = "none",
         worker.step = "none" => worker'.step = "none",
         AsksFor(jobs', ui.step, epoch), Asked(jobs') => Asked(jobs)
  PROVE  AskInv'
BY DEF AskInv

LEMMA WokenAsks ==
  ASSUME InboxInv, AskInv, NEW ring, WakeSupervisor(ring) \/ UNCHANGED jobs
  PROVE  AsksFor(jobs', ui.step, epoch) /\ (Asked(jobs') => Asked(jobs))
<1>1. jobs' = jobs \/ jobs' = Append(jobs, Refresh) BY DEF WakeSupervisor
<1>2. jobs \in Inbox /\ AsksFor(jobs, ui.step, epoch) BY DEF InboxInv, AskInv
<1> QED BY <1>1, <1>2, AskWoken

LEMMA MpvAsks ==
  ASSUME InboxInv, AskInv, Mpv \/ Notify
  PROVE  AskInv'
<1> USE DEF supervisor, reducer, channels
<1>1. UNCHANGED <<ui, epoch, reply, worker>> /\ (UNCHANGED jobs \/ WakeSupervisor(TRUE))
  BY DEF Mpv, MpvStart, MpvAbandon, MpvAdvance, MpvRedirect, MpvEnd, MpvExit, Emit, Notify
<1>2. AsksFor(jobs', ui.step, epoch) /\ (Asked(jobs') => Asked(jobs))
  <2>1. CASE UNCHANGED jobs BY <2>1 DEF AskInv
  <2>2. CASE WakeSupervisor(TRUE)
    <3> DEFINE ring == TRUE
    <3>1. WakeSupervisor(ring) BY <2>2
    <3> HIDE DEF ring
    <3> QED BY <3>1, WokenAsks
  <2> QED BY <1>1, <2>1, <2>2
<1> QED BY <1>1, <1>2, AsksGoOn

\* What taking up a request leaves.
LEMMA TookAsks ==
  ASSUME InboxInv, AskInv, NEW kind, Take(kind), kind # "refresh"
  PROVE  /\ Fits(kind, ui.step) /\ Asked(jobs) /\ reply = "none"
         /\ Head(jobs).load = epoch /\ Tail(jobs) \in Inbox /\ ~Asked(Tail(jobs))
         /\ worker.step = "recv"
<1>1. jobs \in Inbox /\ jobs # <<>> /\ AsksFor(jobs, ui.step, epoch) /\ Head(jobs).kind = kind
  BY DEF InboxInv, AskInv, Take
<1>2. Head(jobs) # Refresh BY <1>1 DEF Refresh
<1>3. Tail(jobs) \in Inbox BY <1>1 DEF Inbox
<1>4. /\ Asked(jobs) /\ Fits(kind, ui.step) /\ Head(jobs).load = epoch /\ ~Asked(Tail(jobs))
  BY <1>1, <1>2, AskTaken
<1> QED BY <1>3, <1>4 DEF AskInv, Take

LEMMA ExecutedAsks ==
  ASSUME InboxInv, AskInv, NEW kind \in {"play", "stop", "seek"}, Take(kind),
         NEW m, TookAndRang(m), Answer(m), Done(Head(jobs).load), UNCHANGED <<ui, epoch>>
  PROVE  AskInv' /\ ~Asked(jobs') /\ worker'.step = "poll" /\ worker'.sent = 0
<1>1. /\ Fits(kind, ui.step) /\ Asked(jobs) /\ Head(jobs).load = epoch
      /\ Tail(jobs) \in Inbox /\ ~Asked(Tail(jobs)) /\ worker.step = "recv"
  BY TookAsks
<1>2. jobs' = Tail(jobs) \/ jobs' = Append(Tail(jobs), Refresh) BY DEF TookAndRang
<1>3. AsksFor(Tail(jobs), ui.step, epoch) BY <1>1, NotAsked
<1>4. ~Asked(jobs') /\ AsksFor(jobs', ui.step, epoch) BY <1>1, <1>2, <1>3, AskWoken
<1>5. worker \in Workers /\ epoch \in Nat BY DEF InboxInv
<1>6. /\ worker'.processed = epoch /\ worker'.step = "poll" /\ worker'.sent = 0
  BY <1>1, <1>5 DEF Done, Workers
<1>7. ui.step # "closing" BY <1>1 DEF Fits
<1>8. reply' \in {"ok", "error"} BY DEF Answer
<1> QED BY <1>1, <1>4, <1>5, <1>6, <1>7, <1>8 DEF AskInv

LEMMA SuperviseAsks ==
  ASSUME InboxInv, ToldInv, AskInv, Supervise
  PROVE  AskInv'
<1> USE DEF reducer, supervisor, channels, backend
<1>0. worker \in Workers /\ epoch \in Nat /\ jobs \in Inbox /\ AsksFor(jobs, ui.step, epoch)
  BY DEF InboxInv, AskInv
<1>1. CASE TakeRefresh
  <2>1. /\ worker.step = "recv" /\ jobs # <<>> /\ jobs' = Tail(jobs)
        /\ UNCHANGED <<ui, epoch, reply>> /\ worker' = [worker EXCEPT !.step = "clear"]
    BY <1>1 DEF TakeRefresh, Take
  <2>2. worker'.step = "clear" /\ worker'.processed = worker.processed BY <1>0, <2>1 DEF Workers
  <2>3. AsksFor(jobs', ui.step, epoch) /\ (Asked(jobs') => Asked(jobs))
    BY <1>0, <2>1, AskTaken
  <2> QED BY <2>1, <2>2, <2>3, AsksGoOn DEF Runs
<1>2. CASE ExecutePlay
  <2>1. Take("play") /\ UNCHANGED <<ui, epoch>> BY <1>2 DEF ExecutePlay
  <2>2. PICK m : TookAndRang(m) /\ Answer(m) /\ Done(Head(jobs).load) BY <1>2 DEF ExecutePlay
  <2> QED BY <2>1, <2>2, ExecutedAsks
<1>3. CASE ExecuteStop
  <2>1. Take("stop") /\ UNCHANGED <<ui, epoch>> BY <1>3 DEF ExecuteStop
  <2>2. PICK m : TookAndRang(m) /\ Answer(m) /\ Done(Head(jobs).load) BY <1>3 DEF ExecuteStop
  <2> QED BY <2>1, <2>2, ExecutedAsks
<1>4. CASE ExecuteSeek
  <2>1. Take("seek") /\ UNCHANGED <<ui, epoch>> BY <1>4 DEF ExecuteSeek
  <2>2. PICK m : TookAndRang(m) /\ Answer(m) /\ Done(Head(jobs).load) BY <1>4 DEF ExecuteSeek
  <2> QED BY <2>1, <2>2, ExecutedAsks
<1>5. CASE ExecuteShutdown
  <2>1. /\ worker' = [worker EXCEPT !.step = "gone"] /\ jobs' = <<>> /\ reply' = "ok"
        /\ UNCHANGED <<ui, epoch>> /\ Take("shutdown")
    BY <1>5 DEF ExecuteShutdown
  <2>2. worker'.step = "gone" /\ worker'.processed = worker.processed BY <1>0, <2>1 DEF Workers
  <2>3. ~Asked(jobs') BY <2>1 DEF Asked
  <2>4. worker.step # "none" BY <2>1 DEF Take
  <2> QED BY <2>1, <2>2, <2>3, <2>4, NotAsked DEF AskInv, Runs
<1>6. CASE ClearPending \/ WakeAfterEvent \/ Rearm \/ PollEvent \/ PublishStatus
  <2>1. UNCHANGED <<ui, epoch, reply>>
    BY <1>6 DEF ClearPending, WakeAfterEvent, Rearm, PollEvent, PublishStatus
  <2>2. \E ring : WakeSupervisor(ring) \/ UNCHANGED jobs
    BY <1>6 DEF ClearPending, WakeAfterEvent, Rearm, PollEvent, PublishStatus
  <2>3. AsksFor(jobs', ui.step, epoch) /\ (Asked(jobs') => Asked(jobs)) BY <2>2, WokenAsks
  <2>4. /\ worker'.processed = worker.processed /\ Runs(worker) /\ worker'.step # "none"
    <3>1. CASE ClearPending BY <1>0, <3>1 DEF ClearPending, Workers, Runs
    <3>2. CASE WakeAfterEvent BY <1>0, <3>2 DEF WakeAfterEvent, Workers, Runs
    <3>3. CASE Rearm BY <1>0, <3>3 DEF Rearm, Workers, Runs
    <3>4. CASE PollEvent
      <4>1. \/ worker' = [worker EXCEPT !.step = "status", !.sent = 0]
            \/ worker' = [worker EXCEPT !.step = "wake"]
        BY <3>4 DEF PollEvent
      <4> QED BY <1>0, <3>4, <4>1 DEF PollEvent, Workers, Runs
    <3>5. CASE PublishStatus BY <1>0, <3>5 DEF PublishStatus, Workers, Runs
    <3> QED BY <1>6, <3>1, <3>2, <3>3, <3>4, <3>5
  <2> QED BY <2>1, <2>3, <2>4, AsksGoOn DEF Runs
<1> QED BY <1>1, <1>2, <1>3, <1>4, <1>5, <1>6 DEF Supervise

\* The reducer goes on and asks for nothing.
LEMMA IdleAsks ==
  ASSUME AskInv, UiInv, ~Asked(jobs), UNCHANGED <<jobs, epoch, worker>>,
         ui'.step \notin Waiting, ui.step # "closing",
         worker.step = "none" => ui'.step = "parked" /\ ui'.latest = NoLoad,
         ui'.current <= epoch, ui'.latest <= epoch, ui'.polled <= MaxPerTick,
         reply' \in {"none", "ok", "error"}
  PROVE  AskInv'
<1>1. AsksFor(jobs', ui'.step, epoch') /\ ~Asked(jobs') BY NotAsked
<1> QED BY <1>1 DEF AskInv, Waiting

\* What a request to play, stop, seek or end puts into an inbox without one.
LEMMA SentAsks ==
  ASSUME InboxInv, ~Asked(jobs), NEW kind, NEW load \in Nat, Send(kind, load),
         NEW step, Fits(kind, step)
  PROVE  AsksFor(jobs', step, load) /\ Asked(jobs') /\ reply' = "none"
<1> DEFINE r == [kind |-> kind, load |-> load]
<1>1. r \in Requests /\ r.kind = kind /\ r.load = load BY DEF Requests, Fits
<1>2. jobs' = Append(jobs, r) /\ reply' = "none" BY DEF Send
<1> HIDE DEF r
<1>3. r # Refresh BY <1>1, RequestIsNoRefresh
<1>4. jobs \in Inbox /\ AsksFor(jobs, step, load) BY NotAsked DEF InboxInv
<1> QED BY <1>1, <1>2, <1>3, <1>4, AskAppended

LEMMA PlayAsks ==
  ASSUME InboxInv, AskInv, NEW u \in Reducers, RequestPlay(u), ~Asked(jobs),
         ui.step # "closing", worker.step # "none", worker' = worker,
         u.current <= epoch, u.polled <= MaxPerTick
  PROVE  AskInv'
<1>1. epoch \in Nat /\ worker \in Workers BY DEF InboxInv
<1> DEFINE load == epoch + 1
<1>2. /\ load \in Nat /\ Send("play", load) /\ epoch' = load /\ epoch < MaxRequests
      /\ ui' = [u EXCEPT !.step = "playing", !.latest = load]
  BY <1>1 DEF RequestPlay
<1>3. load <= MaxRequests /\ epoch < load BY <1>1, <1>2, ConstantsAssumption
<1> HIDE DEF load
<1>4. Fits("play", "playing") BY DEF Fits
<1>5. AsksFor(jobs', "playing", load) /\ Asked(jobs') /\ reply' = "none"
  BY <1>2, <1>4, SentAsks
<1>6. /\ ui'.step = "playing" /\ ui'.latest = load /\ ui'.current = u.current
      /\ ui'.polled = u.polled /\ u.current \in Nat
  BY <1>2 DEF Reducers
<1>7. worker.processed < load /\ u.current <= load /\ load <= MaxRequests + 1
      /\ ~(load > MaxRequests) /\ worker.processed \in Nat
  <2>1. worker.processed <= epoch /\ worker.processed \in Nat BY <1>1 DEF AskInv, Workers
  <2> QED BY <1>1, <1>2, <1>3, <1>6, <2>1, ConstantsAssumption
<1>8. worker.processed <= load /\ load <= load BY <1>2, <1>7
<1> QED BY <1>2, <1>5, <1>6, <1>7, <1>8 DEF AskInv

LEMMA ClosingAsks ==
  ASSUME InboxInv, AskInv, NEW u \in Reducers, Closing(u), ~Asked(jobs),
         ui.step # "closing", worker.step # "none", worker' = worker,
         u.current <= epoch, u.polled <= MaxPerTick
  PROVE  AskInv'
<1>1. epoch \in Nat /\ worker \in Workers BY DEF InboxInv
<1> DEFINE load == epoch + 1
<1>2. /\ load \in Nat /\ Send("shutdown", load) /\ epoch' = load
      /\ ui' = [u EXCEPT !.step = "closing", !.latest = NoLoad]
  BY <1>1 DEF Closing
<1>3. ~(epoch > MaxRequests) BY DEF AskInv
<1>4. load <= MaxRequests + 1 /\ epoch < load BY <1>1, <1>2, <1>3, ConstantsAssumption
<1> HIDE DEF load
<1>5. Fits("shutdown", "closing") BY DEF Fits
<1>6. AsksFor(jobs', "closing", load) /\ Asked(jobs') /\ reply' = "none"
  BY <1>2, <1>5, SentAsks
<1>7. /\ ui'.step = "closing" /\ ui'.latest = NoLoad /\ ui'.current = u.current
      /\ ui'.polled = u.polled /\ u.current \in Nat
  BY <1>2 DEF Reducers
<1>8. worker.processed < load /\ u.current <= load /\ NoLoad <= load /\ worker.processed <= load
  <2>1. worker.processed <= epoch /\ worker.processed \in Nat BY <1>1 DEF AskInv, Workers
  <2> QED BY <1>1, <1>2, <1>4, <1>7, <2>1 DEF NoLoad
<1> QED BY <1>2, <1>4, <1>6, <1>7, <1>8 DEF AskInv

LEMMA SilentTyped ==
  ASSUME UiInv, AskInv, epoch \in Nat
  PROVE  /\ Silent \in Reducers /\ Silent.step = ui.step /\ Silent.current = NoLoad
         /\ Silent.latest = ui.latest /\ Silent.polled = 0 /\ Silent.current <= epoch
         /\ Silent.polled <= MaxPerTick
<1>1. Silent \in Reducers /\ Silent.step = ui.step BY SilentReducer
<1>2. /\ Silent.current = NoLoad /\ Silent.polled = 0 /\ Silent.latest = ui.latest
  BY DEF Silent, UiInv, Reducers
<1>3. MaxPerTick \in Nat BY ConstantsAssumption
<1> QED BY <1>1, <1>2, <1>3 DEF NoLoad

LEMMA DrainAsks ==
  ASSUME InboxInv, UiInv, AskInv, DrainEvent
  PROVE  AskInv'
<1>0. epoch \in Nat /\ ui \in Reducers /\ MaxPerTick \in Nat
  BY ConstantsAssumption DEF InboxInv, UiInv
<1>1. ui.step \in Drains /\ ui.polled < MaxPerTick /\ worker' = worker
  BY DEF DrainEvent, Draining
<1>2. /\ ui.step \notin Waiting /\ ui.step # "parked" /\ worker.step # "none"
      /\ ui.current <= epoch /\ ui.latest <= epoch
  BY <1>1 DEF Drains, Waiting, AskInv
<1>3. ~Asked(jobs) BY <1>2, NothingAsked
<1>4. CASE OnLoaded \/ OnStarted \/ OnReplacedStop
  <2> DEFINE polled == ui.polled + 1
  <2>1. polled \in Nat /\ polled <= MaxPerTick BY <1>0, <1>1 DEF Reducers
  <2>2. Consumed = [ui EXCEPT !.polled = polled] BY DEF Consumed
  <2> HIDE DEF polled
  <2>3. /\ Consumed \in Reducers /\ Consumed.step = ui.step /\ Consumed.polled = polled
        /\ Consumed.current = ui.current /\ Consumed.latest = ui.latest
    BY <1>0, <2>1, <2>2 DEF Reducers
  <2>4. \/ ui' = [Consumed EXCEPT !.phase = "loaded", !.ignore = FALSE]
        \/ ui' = Consumed
        \/ ui' = [Consumed EXCEPT !.phase = "playing"]
        \/ ui' = [Consumed EXCEPT !.ignore = FALSE]
    BY <1>4 DEF OnLoaded, OnStarted, OnReplacedStop
  <2>5. UNCHANGED <<jobs, reply, epoch>> BY <1>4 DEF OnLoaded, OnStarted, OnReplacedStop
  <2>6. /\ ui'.step = ui.step /\ ui'.polled = polled
        /\ ui'.current = ui.current /\ ui'.latest = ui.latest
    BY <2>3, <2>4 DEF Reducers
  <2>7. reply \in {"none", "ok", "error"} BY DEF AskInv
  <2> QED BY <1>1, <1>2, <1>3, <2>1, <2>5, <2>6, <2>7, IdleAsks DEF Waiting
<1>5. CASE ui' = [Silent EXCEPT !.step = "parked", !.cut = TRUE] /\ UNCHANGED <<jobs, reply, epoch>>
  <2>1. /\ ui'.step = "parked" /\ ui'.polled = 0 /\ ui'.current = NoLoad
        /\ ui'.latest = ui.latest
    BY <1>0, <1>5, SilentTyped DEF Reducers
  <2>2. reply \in {"none", "ok", "error"} BY DEF AskInv
  <2> QED BY <1>0, <1>1, <1>2, <1>3, <1>5, <2>1, <2>2, IdleAsks DEF Waiting, NoLoad
<1>6. CASE RequestPlay([Silent EXCEPT !.cut = TRUE])
  <2> DEFINE u == [Silent EXCEPT !.cut = TRUE]
  <2>1. u \in Reducers /\ u.current = Silent.current /\ u.polled = Silent.polled
    BY <1>0, SilentTyped DEF Reducers
  <2>2. u.current <= epoch /\ u.polled <= MaxPerTick BY <1>0, <2>1, SilentTyped
  <2>3. RequestPlay(u) BY <1>6
  <2> HIDE DEF u
  <2> QED BY <1>1, <1>2, <1>3, <2>1, <2>2, <2>3, PlayAsks DEF Waiting
<1>7. CASE Closing(Silent)
  BY <1>0, <1>1, <1>2, <1>3, <1>7, SilentTyped, ClosingAsks DEF Waiting
<1> QED BY <1>4, <1>5, <1>6, <1>7 DEF DrainEvent, OnEnded, OnExited

LEMMA ReduceAsks ==
  ASSUME InboxInv, UiInv, AskInv, Tick \/ Reduce \/ User
  PROVE  AskInv'
<1> USE DEF supervisor
<1>0. /\ epoch \in Nat /\ ui \in Reducers /\ MaxPerTick \in Nat /\ jobs \in Inbox
      /\ reply \in {"none", "ok", "error"}
      /\ ui.current <= epoch /\ ui.latest <= epoch /\ ui.polled <= MaxPerTick
  BY ConstantsAssumption DEF InboxInv, UiInv, AskInv
\* The reducer goes on with another step, and with nothing or as much polled.
<1>a. ASSUME UNCHANGED <<jobs, epoch, worker>>, reply' \in {"none", "ok", "error"}, ~Asked(jobs),
             ui.step # "closing", worker.step # "none",
             NEW step \in UiSteps \ Waiting,
             \/ ui' = [ui EXCEPT !.step = step]
             \/ ui' = [ui EXCEPT !.step = step, !.polled = 0]
             \/ ui' = [ui EXCEPT !.step = step, !.polled = 0, !.cut = FALSE]
      PROVE  AskInv'
  <2>1. /\ ui'.step = step /\ ui'.current = ui.current /\ ui'.latest = ui.latest
        /\ ui'.polled = ui.polled \/ ui'.polled = 0
    BY <1>0, <1>a DEF Reducers
  <2>2. ui'.polled <= MaxPerTick BY <1>0, <2>1
  <2> QED BY <1>0, <1>a, <2>1, <2>2, IdleAsks DEF UiInv
<1>1. CASE Tick
  <2>1. /\ ui.step = "parked" /\ UNCHANGED <<worker, jobs, epoch, reply>>
        /\ ui' = IF Up THEN [ui EXCEPT !.step = "tick"] ELSE ui
    BY <1>1 DEF Tick
  <2>2. ~Asked(jobs) BY <2>1, NothingAsked DEF Waiting
  <2>3. CASE Up
    <3>1. "tick" \in UiSteps \ Waiting BY DEF UiSteps, Drains, Waiting
    <3> QED BY <1>0, <1>a, <2>1, <2>2, <2>3, <3>1 DEF Up
  <2>4. CASE ~Up BY <2>1, <2>4 DEF AskInv
  <2> QED BY <2>3, <2>4
<1>2. CASE DrainEvent BY <1>2, DrainAsks
<1>3. CASE TooManyEvents
  <2>1. Closing(Silent) /\ ui.step \in Drains /\ UNCHANGED worker
    BY <1>3 DEF TooManyEvents, UiOnly
  <2>2. ui.step \notin Waiting /\ worker.step # "none" BY <2>1 DEF Drains, Waiting, AskInv
  <2>3. ~Asked(jobs) BY <2>2, NothingAsked
  <2> QED BY <1>0, <2>1, <2>2, <2>3, SilentTyped, ClosingAsks DEF Waiting
<1>4. CASE CaughtUp
  <2>1. /\ ui.step \in Drains /\ UNCHANGED <<worker, epoch>>
    BY <1>4 DEF CaughtUp, Draining, UiOnly
  <2>2. ui.step \notin Waiting /\ worker.step # "none" BY <2>1 DEF Drains, Waiting, AskInv
  <2>3. ~Asked(jobs) BY <2>2, NothingAsked
  <2>4. PICK next \in {"status", "seeking", "parked"} :
               /\ ui' = [ui EXCEPT !.step = next, !.polled = 0]
               /\ next = "seeking" => ui.current # NoLoad
               /\ IF next = "seeking" THEN Send("seek", epoch) ELSE UNCHANGED <<jobs, reply>>
    BY <1>4 DEF CaughtUp
  <2>5. CASE next # "seeking"
    <3>1. next \in UiSteps \ Waiting BY <2>5 DEF UiSteps, Waiting
    <3> QED BY <1>0, <1>a, <2>1, <2>2, <2>3, <2>4, <2>5, <3>1 DEF Waiting
  <2>6. CASE next = "seeking"
    <3>1. AsksFor(jobs', "seeking", epoch) /\ Asked(jobs') /\ reply' = "none"
      <4>1. Fits("seek", "seeking") BY DEF Fits
      <4> QED BY <1>0, <2>3, <2>4, <2>6, <4>1, SentAsks
    <3>2. /\ ui'.step = "seeking" /\ ui'.current = ui.current /\ ui'.latest = ui.latest
          /\ ui'.polled = 0
      BY <1>0, <2>4, <2>6 DEF Reducers
    <3>3. ui.step # "closing" BY <2>2 DEF Waiting
    <3> QED BY <1>0, <2>1, <2>2, <2>4, <2>6, <3>1, <3>2, <3>3 DEF AskInv
  <2> QED BY <2>5, <2>6
<1>5. CASE ReadStatus
  <2>1. /\ ui.step = "status" /\ ui' = [ui EXCEPT !.step = "recheck", !.failed = shared.failure]
        /\ UNCHANGED <<worker, jobs, epoch, reply>>
    BY <1>5 DEF ReadStatus
  <2>2. ~Asked(jobs) BY <2>1, NothingAsked DEF Waiting
  <2>3. worker.step # "none" BY <2>1 DEF AskInv
  <2>4. /\ ui'.step = "recheck" /\ ui'.current = ui.current /\ ui'.latest = ui.latest
        /\ ui'.polled = ui.polled
    BY <1>0, <2>1 DEF Reducers
  <2> QED BY <1>0, <2>1, <2>2, <2>3, <2>4, IdleAsks DEF Waiting
<1>6. CASE ApplyStatus
  <2>1. ui.step = "recheck" /\ UNCHANGED worker BY <1>6 DEF ApplyStatus, UiOnly
  <2>2. ~Asked(jobs) BY <2>1, NothingAsked DEF Waiting
  <2>3. worker.step # "none" BY <2>1 DEF AskInv
  <2>4. CASE Closing(Silent) BY <1>0, <2>1, <2>2, <2>3, <2>4, SilentTyped, ClosingAsks
  <2>5. CASE /\ ui' = [ui EXCEPT !.step = "parked", !.polled = 0, !.cut = FALSE]
             /\ UNCHANGED <<jobs, reply, epoch>>
    <3>1. "parked" \in UiSteps \ Waiting BY DEF UiSteps, Waiting
    <3> QED BY <1>0, <1>a, <2>1, <2>2, <2>3, <2>5, <3>1
  <2> QED BY <1>6, <2>4, <2>5 DEF ApplyStatus
<1>7. CASE AttachWaker
  <2>1. ui.step = "attach" /\ RequestPlay(ui) /\ UNCHANGED worker BY <1>7 DEF AttachWaker
  <2>2. ~Asked(jobs) BY <2>1, NothingAsked DEF Waiting
  <2>3. worker.step # "none" BY <2>1 DEF AskInv
  <2> QED BY <1>0, <2>1, <2>2, <2>3, PlayAsks
<1>8. CASE PlayAnswered
  <2>1. /\ ui.step = "playing" /\ reply # "none" /\ reply' = "none"
        /\ UNCHANGED <<worker, jobs, epoch>>
    BY <1>8 DEF PlayAnswered, UiOnly
  <2>2. ~Asked(jobs) BY <2>1, NothingAsked
  <2>3. worker.step # "none" BY <2>1 DEF AskInv
  <2>4. /\ ui'.step = "parked" /\ ui'.current \in {ui.current, ui.latest}
        /\ ui'.latest = ui.latest /\ ui'.polled = ui.polled
    <3>1. CASE ui' = [ui EXCEPT !.step = "parked", !.current = ui.latest, !.phase = "loading",
                                !.ignore = ui.current # NoLoad]
      BY <1>0, <3>1 DEF Reducers
    <3>2. CASE ui' = [ui EXCEPT !.step = "parked"]
      BY <1>0, <3>2 DEF Reducers
    <3> QED BY <1>8, <3>1, <3>2 DEF PlayAnswered
  <2>5. ui'.current <= epoch BY <1>0, <2>4
  <2> QED BY <1>0, <2>1, <2>2, <2>3, <2>4, <2>5, IdleAsks DEF Waiting
<1>9. CASE CommandAnswered \/ SeekAnswered
  <2>1. /\ ui.step \in {"commanding", "seeking"} /\ reply # "none" /\ reply' = "none"
        /\ UNCHANGED <<worker, jobs, epoch>>
        /\ \E step \in {"parked", "refused"} : ui' = [ui EXCEPT !.step = step]
    BY <1>9 DEF CommandAnswered, SeekAnswered, UiOnly
  <2>2. ~Asked(jobs) BY <2>1, NothingAsked
  <2>3. worker.step # "none" BY <2>1 DEF AskInv
  <2>4. {"parked", "refused"} \subseteq UiSteps \ Waiting BY DEF UiSteps, Drains, Waiting
  <2> QED BY <1>a, <2>1, <2>2, <2>3, <2>4
<1>10. CASE Joined
  <2>1. /\ ui.step = "closing" /\ reply # "none" /\ reply' = "none" /\ worker' = NoWorker
        /\ ui' = [ui EXCEPT !.step = "parked", !.cut = FALSE, !.dropped = FALSE]
        /\ UNCHANGED <<jobs, epoch>>
    BY <1>10 DEF Joined
  <2>2. ~Asked(jobs) BY <2>1, NothingAsked
  <2>3. AsksFor(jobs', ui'.step, epoch') /\ ~Asked(jobs') BY <2>1, <2>2, NotAsked
  <2>4. /\ ui'.step = "parked" /\ ui'.current = ui.current /\ ui'.latest = ui.latest
        /\ ui'.polled = ui.polled /\ ui.latest = NoLoad
    BY <1>0, <2>1 DEF Reducers, AskInv
  <2>5. worker'.step = "none" /\ worker'.processed = 0 BY <2>1 DEF NoWorker
  <2> QED BY <1>0, <2>1, <2>3, <2>4, <2>5 DEF AskInv
<1>11. CASE StartPlayer
  <2>1. /\ ui.step = "parked" /\ ~Up /\ epoch < MaxRequests /\ jobs' = <<Refresh>>
        /\ worker' = [NoWorker EXCEPT !.step = "recv"] /\ ui' = [ui EXCEPT !.step = "attach"]
        /\ UNCHANGED <<reply, epoch>>
    BY <1>11 DEF StartPlayer, channels
  <2>2. ~Asked(jobs') BY <2>1 DEF Asked
  <2>3. AsksFor(jobs', ui'.step, epoch') BY <2>2, NotAsked
  <2>4. /\ ui'.step = "attach" /\ ui'.current = ui.current /\ ui'.latest = ui.latest
        /\ ui'.polled = ui.polled
    BY <1>0, <2>1 DEF Reducers
  <2>5. worker'.step = "recv" /\ worker'.processed = 0 BY <2>1 DEF NoWorker
  <2>6. epoch <= MaxRequests + 1 /\ ~(epoch > MaxRequests) BY <1>0, <2>1, ConstantsAssumption
  <2> QED BY <1>0, <2>1, <2>2, <2>3, <2>4, <2>5, <2>6 DEF AskInv
<1>12. CASE Play
  <2>1. ui.step = "parked" /\ Up /\ RequestPlay(ui) /\ UNCHANGED worker BY <1>12 DEF Play, UiOnly
  <2>2. ~Asked(jobs) BY <2>1, NothingAsked DEF Waiting
  <2> QED BY <1>0, <2>1, <2>2, PlayAsks DEF Up
<1>13. CASE Stop
  <2> DEFINE load == epoch + 1
  <2>1. /\ ui.step = "parked" /\ Up /\ epoch < MaxRequests /\ UNCHANGED worker
        /\ ui' = [ui EXCEPT !.step = "commanding"] /\ epoch' = load /\ Send("stop", load)
    BY <1>13 DEF Stop, UiOnly
  <2>2. ~Asked(jobs) BY <2>1, NothingAsked DEF Waiting
  <2>3. load \in Nat /\ epoch < load /\ load <= MaxRequests + 1 /\ ~(load > MaxRequests)
    BY <1>0, <2>1, ConstantsAssumption
  <2>4. worker.processed < load /\ worker.processed <= load /\ ui.current <= load /\ ui.latest <= load
    <3>1. worker.processed \in Nat /\ worker.processed <= epoch /\ ui.current \in Nat /\ ui.latest \in Nat
      BY <1>0 DEF InboxInv, AskInv, Workers, Reducers
    <3> QED BY <1>0, <3>1
  <2> HIDE DEF load
  <2>5. AsksFor(jobs', "commanding", load) /\ Asked(jobs') /\ reply' = "none"
    <3>1. Fits("stop", "commanding") BY DEF Fits
    <3> QED BY <2>1, <2>2, <2>3, <3>1, SentAsks
  <2>6. /\ ui'.step = "commanding" /\ ui'.current = ui.current /\ ui'.latest = ui.latest
        /\ ui'.polled = ui.polled
    BY <1>0, <2>1 DEF Reducers
  <2> QED BY <1>0, <2>1, <2>3, <2>4, <2>5, <2>6 DEF AskInv, Up
<1>14. CASE Seek
  <2>1. /\ ui.step = "parked" /\ Up /\ UNCHANGED <<worker, jobs, reply, epoch>>
        /\ ui' = [ui EXCEPT !.step = "aim"]
    BY <1>14 DEF Seek, UiOnly
  <2>2. ~Asked(jobs) BY <2>1, NothingAsked DEF Waiting
  <2>3. "aim" \in UiSteps \ Waiting BY DEF UiSteps, Drains, Waiting
  <2> QED BY <1>0, <1>a, <2>1, <2>2, <2>3 DEF Up
<1>15. CASE Close
  <2>1. Closing(Silent) /\ ui.step = "parked" /\ Up /\ UNCHANGED worker BY <1>15 DEF Close, UiOnly
  <2>2. ~Asked(jobs) BY <2>1, NothingAsked DEF Waiting
  <2> QED BY <1>0, <2>1, <2>2, SilentTyped, ClosingAsks DEF Up
<1> QED BY <1>1, <1>2, <1>3, <1>4, <1>5, <1>6, <1>7, <1>8, <1>9, <1>10, <1>11, <1>12,
           <1>13, <1>14, <1>15 DEF Reduce, User

LEMMA InitAsks == Init => AskInv
<1> SUFFICES ASSUME Init PROVE AskInv
  OBVIOUS
<1>1. /\ jobs = <<>> /\ reply = "none" /\ worker = NoWorker /\ epoch = 0
      /\ ui.step = "parked" /\ ui.latest = NoLoad /\ ui.current = NoLoad /\ ui.polled = 0
  BY DEF Init
<1>2. ~Asked(jobs) BY <1>1 DEF Asked
<1>3. AsksFor(jobs, ui.step, epoch) BY <1>2, NotAsked
<1>4. worker.step = "none" /\ worker.processed = 0 BY <1>1 DEF NoWorker
<1>5. MaxPerTick \in Nat /\ MaxRequests \in Nat BY ConstantsAssumption
<1> QED BY <1>1, <1>2, <1>3, <1>4, <1>5 DEF AskInv, NoLoad

LEMMA NextAsks == InboxInv /\ UiInv /\ ToldInv /\ AskInv /\ [Next]_vars => AskInv'
<1> SUFFICES ASSUME InboxInv, UiInv, ToldInv, AskInv, [Next]_vars PROVE AskInv'
  OBVIOUS
<1>1. CASE UNCHANGED vars
  BY <1>1 DEF vars, supervisor, channels, reducer, AskInv
<1>2. CASE Next BY <1>2, MpvAsks, SuperviseAsks, ReduceAsks DEF Next
<1> QED BY <1>1, <1>2

-----------------------------------------------------------------------------
(* The adapter's state *)

\* A load waits to be taken up: mpv knows none as new.
PlayWaits == ui.step = "playing" /\ Asked(jobs)
Newest == IF PlayWaits THEN epoch - 1 ELSE epoch
LinesTo(n) == {line \in Lines : line.load <= n}

\* A ticket is of the adapter's load and no newer than what was taken up last; the
\* adapter's load is the latest, unless that waits or the reducer ends.  A worker that is
\* not there has left nothing.
AdapterInv ==
  /\ mpv \in Players /\ notice \in BOOLEAN
  /\ ipc \in Ipcs /\ cache \in Caches /\ history \in Histories
  /\ events \in Seq(LifecycleEvents)
  /\ lines \in Seq(LinesTo(Newest)) /\ Len(lines) <= MaxLines
  /\ mpv.file <= Newest /\ mpv.next <= Newest
  /\ worker.sent <= MaxPerPass /\ (worker.step \in {"poll", "wake"} => worker.sent < MaxPerPass)
  /\ ~Runs(worker) => /\ ~mpv.alive /\ ~notice /\ lines = <<>> /\ ipc = NewIpc
                      /\ ~cache.ticket.valid
  /\ worker.step = "none" => cache.input = NoLoad /\ history = NoHistory
  /\ cache.ticket.valid =>
       cache.ticket.input = cache.input /\ cache.ticket.expected <= worker.processed
  /\ Runs(worker) /\ ~PlayWaits /\ ui.step # "closing" => cache.input = ui.latest

LEMMA NewestIs ==
  ASSUME InboxInv, AskInv
  PROVE  Newest \in Int /\ Newest <= epoch /\ LinesTo(Newest) \subseteq Lines
BY DEF InboxInv, Newest, LinesTo

LEMMA LinesGrow ==
  ASSUME NEW n \in Int, NEW k \in Int, n <= k, NEW q \in Seq(LinesTo(n))
  PROVE  q \in Seq(LinesTo(k))
<1>1. LinesTo(n) \subseteq LinesTo(k) BY DEF LinesTo, Lines, Loads
<1>2. q \in [1..Len(q) -> LinesTo(n)] /\ Len(q) \in Nat OBVIOUS
<1>3. q \in [1..Len(q) -> LinesTo(k)] BY <1>1, <1>2
<1> QED BY <1>2, <1>3

\* A wake-up leaves the newest load what it was.
LEMMA WokenNewest ==
  ASSUME InboxInv, AskInv, NEW ring, WakeSupervisor(ring) \/ UNCHANGED jobs, UNCHANGED <<ui, epoch>>
  PROVE  Newest' = Newest /\ PlayWaits' = PlayWaits /\ (Asked(jobs') <=> Asked(jobs))
<1>1. jobs' = jobs \/ jobs' = Append(jobs, Refresh) BY DEF WakeSupervisor
<1>2. jobs \in Inbox /\ AsksFor(jobs, ui.step, epoch) BY DEF InboxInv, AskInv
<1>3. Asked(jobs') <=> Asked(jobs) BY <1>1, <1>2, AskWoken
<1> QED BY <1>3 DEF Newest, PlayWaits

\* A line of mpv about a load it knows.
LEMMA EmitReads ==
  ASSUME InboxInv, AskInv, AdapterInv, NEW kind, NEW load \in Loads, Emit(kind, load),
         kind \in {"start", "loaded", "restart", "redirect", "stop", "eof", "error"},
         load <= Newest, mpv.alive,
         mpv' \in Players, mpv'.file <= Newest, mpv'.next <= Newest,
         UNCHANGED events
  PROVE  AdapterInv'
<1> USE DEF supervisor, reducer
<1> DEFINE line == [kind |-> kind, load |-> load]
<1>1. /\ Len(lines) < MaxLines /\ lines' = Append(lines, line) /\ notice' = TRUE
      /\ UNCHANGED <<ipc, cache, history, worker, jobs, ui, epoch>>
  BY DEF Emit
<1>2. line \in LinesTo(Newest) BY DEF LinesTo, Lines
<1>3. lines \in Seq(LinesTo(Newest)) /\ MaxLines \in Nat /\ Runs(worker)
  BY ConstantsAssumption DEF AdapterInv
<1> HIDE DEF line
<1>4. lines' \in Seq(LinesTo(Newest)) /\ Len(lines') <= MaxLines BY <1>1, <1>2, <1>3
<1>5. Newest' = Newest /\ PlayWaits' = PlayWaits BY <1>1 DEF Newest, PlayWaits
<1> QED BY <1>1, <1>3, <1>4, <1>5 DEF AdapterInv

LEMMA MpvReads ==
  ASSUME InboxInv, AskInv, AdapterInv, Mpv \/ Notify
  PROVE  AdapterInv'
<1> USE DEF supervisor, reducer, channels
<1>0. /\ mpv \in Players /\ mpv.file <= Newest /\ mpv.next <= Newest /\ NoLoad \in Loads
      /\ NoLoad <= mpv.file /\ NoLoad <= Newest /\ Newest \in Int
  BY NewestIs, ConstantsAssumption DEF AdapterInv, Players, Loads, NoLoad
<1>1. CASE MpvStart
  <2>1. /\ mpv.alive /\ Emit("start", mpv.next) /\ UNCHANGED events
        /\ mpv' = [mpv EXCEPT !.file = mpv.next, !.stage = "opening", !.next = NoLoad]
    BY <1>1 DEF MpvStart, Emit
  <2>2. /\ mpv' \in Players /\ mpv'.file = mpv.next /\ mpv'.next = NoLoad /\ mpv.next \in Loads
    BY <1>0, <2>1 DEF Players
  <2> QED BY <1>0, <2>1, <2>2, EmitReads
<1>2. CASE MpvAbandon
  <2>1. /\ mpv.alive /\ Emit("stop", mpv.file) /\ UNCHANGED events
        /\ mpv' = [mpv EXCEPT !.file = NoLoad, !.stage = "idle", !.stop = FALSE]
    BY <1>2 DEF MpvAbandon, Emit
  <2>2. /\ mpv' \in Players /\ mpv'.file = NoLoad /\ mpv'.next = mpv.next /\ mpv.file \in Loads
    BY <1>0, <2>1 DEF Players
  <2> QED BY <1>0, <2>1, <2>2, EmitReads
<1>3. CASE MpvAdvance
  <2>1. PICK kind \in {"loaded", "restart"}, stage \in {"ready", "playing"} :
          /\ mpv.alive /\ Emit(kind, mpv.file) /\ UNCHANGED events
          /\ mpv' = [mpv EXCEPT !.stage = stage]
    BY <1>3 DEF MpvAdvance, Emit
  <2>2. /\ mpv' \in Players /\ mpv'.file = mpv.file /\ mpv'.next = mpv.next /\ mpv.file \in Loads
    BY <1>0, <2>1 DEF Players
  <2> QED BY <1>0, <2>1, <2>2, EmitReads
<1>4. CASE MpvRedirect
  <2>1. /\ mpv.alive /\ Emit("redirect", mpv.file) /\ UNCHANGED events
        /\ mpv' = [mpv EXCEPT !.file = NoLoad, !.stage = "idle", !.next = mpv.file]
    BY <1>4 DEF MpvRedirect, Emit
  <2>2. /\ mpv' \in Players /\ mpv'.file = NoLoad /\ mpv'.next = mpv.file /\ mpv.file \in Loads
    BY <1>0, <2>1 DEF Players
  <2> QED BY <1>0, <2>1, <2>2, EmitReads
<1>5. CASE MpvEnd
  <2>1. PICK kind \in {"eof", "error"} :
          /\ mpv.alive /\ Emit(kind, mpv.file) /\ UNCHANGED events
          /\ mpv' = [mpv EXCEPT !.file = NoLoad, !.stage = "idle", !.stop = FALSE]
    BY <1>5 DEF MpvEnd, Emit
  <2>2. /\ mpv' \in Players /\ mpv'.file = NoLoad /\ mpv'.next = mpv.next /\ mpv.file \in Loads
    BY <1>0, <2>1 DEF Players
  <2> QED BY <1>0, <2>1, <2>2, EmitReads
<1>6. CASE MpvExit
  <2>1. /\ mpv.alive /\ mpv' = NoMpv /\ notice' = TRUE
        /\ UNCHANGED <<lines, ipc, cache, history, worker, jobs, events, ui, epoch>>
    BY <1>6 DEF MpvExit, StreamEnded
  <2>2. mpv' \in Players /\ mpv'.file = NoLoad /\ mpv'.next = NoLoad
    BY <1>0, <2>1 DEF NoMpv, IdleMpv, Players
  <2>3. Newest' = Newest /\ PlayWaits' = PlayWaits /\ Runs(worker)
    BY <2>1 DEF Newest, PlayWaits, AdapterInv
  <2> QED BY <1>0, <2>1, <2>2, <2>3 DEF AdapterInv
<1>7. CASE Notify
  <2>1. /\ notice /\ notice' = FALSE /\ WakeSupervisor(TRUE)
        /\ UNCHANGED <<mpv, lines, ipc, cache, history, worker, events, ui, epoch>>
    BY <1>7 DEF Notify
  <2>2. Newest' = Newest /\ PlayWaits' = PlayWaits
    <3> DEFINE ring == TRUE
    <3>1. WakeSupervisor(ring) BY <2>1
    <3> HIDE DEF ring
    <3> QED BY <2>1, <3>1, WokenNewest
  <2> QED BY <2>1, <2>2 DEF AdapterInv
<1> QED BY <1>1, <1>2, <1>3, <1>4, <1>5, <1>6, <1>7 DEF Mpv

\* What a step of the supervisor has to show.
LEMMA SupervisedReads ==
  ASSUME InboxInv, AskInv, AdapterInv, Runs(worker'), UNCHANGED notice,
         mpv' \in Players, mpv'.file <= Newest', mpv'.next <= Newest',
         Newest' \in Int, Newest <= Newest',
         ipc' \in Ipcs, cache' \in Caches, history' \in Histories,
         lines' \in Seq(LinesTo(Newest)), Len(lines') <= Len(lines),
         events' \in Seq(LifecycleEvents),
         worker'.sent <= MaxPerPass, worker'.step \in {"poll", "wake"} => worker'.sent < MaxPerPass,
         cache'.ticket.valid =>
           cache'.ticket.input = cache'.input /\ cache'.ticket.expected <= worker'.processed,
         ~PlayWaits' /\ ui'.step # "closing" => cache'.input = ui'.latest
  PROVE  AdapterInv'
<1>1. Newest \in Int BY NewestIs
<1>2. lines' \in Seq(LinesTo(Newest')) BY <1>1, LinesGrow
<1>3. Len(lines') \in Nat /\ Len(lines) \in Nat /\ MaxLines \in Nat
  BY ConstantsAssumption DEF AdapterInv
<1>4. Len(lines') <= MaxLines BY <1>3 DEF AdapterInv
<1> QED BY <1>2, <1>4 DEF AdapterInv, Runs

\* The adapter as its operations see it.
LEMMA AdapterReads ==
  ASSUME InboxInv, AskInv, AdapterInv
  PROVE  /\ Adapter \in Readings(LinesTo(Newest)) /\ LinesTo(Newest) \subseteq Lines
         /\ Adapter.ipc = ipc /\ Adapter.cache = cache /\ Adapter.lines = lines
         /\ Adapter.history = history
BY AdapterTyped, NewestIs DEF AdapterInv

\* What taking a request up does to the newest load.
LEMMA ExecutedNewest ==
  ASSUME InboxInv, AskInv, AdapterInv, NEW kind \in {"play", "stop", "seek"}, Take(kind),
         NEW m, TookAndRang(m), Answer(m), Done(Head(jobs).load), UNCHANGED <<ui, epoch>>
  PROVE  /\ ~PlayWaits' /\ Newest' = epoch /\ Newest' \in Int /\ Newest <= Newest'
         /\ Newest = IF kind = "play" THEN epoch - 1 ELSE epoch
         /\ Runs(worker') /\ worker'.sent <= MaxPerPass /\ worker'.sent < MaxPerPass
         /\ worker'.processed = epoch /\ epoch \in Loads
         /\ Head(jobs).load = epoch
         /\ kind = "play" => ui.latest = epoch /\ epoch # NoLoad
         /\ kind # "play" => cache.input = ui.latest
<1>1. /\ Fits(kind, ui.step) /\ Asked(jobs) /\ Head(jobs).load = epoch /\ worker.step = "recv"
  BY TookAsks
<1>2. ~Asked(jobs') /\ worker'.step = "poll" /\ worker'.sent = 0 BY ExecutedAsks
<1>3. epoch \in Nat /\ worker \in Workers BY DEF InboxInv
<1>4. worker'.processed = epoch BY <1>1, <1>3 DEF Done, Workers
<1>5. MaxPerPass \in Nat \ {0} /\ MaxRequests \in Nat BY ConstantsAssumption
<1>6. epoch \in Loads BY <1>3, <1>5 DEF Loads, AskInv
<1>7. ~PlayWaits' /\ Newest' = epoch BY <1>2 DEF PlayWaits, Newest
<1>8. CASE kind = "play"
  <2>1. ui.step = "playing" /\ PlayWaits BY <1>1, <1>8 DEF Fits, PlayWaits
  <2>2. worker.processed < epoch /\ worker.processed \in Nat BY <1>1, <1>3, <2>1 DEF AskInv, Workers
  <2> QED BY <1>1, <1>2, <1>3, <1>4, <1>5, <1>6, <1>7, <1>8, <2>1, <2>2
      DEF Newest, AskInv, Runs, NoLoad
<1>9. CASE kind # "play"
  <2>1. ~PlayWaits /\ ui.step # "closing" BY <1>1, <1>9 DEF Fits, PlayWaits
  <2> QED BY <1>1, <1>2, <1>3, <1>4, <1>5, <1>6, <1>7, <1>9, <2>1 DEF Newest, AdapterInv, Runs
<1> QED BY <1>8, <1>9

LEMMA PlayReads ==
  ASSUME InboxInv, AskInv, AdapterInv, ExecutePlay
  PROVE  AdapterInv'
<1> USE DEF reducer
<1>0. Take("play") /\ UNCHANGED <<notice, events, ui, epoch>> BY DEF ExecutePlay
<1> DEFINE load == Head(jobs).load
<1>1. PICK failed \in BOOLEAN, late \in BOOLEAN :
        /\ Became([Loading(load, failed) EXCEPT
                     !.history.crossed = @ \/ late \/ (failed /\ ipc.accepted)])
        /\ TookAndRang(Loading(load, failed)) /\ Answer(Loading(load, failed))
        /\ Done(load)
        /\ mpv' = IF mpv.alive /\ (failed => late) THEN [mpv EXCEPT !.next = load] ELSE mpv
  BY DEF ExecutePlay
<1>2. /\ ~PlayWaits' /\ Newest' = epoch /\ Newest' \in Int /\ Newest <= Newest'
      /\ Runs(worker') /\ worker'.sent <= MaxPerPass /\ worker'.sent < MaxPerPass
      /\ worker'.processed = epoch /\ epoch \in Loads /\ load = epoch
      /\ ui.latest = epoch
  BY <1>0, <1>1, ExecutedNewest
<1> DEFINE L == LinesTo(Newest)
           m == Loading(load, failed)
           h == [m.history EXCEPT !.crossed = @ \/ late \/ (failed /\ ipc.accepted)]
<1>3. Adapter \in Readings(L) /\ L \subseteq Lines /\ Adapter.lines = lines /\ mpv \in Players
  BY AdapterReads DEF AdapterInv
<1>4. /\ m \in Readings(L) /\ Len(m.lines) <= Len(lines)
      /\ m.cache.input = load /\ ~m.cache.ticket.valid
  BY <1>2, <1>3, LoadingBy
<1>5. /\ ipc' = m.ipc /\ cache' = m.cache /\ lines' = m.lines /\ history' = h
  <2> DEFINE crossed == m.history.crossed \/ late \/ (failed /\ ipc.accepted)
  <2>1. Became([m EXCEPT !.history.crossed = crossed]) BY <1>1
  <2>2. h = [m.history EXCEPT !.crossed = crossed] OBVIOUS
  <2> HIDE DEF crossed, m, h
  <2>3. [m EXCEPT !.history.crossed = crossed] = [m EXCEPT !.history = h]
    BY <2>2
  <2> QED BY <1>4, <2>1, <2>3 DEF Became, Readings
<1> HIDE DEF L, m
<1>6. /\ m.ipc \in Ipcs /\ m.cache \in Caches /\ m.lines \in Seq(L) /\ m.history \in Histories
  BY <1>4 DEF Readings
<1>7. h \in Histories BY <1>6 DEF Histories
<1> HIDE DEF h
<1>8. mpv' \in Players /\ mpv'.file <= Newest' /\ mpv'.next <= Newest'
  <2>1. mpv' \in Players /\ mpv'.file = mpv.file /\ mpv'.next \in {mpv.next, epoch}
    BY <1>1, <1>2, <1>3 DEF Players
  <2>2. mpv.file <= Newest /\ mpv.next <= Newest /\ Newest \in Int BY NewestIs DEF AdapterInv
  <2>3. mpv.file \in Int /\ mpv.next \in Int /\ epoch \in Int
    BY <1>2, <1>3 DEF Players, Loads
  <2> QED BY <1>2, <2>1, <2>2, <2>3
<1>9. events' \in Seq(LifecycleEvents) BY <1>0 DEF AdapterInv
<1> QED BY <1>0, <1>2, <1>4, <1>5, <1>6, <1>7, <1>8, <1>9, SupervisedReads DEF L

LEMMA StopReads ==
  ASSUME InboxInv, AskInv, AdapterInv, ExecuteStop
  PROVE  AdapterInv'
<1> USE DEF reducer
<1>0. Take("stop") /\ UNCHANGED <<notice, events, ui, epoch>> /\ Done(Head(jobs).load)
  BY DEF ExecuteStop
<1>1. PICK failed \in BOOLEAN :
        /\ TookAndRang(Stopping(failed)) /\ Answer(Stopping(failed))
        /\ Became([Stopping(failed) EXCEPT !.history.crossed = @ \/ (failed /\ ipc.accepted)])
        /\ mpv' = IF Stopping(failed).error THEN mpv
                  ELSE [mpv EXCEPT !.next = NoLoad, !.stop = mpv.file # NoLoad]
  BY DEF ExecuteStop
<1>2. /\ ~PlayWaits' /\ Newest' = epoch /\ Newest' \in Int /\ Newest <= Newest' /\ Newest = epoch
      /\ Runs(worker') /\ worker'.sent <= MaxPerPass /\ worker'.sent < MaxPerPass
      /\ cache.input = ui.latest
  BY <1>0, <1>1, ExecutedNewest
<1> DEFINE L == LinesTo(Newest)
           m == Stopping(failed)
           h == [m.history EXCEPT !.crossed = @ \/ (failed /\ ipc.accepted)]
<1>3. /\ Adapter \in Readings(L) /\ L \subseteq Lines /\ Adapter.lines = lines /\ mpv \in Players
      /\ Adapter.cache = cache
  BY AdapterReads DEF AdapterInv
<1>4. /\ m \in Readings(L) /\ Len(m.lines) <= Len(lines)
      /\ m.cache.input = cache.input /\ ~m.cache.ticket.valid
  BY <1>3, StoppingBy
<1>5. /\ ipc' = m.ipc /\ cache' = m.cache /\ lines' = m.lines /\ history' = h
  <2> DEFINE crossed == m.history.crossed \/ (failed /\ ipc.accepted)
  <2>1. Became([m EXCEPT !.history.crossed = crossed]) BY <1>1
  <2>2. h = [m.history EXCEPT !.crossed = crossed] OBVIOUS
  <2> HIDE DEF crossed, m, h
  <2>3. [m EXCEPT !.history.crossed = crossed] = [m EXCEPT !.history = h]
    BY <2>2
  <2> QED BY <1>4, <2>1, <2>3 DEF Became, Readings
<1>6. mpv' \in Players /\ mpv'.file = mpv.file /\ mpv'.next \in {mpv.next, NoLoad}
  <2>1. NoLoad \in Loads BY ConstantsAssumption DEF Loads, NoLoad
  <2> DEFINE stop == mpv.file # NoLoad
  <2>2. mpv' = mpv \/ mpv' = [mpv EXCEPT !.next = NoLoad, !.stop = stop] BY <1>1
  <2>3. stop \in BOOLEAN OBVIOUS
  <2> HIDE DEF stop
  <2> QED BY <1>3, <2>1, <2>2, <2>3 DEF Players
<1> HIDE DEF L, m
<1>7. /\ m.ipc \in Ipcs /\ m.cache \in Caches /\ m.lines \in Seq(L) /\ m.history \in Histories
  BY <1>4 DEF Readings
<1>8. h \in Histories BY <1>7 DEF Histories
<1> HIDE DEF h
<1>9. mpv'.file <= Newest' /\ mpv'.next <= Newest'
  <2>1. mpv.file <= Newest /\ mpv.next <= Newest /\ NoLoad <= Newest
    BY <1>2 DEF AdapterInv, InboxInv, NoLoad
  <2> QED BY <1>2, <1>6, <2>1
<1>10. events' \in Seq(LifecycleEvents) BY <1>0 DEF AdapterInv
<1> QED BY <1>0, <1>2, <1>4, <1>5, <1>6, <1>7, <1>8, <1>9, <1>10, SupervisedReads DEF L

LEMMA SeekReads ==
  ASSUME InboxInv, UiInv, AskInv, AdapterInv, ExecuteSeek
  PROVE  AdapterInv'
<1> USE DEF reducer
<1>0. Take("seek") /\ UNCHANGED <<mpv, notice, events, ui, epoch>> /\ Done(Head(jobs).load)
  BY DEF ExecuteSeek
<1>1. PICK failed \in BOOLEAN :
        /\ Became(Seeking(ui.current, failed))
        /\ TookAndRang(Seeking(ui.current, failed)) /\ Answer(Seeking(ui.current, failed))
  BY DEF ExecuteSeek, MayFail
<1>2. /\ ~PlayWaits' /\ Newest' = epoch /\ Newest' \in Int /\ Newest <= Newest' /\ Newest = epoch
      /\ Runs(worker') /\ worker'.sent <= MaxPerPass /\ worker'.sent < MaxPerPass
      /\ worker'.processed = epoch /\ cache.input = ui.latest
  BY <1>0, <1>1, ExecutedNewest
<1>3. ui.current \in Loads
  BY ConstantsAssumption DEF UiInv, Reducers, AskInv, Loads, InboxInv
<1> DEFINE L == LinesTo(Newest)
           m == Seeking(ui.current, failed)
<1>4. /\ Adapter \in Readings(L) /\ L \subseteq Lines /\ Adapter.lines = lines /\ mpv \in Players
      /\ Adapter.cache = cache
  BY AdapterReads DEF AdapterInv
<1>5. /\ m \in Readings(L) /\ Len(m.lines) <= Len(lines) /\ m.cache.input = cache.input
      /\ m.cache.ticket = cache.ticket \/ ~m.cache.ticket.valid
  BY <1>3, <1>4, SeekingBy
<1>6. ipc' = m.ipc /\ cache' = m.cache /\ lines' = m.lines /\ history' = m.history
  BY <1>1 DEF Became
<1> HIDE DEF L, m
<1>7. /\ m.ipc \in Ipcs /\ m.cache \in Caches /\ m.lines \in Seq(L) /\ m.history \in Histories
  BY <1>5 DEF Readings
<1>8. cache'.ticket.valid =>
        cache'.ticket.input = cache'.input /\ cache'.ticket.expected <= worker'.processed
  <2> SUFFICES ASSUME cache'.ticket.valid
               PROVE  cache'.ticket.input = cache'.input
                      /\ cache'.ticket.expected <= worker'.processed
    OBVIOUS
  <2>1. cache'.ticket = cache.ticket BY <1>5, <1>6
  <2>2. cache.ticket.input = cache.input /\ cache.ticket.expected <= worker.processed
    BY <2>1 DEF AdapterInv
  <2>3. worker.processed <= epoch /\ worker.processed \in Int /\ cache.ticket.expected \in Int
        /\ epoch \in Int
    BY ConstantsAssumption DEF AskInv, InboxInv, Workers, AdapterInv, Caches, Tickets, Loads
  <2> QED BY <1>2, <1>5, <1>6, <2>1, <2>2, <2>3
<1>9. mpv.file <= Newest' /\ mpv.next <= Newest' BY <1>2 DEF AdapterInv
<1>10. events' \in Seq(LifecycleEvents) BY <1>0 DEF AdapterInv
<1> QED BY <1>0, <1>2, <1>4, <1>5, <1>6, <1>7, <1>8, <1>9, <1>10, SupervisedReads DEF L

LEMMA ShutdownReads ==
  ASSUME InboxInv, AskInv, AdapterInv, ExecuteShutdown
  PROVE  AdapterInv'
<1> USE DEF reducer
<1>1. /\ Take("shutdown") /\ cache' = CacheShutdown(cache) /\ ipc' = NewIpc /\ mpv' = NoMpv
      /\ lines' = <<>> /\ notice' = FALSE /\ jobs' = <<>>
      /\ worker' = [worker EXCEPT !.step = "gone"]
      /\ UNCHANGED <<history, events, ui, epoch>>
  BY DEF ExecuteShutdown
<1>2. Fits("shutdown", ui.step) BY <1>1, TookAsks
<1>3. ui.step = "closing" BY <1>2 DEF Fits
<1>4. Newest' = epoch /\ ~PlayWaits' BY <1>1 DEF Newest, PlayWaits, Asked
<1>5. worker \in Workers /\ epoch \in Nat BY DEF InboxInv
<1>6. worker'.step = "gone" /\ worker'.sent = worker.sent BY <1>1, <1>5 DEF Workers
<1>7. /\ cache' \in Caches /\ ~cache'.ticket.valid
  BY <1>1, InvalidatedCache DEF CacheShutdown, AdapterInv, Caches
<1>8. NoLoad \in Loads /\ MaxLines \in Nat /\ MaxBacklog \in Nat
  BY ConstantsAssumption DEF Loads, NoLoad
<1>9. ipc' \in Ipcs /\ mpv' \in Players /\ mpv'.file = NoLoad /\ mpv'.next = NoLoad /\ ~mpv'.alive
  <2>1. <<>> \in Backlog BY <1>8 DEF Backlog
  <2>2. NewIpc \in Ipcs BY <1>8, <2>1 DEF NewIpc, Ipcs
  <2>3. NoMpv \in Players /\ NoMpv.file = NoLoad /\ NoMpv.next = NoLoad /\ ~NoMpv.alive
    BY <1>8 DEF NoMpv, IdleMpv, Players
  <2> QED BY <1>1, <2>2, <2>3
<1>10. lines' \in Seq(LinesTo(Newest')) /\ Len(lines') <= MaxLines BY <1>1, <1>8
<1>11. NoLoad <= Newest' BY <1>4, <1>5 DEF NoLoad
<1>12. worker'.sent <= MaxPerPass BY <1>6 DEF AdapterInv
<1>13. ~Runs(worker') /\ worker'.step \notin {"poll", "wake", "none"} BY <1>6 DEF Runs
<1>14. events' \in Seq(LifecycleEvents) /\ history' \in Histories /\ notice' = FALSE
  BY <1>1 DEF AdapterInv
<1> QED BY <1>1, <1>7, <1>9, <1>10, <1>11, <1>12, <1>13, <1>14 DEF AdapterInv

LEMMA WorkerReads ==
  ASSUME InboxInv, AskInv, AdapterInv, TakeRefresh \/ ClearPending \/ WakeAfterEvent \/ Rearm
  PROVE  AdapterInv'
<1> USE DEF backend, channels, reducer
<1>0. worker \in Workers /\ MaxPerPass \in Nat \ {0} BY ConstantsAssumption DEF InboxInv
<1>1. UNCHANGED <<mpv, lines, notice, ipc, cache, history, events, ui, epoch>>
  BY DEF TakeRefresh, ClearPending, WakeAfterEvent, Rearm
<1>2. /\ worker'.processed = worker.processed /\ Runs(worker) /\ Runs(worker')
      /\ worker'.sent <= MaxPerPass /\ (worker'.step \in {"poll", "wake"} => worker'.sent < MaxPerPass)
  <2>1. worker.sent <= MaxPerPass BY DEF AdapterInv
  <2>2. CASE TakeRefresh BY <1>0, <2>1, <2>2 DEF TakeRefresh, Take, Workers, Runs
  <2>3. CASE ClearPending BY <1>0, <2>1, <2>3 DEF ClearPending, Workers, Runs
  <2>4. CASE WakeAfterEvent
    <3> DEFINE sent == worker.sent + 1
               next == IF sent = MaxPerPass THEN "rearm" ELSE "poll"
    <3>1. worker.step = "wake" /\ worker' = [worker EXCEPT !.sent = sent, !.step = next]
      BY <2>4 DEF WakeAfterEvent
    <3>2. worker.sent < MaxPerPass BY <3>1 DEF AdapterInv
    <3>3. sent \in Nat /\ sent <= MaxPerPass /\ (next = "poll" => sent < MaxPerPass)
          /\ next \in {"rearm", "poll"}
      BY <1>0, <3>2 DEF Workers
    <3> HIDE DEF sent, next
    <3> QED BY <1>0, <3>1, <3>3 DEF Workers, Runs
  <2>5. CASE Rearm BY <1>0, <2>1, <2>5 DEF Rearm, Workers, Runs
  <2> QED BY <2>2, <2>3, <2>4, <2>5
<1>3. Newest' = Newest /\ PlayWaits' = PlayWaits
  <2>1. CASE TakeRefresh
    <3>1. worker.step = "recv" /\ jobs # <<>> /\ Head(jobs).kind = "refresh" /\ jobs' = Tail(jobs)
      BY <2>1 DEF TakeRefresh, Take
    <3>2. jobs \in Inbox /\ AsksFor(jobs, ui.step, epoch) BY DEF InboxInv, AskInv
    <3>3. Head(jobs) = Refresh
      <4>1. Head(jobs) \in {Refresh} \cup Requests BY <3>1, <3>2 DEF Inbox
      <4> QED BY <3>1, <4>1 DEF Requests
    <3>4. Asked(jobs') <=> Asked(jobs) BY <3>1, <3>2, <3>3, AskTaken
    <3> QED BY <1>1, <3>4 DEF Newest, PlayWaits
  <2>2. CASE ClearPending \/ WakeAfterEvent \/ Rearm
    <3>1. \E ring : WakeSupervisor(ring) \/ UNCHANGED jobs
      BY <2>2 DEF ClearPending, WakeAfterEvent, Rearm
    <3> QED BY <1>1, <3>1, WokenNewest
  <2> QED BY <2>1, <2>2
<1> QED BY <1>1, <1>2, <1>3 DEF AdapterInv, Runs

\* The part of a poll or a status that is not about what was read.
LEMMA RangReads ==
  ASSUME InboxInv, AskInv, AdapterInv, NEW ring, WakeSupervisor(ring), UNCHANGED <<mpv, ui, epoch>>
  PROVE  /\ Newest' = Newest /\ PlayWaits' = PlayWaits /\ Newest' \in Int /\ Newest <= Newest'
         /\ mpv' \in Players /\ mpv'.file <= Newest' /\ mpv'.next <= Newest'
<1>1. Newest' = Newest /\ PlayWaits' = PlayWaits BY WokenNewest
<1>2. Newest \in Int BY NewestIs
<1> QED BY <1>1, <1>2 DEF AdapterInv

LEMMA PollReads ==
  ASSUME InboxInv, AskInv, AdapterInv, PollEvent
  PROVE  AdapterInv'
<1> USE DEF reducer
<1>0. worker.step = "poll" /\ UNCHANGED <<mpv, notice, ui, epoch>> BY DEF PollEvent
<1>1. PICK failed \in BOOLEAN :
        LET read == Polled(failed)
            m == [read EXCEPT !.history.failed = read.error]
        IN /\ WakeSupervisor(m.rang)
           /\ \/ /\ Became(m) /\ UNCHANGED events
                 /\ worker' = [worker EXCEPT !.step = "status", !.sent = 0]
              \/ /\ m.ipc.events # <<>>
                 /\ Became([m EXCEPT !.ipc.events = Tail(@)])
                 /\ events' = Append(events, Head(m.ipc.events))
                 /\ worker' = [worker EXCEPT !.step = "wake"]
  BY DEF PollEvent
<1> DEFINE L == LinesTo(Newest)
           read == Polled(failed)
           error == read.error
           m == [read EXCEPT !.history.failed = error]
           h == [read.history EXCEPT !.failed = error]
<1>2. /\ Adapter \in Readings(L) /\ L \subseteq Lines /\ Adapter.lines = lines /\ mpv \in Players
      /\ Adapter.cache = cache
  BY AdapterReads DEF AdapterInv
<1>3. /\ read \in Readings(L) /\ Len(read.lines) <= Len(lines) /\ read.cache.input = cache.input
      /\ read.cache.ticket = cache.ticket \/ ~read.cache.ticket.valid
  BY <1>2, PolledBy
<1>4. WakeSupervisor(m.rang) BY <1>1
<1>5. \/ /\ Became(m) /\ UNCHANGED events
         /\ worker' = [worker EXCEPT !.step = "status", !.sent = 0]
      \/ /\ m.ipc.events # <<>>
         /\ Became([m EXCEPT !.ipc.events = Tail(@)])
         /\ events' = Append(events, Head(m.ipc.events))
         /\ worker' = [worker EXCEPT !.step = "wake"]
  BY <1>1
<1> HIDE DEF L, read
<1>6. /\ read.ipc \in Ipcs /\ read.cache \in Caches /\ read.lines \in Seq(L)
      /\ read.history \in Histories /\ error \in BOOLEAN
  BY <1>3 DEF Readings
<1> HIDE DEF error
<1>7. h \in Histories BY <1>6 DEF Histories
<1>8. m = [read EXCEPT !.history = h] BY <1>3 DEF Readings
<1> HIDE DEF h, m
<1>9. /\ m.ipc = read.ipc /\ m.cache = read.cache /\ m.lines = read.lines /\ m.history = h
  BY <1>3, <1>8 DEF Readings
<1>10. /\ Newest' = Newest /\ PlayWaits' = PlayWaits /\ Newest' \in Int /\ Newest <= Newest'
       /\ mpv' \in Players /\ mpv'.file <= Newest' /\ mpv'.next <= Newest'
  BY <1>0, <1>4, RangReads
<1>11. /\ ipc' \in Ipcs /\ cache' = read.cache /\ lines' = read.lines /\ history' = h
       /\ events' \in Seq(LifecycleEvents) /\ worker'.step \in {"status", "wake"}
       /\ worker'.processed = worker.processed /\ worker'.sent \in 0..MaxPerPass
       /\ worker'.sent < MaxPerPass
  <2>0. worker \in Workers /\ worker.sent < MaxPerPass /\ MaxPerPass \in Nat \ {0}
        /\ events \in Seq(LifecycleEvents)
    BY <1>0, ConstantsAssumption DEF InboxInv, AdapterInv
  <2>1. CASE /\ Became(m) /\ UNCHANGED events
             /\ worker' = [worker EXCEPT !.step = "status", !.sent = 0]
    BY <1>6, <1>9, <2>0, <2>1 DEF Became, Workers
  <2>2. CASE /\ m.ipc.events # <<>>
             /\ Became([m EXCEPT !.ipc.events = Tail(@)])
             /\ events' = Append(events, Head(m.ipc.events))
             /\ worker' = [worker EXCEPT !.step = "wake"]
    <3> DEFINE rest == Tail(read.ipc.events)
               i == [read.ipc EXCEPT !.events = rest]
    <3>1. /\ read.ipc.events \in Seq(LifecycleEvents) /\ read.ipc.events # <<>>
          /\ Len(read.ipc.events) <= MaxBacklog /\ MaxBacklog \in Nat
      BY <1>6, <1>9, <2>2, ConstantsAssumption DEF Ipcs, Backlog
    <3>2. rest \in Backlog BY <3>1 DEF Backlog
    <3>3. events' \in Seq(LifecycleEvents) BY <1>9, <2>0, <2>2, <3>1
    <3>4. Became([m EXCEPT !.ipc.events = rest]) BY <1>9, <2>2
    <3> HIDE DEF rest
    <3>5. i \in Ipcs BY <1>6, <3>2 DEF Ipcs
    <3>6. m \in Readings(L) BY <1>3, <1>7, <1>8 DEF Readings
    <3>7. [m EXCEPT !.ipc.events = rest] = [m EXCEPT !.ipc = i] BY <1>9
    <3> HIDE DEF i
    <3>8. ipc' = i /\ cache' = m.cache /\ lines' = m.lines /\ history' = m.history
      BY <3>4, <3>6, <3>7 DEF Became, Readings
    <3>9. /\ worker'.step = "wake" /\ worker'.sent = worker.sent
          /\ worker'.processed = worker.processed
      BY <2>0, <2>2 DEF Workers
    <3>10. worker.sent \in 0..MaxPerPass BY <2>0 DEF Workers
    <3> QED BY <1>9, <2>0, <3>3, <3>5, <3>8, <3>9, <3>10
  <2> QED BY <1>5, <2>1, <2>2
<1>12. cache'.ticket.valid =>
         cache'.ticket.input = cache'.input /\ cache'.ticket.expected <= worker'.processed
  BY <1>3, <1>11 DEF AdapterInv
<1>13. ~PlayWaits' /\ ui'.step # "closing" => cache'.input = ui'.latest
  BY <1>0, <1>3, <1>10, <1>11 DEF AdapterInv, Runs
<1>14. worker'.sent <= MaxPerPass /\ Runs(worker')
  BY <1>11, ConstantsAssumption DEF Runs
<1> QED BY <1>0, <1>3, <1>6, <1>7, <1>10, <1>11, <1>12, <1>13, <1>14, SupervisedReads DEF L

LEMMA StatusReads ==
  ASSUME InboxInv, AskInv, AdapterInv, PublishStatus
  PROVE  AdapterInv'
<1> USE DEF reducer
<1>0. /\ worker.step = "status" /\ UNCHANGED <<mpv, notice, events, ui, epoch>>
      /\ worker' = [worker EXCEPT !.step = "recv"]
  BY DEF PublishStatus
<1>1. PICK failed \in BOOLEAN :
        /\ WakeSupervisor(Status(failed).rang)
        /\ Became([Status(failed) EXCEPT
                     !.cache.ticket = Handle(Status(failed).cache, TicketEpoch)])
  BY DEF PublishStatus
<1> DEFINE L == LinesTo(Newest)
           m == Status(failed)
           ticket == Handle(m.cache, TicketEpoch)
           c == [m.cache EXCEPT !.ticket = ticket]
<1>2. /\ Adapter \in Readings(L) /\ L \subseteq Lines /\ Adapter.lines = lines /\ mpv \in Players
      /\ Adapter.cache = cache
  BY AdapterReads DEF AdapterInv
<1>3. m \in Readings(L) /\ Len(m.lines) <= Len(lines) /\ m.cache.input = cache.input
  <2> DEFINE A == NoLoad
  <2>1. Kept(L, Adapter, m, mpv, A) BY <1>2, StatusBy
  <2> QED BY <1>2, <2>1 DEF Kept, Later
<1>4. WakeSupervisor(m.rang) /\ Became([m EXCEPT !.cache.ticket = ticket]) BY <1>1
<1> HIDE DEF L, m
<1>5. /\ m.ipc \in Ipcs /\ m.cache \in Caches /\ m.lines \in Seq(L) /\ m.history \in Histories
  BY <1>3 DEF Readings
<1>6. worker \in Workers /\ worker.processed \in Loads
  BY ConstantsAssumption DEF InboxInv, Workers, AskInv, Loads
<1>7. /\ ticket \in Tickets
      /\ ticket.valid => ticket.input = m.cache.input /\ ticket.expected = worker.processed
  BY <1>5, <1>6, NoTicketIs DEF Handle, TicketEpoch, Tickets, Caches, NoTicketTyped
<1> HIDE DEF ticket
<1>8. c \in Caches /\ c.ticket = ticket /\ c.input = m.cache.input BY <1>5, <1>7 DEF Caches
<1> HIDE DEF c
<1>9. ipc' = m.ipc /\ cache' = c /\ lines' = m.lines /\ history' = m.history
  <2>1. [m EXCEPT !.cache.ticket = ticket] = [m EXCEPT !.cache = c] BY DEF c
  <2> QED BY <1>3, <1>4, <2>1 DEF Became, Readings
<1>10. /\ Newest' = Newest /\ PlayWaits' = PlayWaits /\ Newest' \in Int /\ Newest <= Newest'
       /\ mpv' \in Players /\ mpv'.file <= Newest' /\ mpv'.next <= Newest'
  BY <1>0, <1>4, RangReads
<1>11. /\ worker'.step = "recv" /\ worker'.processed = worker.processed
       /\ worker'.sent = worker.sent
  BY <1>0, <1>6 DEF Workers
<1>12. cache'.ticket.valid =>
         cache'.ticket.input = cache'.input /\ cache'.ticket.expected <= worker'.processed
  BY <1>6, <1>7, <1>8, <1>9, <1>11 DEF Loads
<1>13. ~PlayWaits' /\ ui'.step # "closing" => cache'.input = ui'.latest
  BY <1>0, <1>3, <1>8, <1>9, <1>10 DEF AdapterInv, Runs
<1>14. Runs(worker') /\ worker'.sent <= MaxPerPass /\ worker'.step \notin {"poll", "wake"}
       /\ events' \in Seq(LifecycleEvents)
  BY <1>0, <1>11 DEF Runs, AdapterInv
<1> QED BY <1>0, <1>3, <1>5, <1>8, <1>9, <1>10, <1>12, <1>13, <1>14, SupervisedReads DEF L

LEMMA SuperviseReads ==
  ASSUME InboxInv, UiInv, AskInv, AdapterInv, Supervise
  PROVE  AdapterInv'
BY WorkerReads, PlayReads, StopReads, SeekReads, ShutdownReads, PollReads, StatusReads
   DEF Supervise

\* A reducer that has no request out looks at events or makes one.
LEMMA ReducerReads ==
  ASSUME InboxInv, AskInv, AdapterInv, UNCHANGED <<backend, worker>>,
         events' = events \/ (events # <<>> /\ events' = Tail(events)),
         ~Asked(jobs), ui.step # "closing",
         (epoch' = epoch /\ ~PlayWaits') \/ epoch' = epoch + 1,
         PlayWaits' \/ ui'.step = "closing" \/ ui'.latest = ui.latest
  PROVE  AdapterInv'
<1> USE DEF backend
<1>1. epoch \in Nat BY DEF InboxInv
<1>2. ~PlayWaits /\ Newest = epoch BY DEF PlayWaits, Newest
<1>3. Newest' \in Int /\ Newest <= Newest' BY <1>1, <1>2 DEF Newest
<1>4. events' \in Seq(LifecycleEvents) BY DEF AdapterInv
<1>5. lines' \in Seq(LinesTo(Newest')) BY <1>1, <1>2, <1>3, LinesGrow DEF AdapterInv
<1>6. mpv'.file <= Newest' /\ mpv'.next <= Newest'
  <2>1. mpv.file \in Int /\ mpv.next \in Int BY ConstantsAssumption DEF AdapterInv, Players, Loads
  <2>2. mpv.file <= Newest /\ mpv.next <= Newest BY DEF AdapterInv
  <2> QED BY <1>1, <1>2, <1>3, <2>1, <2>2
<1> QED BY <1>2, <1>4, <1>5, <1>6 DEF AdapterInv

\* What the reducer's actions do to its requests.
LEMMA PlayRequested ==
  ASSUME InboxInv, NEW u \in Reducers, RequestPlay(u), ~Asked(jobs)
  PROVE  PlayWaits' /\ epoch' = epoch + 1
<1> DEFINE load == epoch + 1
<1>1. load \in Nat /\ Send("play", load) /\ epoch' = load BY DEF RequestPlay, InboxInv
<1>2. ui' = [u EXCEPT !.step = "playing", !.latest = load] BY DEF RequestPlay
<1> HIDE DEF load
<1>3. Fits("play", "playing") BY DEF Fits
<1>4. Asked(jobs') BY <1>1, <1>3, SentAsks
<1>5. ui'.step = "playing" BY <1>2 DEF Reducers
<1> QED BY <1>1, <1>4, <1>5 DEF PlayWaits, load

LEMMA ReduceReads ==
  ASSUME InboxInv, UiInv, ToldInv, AskInv, AdapterInv, Tick \/ Reduce \/ User
  PROVE  AdapterInv'
<1> USE DEF supervisor, channels
<1>0. ui \in Reducers /\ epoch \in Nat /\ Silent \in Reducers /\ Silent.step = ui.step
      /\ Silent.latest = ui.latest /\ events \in Seq(LifecycleEvents)
  BY SilentTyped DEF UiInv, InboxInv, AdapterInv
<1>a. ASSUME UNCHANGED <<backend, worker, jobs, epoch>>, ~Asked(jobs), ui.step # "closing",
             events' = events \/ (events # <<>> /\ events' = Tail(events)),
             ui'.latest = ui.latest
      PROVE  AdapterInv'
  <2>1. ~PlayWaits' BY <1>a DEF PlayWaits
  <2> QED BY <1>a, <2>1, ReducerReads
<1>b. ASSUME NEW u \in Reducers, Closing(u), UNCHANGED <<backend, worker>>, ~Asked(jobs),
             ui.step # "closing", events' = events \/ (events # <<>> /\ events' = Tail(events))
      PROVE  AdapterInv'
  <2>1. ui'.step = "closing" /\ epoch' = epoch + 1 BY <1>b DEF Closing, Reducers
  <2> QED BY <1>b, <2>1, ReducerReads
<1>c. ASSUME NEW u \in Reducers, RequestPlay(u), UNCHANGED <<backend, worker>>, ~Asked(jobs),
             ui.step # "closing", events' = events \/ (events # <<>> /\ events' = Tail(events))
      PROVE  AdapterInv'
  BY <1>c, PlayRequested, ReducerReads
<1>1. CASE Tick
  <2>1. ui.step = "parked" /\ UNCHANGED <<backend, worker, jobs, epoch, events>> BY <1>1 DEF Tick
  <2>2. ui'.latest = ui.latest BY <1>0, <1>1 DEF Tick, Reducers
  <2> QED BY <1>a, <2>1, <2>2, NothingAsked DEF Waiting
<1>2. CASE DrainEvent
  <2>1. /\ ui.step \in Drains /\ UNCHANGED <<backend, worker>>
        /\ events # <<>> /\ events' = Tail(events)
    BY <1>2 DEF DrainEvent, Draining
  <2>2. ui.step \notin Waiting BY <2>1 DEF Drains, Waiting
  <2>3. ~Asked(jobs) /\ ui.step # "closing" BY <2>2, NothingAsked DEF Waiting
  <2>4. CASE OnLoaded \/ OnStarted \/ OnReplacedStop
    <3>1. Consumed \in Reducers /\ Consumed.latest = ui.latest BY <1>0 DEF Consumed, Reducers
    <3>2. \/ ui' = [Consumed EXCEPT !.phase = "loaded", !.ignore = FALSE]
          \/ ui' = Consumed
          \/ ui' = [Consumed EXCEPT !.phase = "playing"]
          \/ ui' = [Consumed EXCEPT !.ignore = FALSE]
      BY <2>4 DEF OnLoaded, OnStarted, OnReplacedStop
    <3>3. ui'.latest = ui.latest BY <3>1, <3>2 DEF Reducers
    <3>4. UNCHANGED <<jobs, epoch>> BY <2>4 DEF OnLoaded, OnStarted, OnReplacedStop
    <3> QED BY <1>a, <2>1, <2>3, <3>3, <3>4
  <2>5. CASE ui' = [Silent EXCEPT !.step = "parked", !.cut = TRUE] /\ UNCHANGED <<jobs, reply, epoch>>
    <3>1. ui'.latest = ui.latest BY <1>0, <2>5 DEF Reducers
    <3> QED BY <1>a, <2>1, <2>3, <2>5, <3>1
  <2>6. CASE RequestPlay([Silent EXCEPT !.cut = TRUE])
    <3>1. [Silent EXCEPT !.cut = TRUE] \in Reducers BY <1>0 DEF Reducers
    <3> QED BY <1>c, <2>1, <2>3, <2>6, <3>1
  <2>7. CASE Closing(Silent) BY <1>0, <1>b, <2>1, <2>3, <2>7
  <2> QED BY <1>2, <2>4, <2>5, <2>6, <2>7 DEF DrainEvent, OnEnded, OnExited
<1>3. CASE TooManyEvents \/ Close
  <2>1. /\ Closing(Silent) /\ ui.step \in Drains \cup {"parked"}
        /\ UNCHANGED <<backend, worker, events>>
    BY <1>3 DEF TooManyEvents, Close, UiOnly
  <2>2. ui.step \notin Waiting BY <2>1 DEF Drains, Waiting
  <2> QED BY <1>0, <1>b, <2>1, <2>2, NothingAsked DEF Waiting
<1>4. CASE CaughtUp
  <2>1. ui.step \in Drains /\ UNCHANGED <<backend, worker, events, epoch>>
    BY <1>4 DEF CaughtUp, Draining, UiOnly
  <2>2. ui.step \notin Waiting BY <2>1 DEF Drains, Waiting
  <2>3. PICK next \in {"status", "seeking", "parked"} : ui' = [ui EXCEPT !.step = next, !.polled = 0]
    BY <1>4 DEF CaughtUp
  <2>4. ui'.step = next /\ ui'.latest = ui.latest BY <1>0, <2>3 DEF Reducers
  <2>5. ~PlayWaits' BY <2>4 DEF PlayWaits
  <2> QED BY <2>1, <2>2, <2>4, <2>5, NothingAsked, ReducerReads DEF Waiting
<1>5. CASE ReadStatus
  <2>1. ui.step = "status" /\ UNCHANGED <<backend, worker, jobs, epoch, events>>
    BY <1>5 DEF ReadStatus
  <2>2. ui'.latest = ui.latest BY <1>0, <1>5 DEF ReadStatus, Reducers
  <2> QED BY <1>a, <2>1, <2>2, NothingAsked DEF Waiting
<1>6. CASE ApplyStatus
  <2>1. ui.step = "recheck" /\ UNCHANGED <<backend, worker, events>>
    BY <1>6 DEF ApplyStatus, UiOnly
  <2>2. ~Asked(jobs) BY <2>1, NothingAsked DEF Waiting
  <2>3. CASE Closing(Silent) BY <1>0, <1>b, <2>1, <2>2, <2>3
  <2>4. CASE /\ ui' = [ui EXCEPT !.step = "parked", !.polled = 0, !.cut = FALSE]
             /\ UNCHANGED <<jobs, reply, epoch>>
    <3>1. ui'.latest = ui.latest BY <1>0, <2>4 DEF Reducers
    <3> QED BY <1>a, <2>1, <2>2, <2>4, <3>1
  <2> QED BY <1>6, <2>3, <2>4 DEF ApplyStatus
<1>7. CASE AttachWaker
  <2>1. ui.step = "attach" /\ RequestPlay(ui) /\ UNCHANGED <<backend, worker, events>>
    BY <1>7 DEF AttachWaker
  <2> QED BY <1>0, <1>c, <2>1, NothingAsked DEF Waiting
<1>8. CASE PlayAnswered
  <2>1. ui.step = "playing" /\ reply # "none" /\ UNCHANGED <<backend, worker, jobs, epoch, events>>
    BY <1>8 DEF PlayAnswered, UiOnly
  <2>2. ui'.latest = ui.latest
    <3>1. CASE ui' = [ui EXCEPT !.step = "parked", !.current = ui.latest, !.phase = "loading",
                                !.ignore = ui.current # NoLoad]
      BY <1>0, <3>1 DEF Reducers
    <3>2. CASE ui' = [ui EXCEPT !.step = "parked"]
      BY <1>0, <3>2 DEF Reducers
    <3> QED BY <1>8, <3>1, <3>2 DEF PlayAnswered
  <2> QED BY <1>a, <2>1, <2>2, NothingAsked
<1>9. CASE CommandAnswered \/ SeekAnswered
  <2>1. /\ ui.step \in {"commanding", "seeking"} /\ reply # "none"
        /\ UNCHANGED <<backend, worker, jobs, epoch, events>>
        /\ \E step \in {"parked", "refused"} : ui' = [ui EXCEPT !.step = step]
    BY <1>9 DEF CommandAnswered, SeekAnswered, UiOnly
  <2>2. ui'.latest = ui.latest BY <1>0, <2>1 DEF Reducers
  <2> QED BY <1>a, <2>1, <2>2, NothingAsked
<1>10. CASE Joined
  <2>1. /\ ui.step = "closing" /\ worker.step = "gone" /\ reply # "none" /\ worker' = NoWorker
        /\ events' = <<>> /\ cache' = NewCache /\ history' = NoHistory
        /\ ui' = [ui EXCEPT !.step = "parked", !.cut = FALSE, !.dropped = FALSE]
        /\ UNCHANGED <<mpv, lines, notice, ipc, jobs, epoch>>
    BY <1>10 DEF Joined
  <2>2. ui'.step = "parked" BY <1>0, <2>1 DEF Reducers
  <2>3. ~PlayWaits /\ ~PlayWaits' /\ Newest' = Newest
    BY <2>1, <2>2 DEF PlayWaits, Newest
  <2>4. NoLoad \in Loads /\ MaxPerPass \in Nat BY ConstantsAssumption DEF Loads, NoLoad
  <2>5. cache' \in Caches /\ cache'.input = NoLoad /\ ~cache'.ticket.valid
    BY <2>1, <2>4, NoTicketIs DEF NewCache, Caches, NoTicketTyped
  <2>6. history' \in Histories BY <2>1, <2>4 DEF NoHistory, Histories
  <2>7. worker'.step = "none" /\ worker'.sent = 0 /\ ~Runs(worker) /\ ~Runs(worker')
    BY <2>1 DEF NoWorker, Runs
  <2>8. events' \in Seq(LifecycleEvents) BY <2>1
  <2> QED BY <2>1, <2>3, <2>4, <2>5, <2>6, <2>7, <2>8 DEF AdapterInv
<1>11. CASE StartPlayer
  <2>1. /\ ui.step = "parked" /\ ~Up /\ jobs' = <<Refresh>> /\ mpv' = IdleMpv
        /\ worker' = [NoWorker EXCEPT !.step = "recv"] /\ ui' = [ui EXCEPT !.step = "attach"]
        /\ UNCHANGED <<lines, notice, ipc, cache, history, events, epoch>>
    BY <1>11 DEF StartPlayer
  <2>2. ui'.step = "attach" /\ ui'.latest = ui.latest BY <1>0, <2>1 DEF Reducers
  <2>3. ~PlayWaits /\ ~PlayWaits' /\ Newest' = epoch /\ Newest = epoch
    BY <2>1, <2>2 DEF PlayWaits, Newest
  <2>4. NoLoad \in Loads /\ MaxPerPass \in Nat BY ConstantsAssumption DEF Loads, NoLoad
  <2>5. mpv' \in Players /\ mpv'.file = NoLoad /\ mpv'.next = NoLoad
    BY <2>1, <2>4 DEF IdleMpv, Players
  <2>6. worker'.step = "recv" /\ worker'.sent = 0 /\ Runs(worker') BY <2>1 DEF NoWorker, Runs
  <2>7. worker.step = "none" BY <2>1 DEF Up, ToldInv
  <2>8. cache.input = NoLoad /\ ui.latest = NoLoad /\ ~cache.ticket.valid
    BY <2>7 DEF AdapterInv, AskInv, Runs
  <2>9. NoLoad <= Newest' BY <1>0, <2>3 DEF NoLoad
  <2> QED BY <2>1, <2>2, <2>3, <2>4, <2>5, <2>6, <2>8, <2>9 DEF AdapterInv
<1>12. CASE Play
  <2>1. ui.step = "parked" /\ RequestPlay(ui) /\ UNCHANGED <<backend, worker, events>>
    BY <1>12 DEF Play, UiOnly
  <2> QED BY <1>0, <1>c, <2>1, NothingAsked DEF Waiting
<1>13. CASE Stop
  <2>1. /\ ui.step = "parked" /\ UNCHANGED <<backend, worker, events>>
        /\ ui' = [ui EXCEPT !.step = "commanding"] /\ epoch' = epoch + 1
    BY <1>13 DEF Stop, UiOnly
  <2>2. ui'.latest = ui.latest BY <1>0, <2>1 DEF Reducers
  <2> QED BY <2>1, <2>2, NothingAsked, ReducerReads DEF Waiting
<1>14. CASE Seek
  <2>1. /\ ui.step = "parked" /\ UNCHANGED <<backend, worker, events, jobs, epoch>>
        /\ ui' = [ui EXCEPT !.step = "aim"]
    BY <1>14 DEF Seek, UiOnly
  <2>2. ui'.latest = ui.latest BY <1>0, <2>1 DEF Reducers
  <2> QED BY <1>a, <2>1, <2>2, NothingAsked DEF Waiting
<1> QED BY <1>1, <1>2, <1>3, <1>4, <1>5, <1>6, <1>7, <1>8, <1>9, <1>10, <1>11, <1>12,
           <1>13, <1>14 DEF Reduce, User

LEMMA InitReads == Init => AdapterInv
<1> SUFFICES ASSUME Init PROVE AdapterInv
  OBVIOUS
<1>1. /\ mpv = NoMpv /\ lines = <<>> /\ notice = FALSE /\ ipc = NewIpc /\ cache = NewCache
      /\ history = NoHistory /\ jobs = <<>> /\ worker = NoWorker /\ events = <<>> /\ epoch = 0
      /\ ui.step = "parked" /\ ui.latest = NoLoad
  BY DEF Init
<1>2. NoLoad \in Loads /\ MaxPerPass \in Nat /\ MaxLines \in Nat /\ MaxBacklog \in Nat
  BY ConstantsAssumption DEF Loads, NoLoad
<1>3. Newest = 0 /\ ~PlayWaits BY <1>1 DEF Newest, PlayWaits
<1>4. mpv \in Players /\ mpv.file = NoLoad /\ mpv.next = NoLoad /\ ~mpv.alive
  BY <1>1, <1>2 DEF NoMpv, IdleMpv, Players
<1>5. ipc \in Ipcs
  <2>1. <<>> \in Backlog BY <1>2 DEF Backlog
  <2> QED BY <1>1, <1>2, <2>1 DEF NewIpc, Ipcs
<1>6. cache \in Caches /\ cache.input = NoLoad /\ ~cache.ticket.valid
  BY <1>1, <1>2, NoTicketIs DEF NewCache, Caches, NoTicketTyped
<1>7. history \in Histories BY <1>1, <1>2 DEF NoHistory, Histories
<1>8. worker.step = "none" /\ worker.sent = 0 /\ ~Runs(worker) BY <1>1 DEF NoWorker, Runs
<1>9. events \in Seq(LifecycleEvents) /\ lines \in Seq(LinesTo(Newest)) /\ Len(lines) <= MaxLines
  BY <1>1, <1>2
<1>10. mpv.file <= Newest /\ mpv.next <= Newest BY <1>3, <1>4 DEF NoLoad
<1>11. worker.sent <= MaxPerPass /\ worker.step \notin {"poll", "wake"} BY <1>2, <1>8
<1>12. notice \in BOOLEAN /\ ~notice /\ lines = <<>> /\ ipc = NewIpc /\ history = NoHistory
  BY <1>1
<1> QED BY <1>4, <1>5, <1>6, <1>7, <1>8, <1>9, <1>10, <1>11, <1>12 DEF AdapterInv

LEMMA NextReads ==
  InboxInv /\ UiInv /\ ToldInv /\ AskInv /\ AdapterInv /\ [Next]_vars => AdapterInv'
<1> SUFFICES ASSUME InboxInv, UiInv, ToldInv, AskInv, AdapterInv, [Next]_vars PROVE AdapterInv'
  OBVIOUS
<1>1. CASE UNCHANGED vars
  <2>1. UNCHANGED <<mpv, lines, notice, ipc, cache, history, jobs, worker, events, ui, epoch>>
    BY <1>1 DEF vars, backend, supervisor, channels, reducer
  <2> QED BY <2>1 DEF AdapterInv, Newest, PlayWaits
<1>2. CASE Next BY <1>2, MpvReads, SuperviseReads, ReduceReads DEF Next
<1> QED BY <1>1, <1>2

ReadingInv == InboxInv /\ UiInv /\ ToldInv /\ AskInv /\ AdapterInv

LEMMA InitReading == Init => ReadingInv
BY InitInbox, InitTold, InitAsks, InitReads DEF ReadingInv

LEMMA NextReading == ReadingInv /\ [Next]_vars => ReadingInv'
BY NextInbox, NextTold, NextAsks, NextReads DEF ReadingInv

LEMMA ReadingHolds == Spec => []ReadingInv
<1>1. Init => ReadingInv BY InitReading
<1>2. ReadingInv /\ [Next]_vars => ReadingInv' BY NextReading
<1> QED BY <1>1, <1>2, PTL DEF Spec

LEMMA ReadingTypes == ReadingInv => TypeOK
<1> SUFFICES ASSUME ReadingInv PROVE TypeOK
  OBVIOUS
<1> USE DEF ReadingInv
<1>1. /\ epoch \in Loads /\ MaxRequests \in Nat /\ MaxPerPass \in Nat /\ MaxPerTick \in Nat
      /\ NoLoad \in Loads
  BY ConstantsAssumption DEF InboxInv, AskInv, Loads, NoLoad
<1>2. lines \in Seq(Lines) /\ Len(lines) <= MaxLines
  <2>1. LinesTo(Newest) \subseteq Lines BY NewestIs
  <2>2. lines \in Seq(LinesTo(Newest)) BY DEF AdapterInv
  <2>3. lines \in [1..Len(lines) -> LinesTo(Newest)] /\ Len(lines) \in Nat BY <2>2
  <2>4. lines \in [1..Len(lines) -> Lines] BY <2>1, <2>3
  <2>5. lines \in Seq(Lines) BY <2>3, <2>4
  <2> QED BY <2>5 DEF AdapterInv
<1>3. jobs \in Seq([kind : {"refresh", "play", "stop", "seek", "shutdown"}, load : Loads])
  <2> DEFINE J == [kind : {"refresh", "play", "stop", "seek", "shutdown"}, load : Loads]
  <2>1. jobs \in Inbox /\ AsksFor(jobs, ui.step, epoch) BY DEF InboxInv, AskInv
  <2>2. jobs \in [1..Len(jobs) -> {Refresh} \cup Requests] /\ Len(jobs) \in Nat /\ DOMAIN jobs = 1..Len(jobs)
    BY <2>1 DEF Inbox
  <2>3. ASSUME NEW i \in 1..Len(jobs) PROVE jobs[i] \in J
    <3>1. CASE jobs[i] = Refresh BY <1>1, <3>1 DEF Refresh
    <3>2. CASE jobs[i] # Refresh
      <4>1. jobs[i].load = epoch BY <2>1, <2>2, <3>2 DEF AsksFor
      <4>2. jobs[i] \in Requests BY <2>2, <3>2
      <4> QED BY <1>1, <4>1, <4>2 DEF Requests
    <3> QED BY <3>1, <3>2
  <2> HIDE DEF J
  <2>4. jobs \in [1..Len(jobs) -> J] BY <2>2, <2>3
  <2>5. jobs \in Seq(J) BY <2>2, <2>4
  <2> QED BY <2>5 DEF J
<1>4. worker \in [step : {"none", "recv", "clear", "poll", "wake", "rearm", "status", "gone"},
                  sent : 0..MaxPerPass, processed : Loads]
  <2>1. worker \in Workers /\ worker.processed <= epoch /\ worker.sent <= MaxPerPass
    BY DEF InboxInv, AskInv, AdapterInv
  <2>2. worker.processed \in Loads /\ worker.sent \in 0..MaxPerPass
    BY <1>1, <2>1 DEF Workers, Loads
  <2> QED BY <2>1, <2>2 DEF Workers, Places
<1>5. ui \in [step : Drains \cup {"parked", "attach", "status", "playing",
                                  "commanding", "seeking", "closing"},
              phase : {"idle", "loading", "loaded", "playing"}, current : Loads, latest : Loads,
              ignore : BOOLEAN, polled : 0..MaxPerTick, failed : BOOLEAN,
              cut : BOOLEAN, dropped : BOOLEAN]
  <2>1. /\ ui \in Reducers /\ ui.current <= epoch /\ ui.latest <= epoch /\ ui.polled <= MaxPerTick
    BY DEF UiInv, AskInv
  <2>2. ui.current \in Loads /\ ui.latest \in Loads /\ ui.polled \in 0..MaxPerTick
    BY <1>1, <2>1 DEF Reducers, Loads
  <2> QED BY <2>1, <2>2 DEF Reducers, UiSteps
<1>6. {notice, pending, woken} \subseteq BOOLEAN BY DEF AdapterInv, InboxInv, UiInv
<1>7. /\ ipc.events \in Seq(LifecycleEvents) /\ Len(ipc.events) <= MaxBacklog /\ ipc.seek \in Loads
      /\ cache.input \in Loads /\ cache.ticket.input \in Loads /\ cache.ticket.expected \in Loads
  BY DEF AdapterInv, Ipcs, Backlog, Caches, Tickets
<1>8. mpv \in [alive : BOOLEAN, file : Loads, next : Loads, stop : BOOLEAN,
               stage : {"idle", "opening", "ready", "playing"}]
  BY DEF AdapterInv, Players
<1>9. /\ events \in Seq(LifecycleEvents) /\ shared \in [failure : BOOLEAN, attached : BOOLEAN]
      /\ reply \in {"none", "ok", "error"}
  BY DEF AdapterInv, UiInv, AskInv
<1> QED BY <1>2, <1>3, <1>4, <1>5, <1>6, <1>7, <1>8, <1>9 DEF TypeOK

\* Every variable of the supervision keeps its type, the queues of lines and of parsed
\* events their bounds (MAX_PENDING_EVENTS, push_event), and a pass and a tick their
\* budgets (MAX_EVENTS_PER_PASS, MAX_EVENTS_PER_TICK).
THEOREM TypesKept == Spec => []TypeOK
<1>1. ReadingInv => TypeOK BY ReadingTypes
<1> QED BY <1>1, ReadingHolds, PTL

\* A ticket that counts as current, by the number of the last request, is for the load
\* asked for last: one made by a snapshot while a newer load waits in the inbox carries
\* the older number (run, CacheExportControl::handle).
THEOREM TicketsAreLatest == Spec => []TicketIsLatest
<1>1. ReadingInv => TicketIsLatest
  <2> SUFFICES ASSUME ReadingInv, cache.ticket.valid, cache.ticket.expected = epoch
               PROVE  cache.ticket.input = ui.latest
    BY DEF TicketIsLatest
  <2> USE DEF ReadingInv
  <2>1. Runs(worker) /\ cache.ticket.input = cache.input /\ epoch <= worker.processed
    BY DEF AdapterInv
  <2>2. worker.processed \in Nat /\ epoch \in Nat BY DEF InboxInv, Workers
  <2>3. ~(worker.processed < epoch) BY <2>1, <2>2
  <2>4. ~PlayWaits /\ ui.step # "closing" BY <2>1, <2>3 DEF PlayWaits, AskInv
  <2> QED BY <2>1, <2>4 DEF AdapterInv
<1> QED BY <1>1, ReadingHolds, PTL

-----------------------------------------------------------------------------
(* Nothing is stranded *)

\* The next wake-up is on its way.
Signal == notice \/ jobs # <<>>

\* What a worker that is about to sleep leaves behind without a signal: before its last
\* status, perhaps lines; after it, none.
StrandInv ==
  worker.step \in {"status", "recv"} =>
    \/ Signal
    \/ /\ ~SeekIsDue(ipc)
       /\ ~history.failed => ipc.events = <<>> /\ (~mpv.alive => ipc.exited)
       /\ worker.step = "recv" => lines = <<>>

\* A wake-up that is rung is in the inbox, or one is there already.
LEMMA RungSignals ==
  ASSUME InboxInv, NEW ring, ring, WakeSupervisor(ring), Runs(worker), worker.step # "clear"
  PROVE  Signal'
<1>1. jobs \in Inbox /\ Coalesced(pending, jobs, worker) BY DEF InboxInv
<1>2. CASE pending
  <2>1. Waits(jobs) /\ jobs' = jobs BY <1>1, <1>2 DEF Coalesced, WakeSupervisor
  <2>2. jobs # <<>> BY <2>1 DEF Waits
  <2> QED BY <2>1, <2>2 DEF Signal
<1>3. CASE ~pending
  <2>1. jobs' = Append(jobs, Refresh) BY <1>3 DEF WakeSupervisor
  <2>2. jobs' # <<>> BY <1>1, <2>1 DEF Inbox
  <2> QED BY <2>2 DEF Signal
<1> QED BY <1>2, <1>3

LEMMA MpvStrands ==
  ASSUME InboxInv, StrandInv, Mpv \/ Notify
  PROVE  StrandInv'
<1> USE DEF supervisor
<1>1. CASE Mpv
  <2>1. notice' BY <1>1 DEF Mpv, MpvStart, MpvAbandon, MpvAdvance, MpvRedirect, MpvEnd, MpvExit,
                             Emit, StreamEnded
  <2> QED BY <2>1 DEF StrandInv, Signal
<1>2. CASE Notify
  <2> DEFINE ring == TRUE
  <2>1. WakeSupervisor(ring) /\ worker' = worker BY <1>2 DEF Notify
  <2>2. ring OBVIOUS
  <2> HIDE DEF ring
  <2>3. CASE worker.step \in {"status", "recv"}
    <3>1. Runs(worker) /\ worker.step # "clear" BY <2>3 DEF Runs
    <3>2. Signal' BY <2>1, <2>2, <3>1, RungSignals
    <3> QED BY <3>2 DEF StrandInv
  <2>4. CASE worker.step \notin {"status", "recv"} BY <2>1, <2>4 DEF StrandInv
  <2> QED BY <2>3, <2>4
<1> QED BY <1>1, <1>2

LEMMA PollStrands ==
  ASSUME InboxInv, AskInv, AdapterInv, PollEvent
  PROVE  StrandInv'
<1>0. worker.step = "poll" /\ UNCHANGED mpv /\ worker \in Workers BY DEF PollEvent, InboxInv
<1>1. PICK failed \in BOOLEAN :
        LET read == Polled(failed)
            m == [read EXCEPT !.history.failed = read.error]
        IN \/ /\ m.error \/ m.ipc.events = <<>>
              /\ Became(m)
           \/ worker' = [worker EXCEPT !.step = "wake"]
  BY DEF PollEvent
<1> DEFINE L == LinesTo(Newest)
           read == Polled(failed)
           error == read.error
           m == [read EXCEPT !.history.failed = error]
           h == [read.history EXCEPT !.failed = error]
<1>2. Adapter \in Readings(L) /\ L \subseteq Lines /\ mpv \in Players
  BY AdapterReads DEF AdapterInv
<1>3. /\ read \in Readings(L) /\ ~SeekIsDue(read.ipc)
      /\ ~read.error /\ read.ipc.events = <<>> /\ ~mpv.alive => read.ipc.exited
  BY <1>2, PolledBy
<1>4. \/ (m.error \/ m.ipc.events = <<>>) /\ Became(m)
      \/ worker' = [worker EXCEPT !.step = "wake"]
  BY <1>1
<1> HIDE DEF L, read
<1>5. read.history \in Histories /\ error \in BOOLEAN BY <1>3 DEF Readings
<1>6. h.failed = error BY <1>5 DEF Histories
<1>7. m = [read EXCEPT !.history = h] /\ read.error = error BY <1>3 DEF Readings
<1> HIDE DEF h, m, error
<1>8. m.ipc = read.ipc /\ m.history = h /\ m.error = error BY <1>3, <1>7 DEF Readings
<1>9. CASE (m.error \/ m.ipc.events = <<>>) /\ Became(m)
  <2>1. ipc' = read.ipc /\ history' = h BY <1>8, <1>9 DEF Became
  <2>2. worker'.step # "recv"
    <3>1. \/ worker' = [worker EXCEPT !.step = "status", !.sent = 0]
          \/ worker' = [worker EXCEPT !.step = "wake"]
      BY DEF PollEvent
    <3> QED BY <1>0, <3>1 DEF Workers
  <2> QED BY <1>0, <1>3, <1>5, <1>6, <1>7, <1>8, <1>9, <2>1, <2>2 DEF StrandInv
<1>10. CASE worker' = [worker EXCEPT !.step = "wake"]
  BY <1>0, <1>10 DEF StrandInv, Workers
<1> QED BY <1>4, <1>9, <1>10

LEMMA StatusStrands ==
  ASSUME InboxInv, AskInv, AdapterInv, StrandInv, PublishStatus
  PROVE  StrandInv'
<1>0. worker.step = "status" /\ UNCHANGED <<mpv, notice>> BY DEF PublishStatus
<1>1. PICK failed \in BOOLEAN :
        /\ WakeSupervisor(Status(failed).rang)
        /\ Became([Status(failed) EXCEPT
                     !.cache.ticket = Handle(Status(failed).cache, TicketEpoch)])
  BY DEF PublishStatus
<1> DEFINE L == LinesTo(Newest)
           m == Status(failed)
           c == [m.cache EXCEPT !.ticket = Handle(m.cache, TicketEpoch)]
           A == NoLoad
<1>2. /\ Adapter \in Readings(L) /\ L \subseteq Lines /\ mpv \in Players
      /\ Adapter.ipc = ipc /\ Adapter.history = history
  BY AdapterReads DEF AdapterInv
<1>3. Kept(L, Adapter, m, mpv, A) /\ (m.lines = <<>> \/ m.rang) BY <1>2, StatusBy
<1>4. WakeSupervisor(m.rang) /\ Became([m EXCEPT !.cache = c])
  <2>1. [m EXCEPT !.cache.ticket = Handle(m.cache, TicketEpoch)] = [m EXCEPT !.cache = c]
    OBVIOUS
  <2> QED BY <1>1, <2>1
<1> HIDE DEF L, m, c, A
<1>5. ipc' = m.ipc /\ lines' = m.lines /\ history' = m.history
  BY <1>3, <1>4 DEF Became, Kept, Readings
<1>6. jobs \in Inbox /\ Runs(worker) BY <1>0 DEF InboxInv, Runs
<1>7. CASE m.rang
  <2>1. Signal' BY <1>0, <1>4, <1>6, <1>7, RungSignals
  <2> QED BY <2>1 DEF StrandInv
<1>8. CASE Signal
  <2>1. jobs # <<>> => jobs' # <<>>
    <3>1. jobs' = jobs \/ jobs' = Append(jobs, Refresh) BY <1>4 DEF WakeSupervisor
    <3> QED BY <1>6, <3>1 DEF Inbox
  <2> QED BY <1>0, <1>8, <2>1 DEF StrandInv, Signal
<1>9. CASE ~m.rang /\ ~Signal
  <2>1. /\ ~SeekIsDue(ipc)
        /\ ~history.failed => ipc.events = <<>> /\ (~mpv.alive => ipc.exited)
    BY <1>0, <1>9 DEF StrandInv
  <2>2. /\ ipc'.events = ipc.events /\ (SeekIsDue(ipc') => SeekIsDue(ipc))
        /\ ipc'.exited = ipc.exited /\ history'.failed = history.failed
    BY <1>2, <1>3, <1>5, <1>9 DEF Kept, Later
  <2>3. lines' = <<>> BY <1>3, <1>5, <1>9
  <2> QED BY <1>0, <2>1, <2>2, <2>3 DEF StrandInv
<1> QED BY <1>7, <1>8, <1>9

LEMMA SuperviseStrands ==
  ASSUME InboxInv, AskInv, AdapterInv, StrandInv, Supervise
  PROVE  StrandInv'
<1>0. worker \in Workers BY DEF InboxInv
<1>1. CASE TakeRefresh BY <1>0, <1>1 DEF TakeRefresh, StrandInv, Workers
<1>2. CASE ClearPending BY <1>0, <1>2 DEF ClearPending, StrandInv, Workers
<1>3. CASE ExecutePlay \/ ExecuteStop \/ ExecuteSeek
  <2>1. Done(Head(jobs).load) BY <1>3 DEF ExecutePlay, ExecuteStop, ExecuteSeek
  <2> QED BY <1>0, <2>1 DEF Done, StrandInv, Workers
<1>4. CASE ExecuteShutdown BY <1>0, <1>4 DEF ExecuteShutdown, StrandInv, Workers
<1>5. CASE PollEvent BY <1>5, PollStrands
<1>6. CASE WakeAfterEvent
  <2> DEFINE next == IF worker.sent + 1 = MaxPerPass THEN "rearm" ELSE "poll"
             sent == worker.sent + 1
  <2>1. worker' = [worker EXCEPT !.sent = sent, !.step = next] BY <1>6 DEF WakeAfterEvent
  <2>2. next \in {"rearm", "poll"} OBVIOUS
  <2> HIDE DEF next, sent
  <2> QED BY <1>0, <2>1, <2>2 DEF StrandInv, Workers
<1>7. CASE Rearm
  <2> DEFINE ring == TRUE
  <2>1. WakeSupervisor(ring) /\ worker.step = "rearm" BY <1>7 DEF Rearm
  <2>2. ring OBVIOUS
  <2> HIDE DEF ring
  <2>3. Signal' BY <2>1, <2>2, RungSignals DEF Runs
  <2> QED BY <2>3 DEF StrandInv
<1>8. CASE PublishStatus BY <1>8, StatusStrands
<1> QED BY <1>1, <1>2, <1>3, <1>4, <1>5, <1>6, <1>7, <1>8 DEF Supervise

LEMMA ReduceStrands ==
  ASSUME InboxInv, StrandInv, Tick \/ Reduce \/ User
  PROVE  StrandInv'
<1> USE DEF backend, supervisor, channels
<1>0. jobs \in Inbox BY DEF InboxInv
<1>1. CASE StartPlayer BY <1>1 DEF StartPlayer, StrandInv, Signal
<1>2. CASE Joined BY <1>2 DEF Joined, NoWorker, StrandInv
<1>3. CASE /\ UNCHANGED <<mpv, lines, notice, ipc, history, worker>>
           /\ UNCHANGED jobs \/ \E r : jobs' = Append(jobs, r)
  <2>1. jobs # <<>> => jobs' # <<>> BY <1>0, <1>3 DEF Inbox
  <2> QED BY <1>3, <2>1 DEF StrandInv, Signal
<1>4. ASSUME NEW u, RequestPlay(u) \/ Closing(u) PROVE \E r : jobs' = Append(jobs, r)
  BY <1>4 DEF RequestPlay, Closing, Send
<1>5. CASE Tick BY <1>3, <1>5 DEF Tick
<1>6. CASE DrainEvent
  <2>1. UNCHANGED jobs \/ \E r : jobs' = Append(jobs, r)
    BY <1>4, <1>6 DEF DrainEvent, OnLoaded, OnStarted, OnReplacedStop, OnEnded, OnExited
  <2> QED BY <1>3, <1>6, <2>1 DEF DrainEvent
<1>7. CASE TooManyEvents \/ Close
  <2>1. Closing(Silent) /\ UNCHANGED <<backend, worker>>
    BY <1>7 DEF TooManyEvents, Close, UiOnly
  <2>2. \E r : jobs' = Append(jobs, r) BY <1>4, <2>1
  <2> QED BY <1>3, <2>1, <2>2
<1>8. CASE CaughtUp
  <2>1. UNCHANGED <<backend, worker>> /\ (UNCHANGED jobs \/ Send("seek", epoch))
    BY <1>8 DEF CaughtUp, UiOnly
  <2> QED BY <1>3, <2>1 DEF Send
<1>9. CASE ReadStatus \/ PlayAnswered \/ CommandAnswered \/ SeekAnswered \/ Seek
  BY <1>3, <1>9 DEF ReadStatus, PlayAnswered, CommandAnswered, SeekAnswered, Seek, UiOnly
<1>10. CASE ApplyStatus
  <2>1. UNCHANGED <<backend, worker>> /\ (UNCHANGED jobs \/ Closing(Silent))
    BY <1>10 DEF ApplyStatus, UiOnly
  <2> QED BY <1>3, <1>4, <2>1
<1>11. CASE AttachWaker \/ Play
  <2>1. UNCHANGED <<backend, worker>> /\ RequestPlay(ui)
    BY <1>11 DEF AttachWaker, Play, UiOnly
  <2> QED BY <1>3, <1>4, <2>1
<1>12. CASE Stop
  <2>1. UNCHANGED <<backend, worker>> /\ Send("stop", epoch + 1) BY <1>12 DEF Stop, UiOnly
  <2> QED BY <1>3, <2>1 DEF Send
<1> QED BY <1>1, <1>2, <1>5, <1>6, <1>7, <1>8, <1>9, <1>10, <1>11, <1>12 DEF Reduce, User

LEMMA InitStrands == Init => StrandInv
BY DEF Init, NoWorker, StrandInv

LEMMA NextStrands == ReadingInv /\ StrandInv /\ [Next]_vars => StrandInv'
<1> SUFFICES ASSUME ReadingInv, StrandInv, [Next]_vars PROVE StrandInv'
  OBVIOUS
<1>1. CASE UNCHANGED vars
  BY <1>1 DEF vars, backend, supervisor, StrandInv, Signal
<1>2. CASE Next
  BY <1>2, MpvStrands, SuperviseStrands, ReduceStrands DEF Next, ReadingInv
<1> QED BY <1>1, <1>2

\* A supervisor that sleeps, no signal on its way, has parsed every line, has no seek
\* due, and has forwarded every event and the exit, unless its last poll failed: lines
\* that come between its last read and its sleep ring, an operation that parses events
\* rings, and so do a full drain and a full pass (drain_ready, push_event, run).
THEOREM NothingIsStranded == Spec => []NothingStranded
<1>1. Init => StrandInv BY InitStrands
<1>2. ReadingInv /\ StrandInv /\ [Next]_vars => StrandInv' BY NextStrands
<1>3. StrandInv => NothingStranded BY DEF StrandInv, NothingStranded, Signal
<1> QED BY <1>1, <1>2, <1>3, ReadingHolds, PTL DEF Spec

-----------------------------------------------------------------------------
(* Seeks reach their loads *)

\* The load that the reducer's next seek is for.
Aim == IF ui.step = "playing" /\ reply = "ok" THEN ui.latest ELSE ui.current

\* The lines that do not begin A, unless the player p has it open.
Before(p, A) == {line \in Lines : line.kind = "start" /\ line.load = A => In(p.file, A)}

\* All that can still be sought in is A: what the reducer aims at, what mpv was told to
\* play next, the seek that is retained and the load it is retained for.
SeeksFor(A) ==
  /\ In(Aim, A) /\ In(mpv.next, A) /\ Aligned(mpv, Adapter, A)
  /\ mpv.alive /\ ipc.accepted /\ ~history.crossed => lines \in Seq(Before(mpv, A))

SeekInv ==
  /\ SeekReachesItsLoad
  /\ history.crossed \/ ~mpv.alive \/ \E A \in Loads : SeeksFor(A)

LEMMA WiderQueue ==
  ASSUME NEW S, NEW T, S \subseteq T, NEW q \in Seq(S)
  PROVE  q \in Seq(T)
<1>1. q \in [1..Len(q) -> S] /\ Len(q) \in Nat OBVIOUS
<1>2. q \in [1..Len(q) -> T] BY <1>1
<1> QED BY <1>1, <1>2

\* The lines as an operation that seeks in A sees them.
Queue(A) == IF mpv.alive /\ ipc.accepted /\ ~history.crossed THEN Before(mpv, A) ELSE Lines

LEMMA QueueIs ==
  ASSUME InboxInv, AskInv, AdapterInv, SeekInv, NEW A,
         history.crossed \/ ~mpv.alive \/ SeeksFor(A)
  PROVE  /\ Adapter \in Readings(Queue(A)) /\ Queue(A) \subseteq Lines
         /\ Adapter.ipc = ipc /\ Adapter.cache = cache /\ Adapter.lines = lines
         /\ Adapter.history = history
         /\ NoneYet(Queue(A), mpv, Adapter, A) /\ Aligned(mpv, Adapter, A)
         /\ Aligned(NoMpv, Adapter, A)
<1>1. lines \in Seq(Lines)
  <2>1. LinesTo(Newest) \subseteq Lines /\ lines \in Seq(LinesTo(Newest))
    BY NewestIs DEF AdapterInv
  <2> QED BY <2>1, WiderQueue
<1>2. lines \in Seq(Queue(A)) BY <1>1 DEF Queue, SeeksFor
<1>3. Queue(A) \subseteq Lines BY DEF Queue, Before
<1>4. /\ Adapter \in Readings(Queue(A)) /\ Adapter.ipc = ipc /\ Adapter.cache = cache
      /\ Adapter.lines = lines /\ Adapter.history = history
  BY <1>2, AdapterTyped DEF AdapterInv
<1>5. NoneYet(Queue(A), mpv, Adapter, A) BY <1>4 DEF NoneYet, Begun, Queue, Before
<1>6. Aligned(mpv, Adapter, A)
  <2>1. CASE SeeksFor(A) BY <2>1 DEF SeeksFor
  <2>2. CASE history.crossed \/ ~mpv.alive
    BY <1>4, <2>2 DEF Aligned, SeekInv, SeekReachesItsLoad
  <2> QED BY <2>1, <2>2
<1>7. Aligned(NoMpv, Adapter, A)
  BY <1>4 DEF Aligned, SeekInv, SeekReachesItsLoad, NoMpv, IdleMpv
<1> QED BY <1>3, <1>4, <1>5, <1>6, <1>7

\* What an operation that seeks for A has to show.
LEMMA ServedSeeks ==
  ASSUME InboxInv, AskInv, AdapterInv, SeekInv, NEW A \in Loads,
         history.crossed \/ ~mpv.alive \/ SeeksFor(A),
         mpv'.alive = mpv.alive, mpv'.file = mpv.file, mpv'.next \in {mpv.next, NoLoad},
         Aim' = Aim,
         NEW r \in Readings(Queue(A)), Aligned(mpv', r, A),
         r.history.crossed \/ ~history.crossed, r.ipc.accepted => ipc.accepted,
         ipc'.seek = r.ipc.seek, ipc'.accepted = r.ipc.accepted, ipc'.loading = r.ipc.loading,
         cache'.input = r.cache.input, lines' = r.lines,
         history'.sought = r.history.sought, history'.reached = r.history.reached,
         history'.crossed = r.history.crossed
  PROVE  SeekInv'
<1>1. Aligned(mpv', Adapter', A) BY DEF Aligned, Adapter, Reading
<1>2. SeekReachesItsLoad' BY DEF Aligned, SeekReachesItsLoad
<1>3. CASE history'.crossed \/ ~mpv'.alive BY <1>2, <1>3 DEF SeekInv
<1>4. CASE ~(history'.crossed \/ ~mpv'.alive)
  <2>1. SeeksFor(A) BY <1>4
  <2>2. In(Aim', A) /\ In(mpv'.next, A) BY <2>1 DEF SeeksFor, In
  <2>3. ASSUME ipc'.accepted PROVE lines' \in Seq(Before(mpv', A))
    <3>1. Queue(A) = Before(mpv, A) BY <1>4, <2>3 DEF Queue
    <3>2. Before(mpv', A) = Before(mpv, A) BY DEF Before
    <3>3. r.lines \in Seq(Queue(A)) BY DEF Readings
    <3> QED BY <3>1, <3>2, <3>3
  <2>4. SeeksFor(A)' BY <1>1, <2>2, <2>3 DEF SeeksFor
  <2> QED BY <1>2, <2>4 DEF SeekInv
<1> QED BY <1>3, <1>4

LEMMA LoadsTyped ==
  ASSUME InboxInv, UiInv, AskInv
  PROVE  ui.current \in Loads /\ Aim \in Loads /\ NoLoad \in Loads
BY ConstantsAssumption DEF UiInv, Reducers, AskInv, Loads, InboxInv, Aim, NoLoad

\* Some load to seek for: any one, when it does not matter any more.
LEMMA SomeLoad ==
  ASSUME InboxInv, UiInv, AskInv, SeekInv
  PROVE  \E A \in Loads : history.crossed \/ ~mpv.alive \/ SeeksFor(A)
BY LoadsTyped DEF SeekInv

\* A line of mpv, when it moved to what is sought for or did not begin anything.
LEMMA EmitSeeks ==
  ASSUME InboxInv, AskInv, AdapterInv, SeekInv, NEW kind, NEW load, Emit(kind, load), AdapterInv',
         AskInv', InboxInv', mpv'.alive = mpv.alive,
         \/ /\ mpv'.file = mpv.file /\ mpv'.next = mpv.next /\ mpv'.stop = mpv.stop
            /\ kind # "start"
         \/ \A A \in Loads : SeeksFor(A) /\ ~history.crossed
                             => In(mpv'.file, A) /\ In(mpv'.next, A)
  PROVE  SeekInv'
<1> USE DEF supervisor, reducer, channels
<1> DEFINE line == [kind |-> kind, load |-> load]
<1>1. /\ lines' = Append(lines, line) /\ UNCHANGED <<ipc, cache, history, ui, reply>>
  BY DEF Emit
<1>2. SeekReachesItsLoad' BY <1>1 DEF SeekInv, SeekReachesItsLoad
<1>3. CASE history.crossed \/ ~mpv.alive BY <1>1, <1>2, <1>3 DEF SeekInv
<1>4. CASE ~(history.crossed \/ ~mpv.alive)
  <2>1. PICK A \in Loads : SeeksFor(A) BY <1>4 DEF SeekInv
  <2>2. lines' \in Seq(Lines)
    <3>1. (LinesTo(Newest) \subseteq Lines)' BY NewestIs, PTL
    <3>2. lines' \in Seq(LinesTo(Newest)') BY DEF AdapterInv
    <3> QED BY <3>1, <3>2, WiderQueue
  <2>3. Aim' = Aim BY <1>1 DEF Aim
  <2>4. /\ history.sought = history.reached /\ In(ipc.seek, A)
        /\ ipc.accepted => A = cache.input /\ A # NoLoad
        /\ \/ In(mpv.file, A)
           \/ ipc.accepted /\ (mpv.stop \/ (ipc.loading /\ mpv.next = A))
    BY <1>4, <2>1 DEF SeeksFor, Aligned, Adapter, Reading
  <2>5. CASE In(mpv'.file, A) /\ In(mpv'.next, A)
    <3>1. Before(mpv', A) = Lines BY <2>5 DEF Before
    <3>2. Aligned(mpv', Adapter', A) BY <1>1, <2>4, <2>5 DEF Aligned, Adapter, Reading
    <3>3. SeeksFor(A)' BY <2>1, <2>2, <2>3, <2>5, <3>1, <3>2 DEF SeeksFor
    <3> QED BY <1>2, <2>1, <3>3 DEF SeekInv
  <2>6. CASE /\ mpv'.file = mpv.file /\ mpv'.next = mpv.next /\ mpv'.stop = mpv.stop
             /\ kind # "start"
    <3>1. Aligned(mpv', Adapter', A) BY <1>1, <2>4, <2>6 DEF Aligned, Adapter, Reading
    <3>2. ASSUME ipc'.accepted PROVE lines' \in Seq(Before(mpv', A))
      <4>1. lines \in Seq(Before(mpv, A)) BY <1>1, <1>4, <2>1, <3>2 DEF SeeksFor
      <4>2. Before(mpv', A) = Before(mpv, A) BY <2>6 DEF Before
      <4>3. line \in Lines
        <5>1. Len(lines) \in Nat BY DEF AdapterInv
        <5>2. lines'[Len(lines) + 1] = line /\ Len(lines') = Len(lines) + 1
          BY <1>1, <4>1
        <5> QED BY <2>2, <5>1, <5>2
      <4>4. line \in Before(mpv, A) BY <2>6, <4>3 DEF Before
      <4> HIDE DEF line
      <4> QED BY <1>1, <4>1, <4>2, <4>4
    <3>3. In(Aim', A) /\ In(mpv'.next, A) BY <2>1, <2>3, <2>6 DEF SeeksFor
    <3>4. SeeksFor(A)' BY <3>1, <3>2, <3>3 DEF SeeksFor
    <3> QED BY <1>2, <2>1, <3>4 DEF SeekInv
  <2> QED BY <1>4, <2>1, <2>5, <2>6
<1> QED BY <1>3, <1>4

\* What mpv moves to was told to it; only a load that nothing overtakes is redirected.
LEMMA MpvSeeks ==
  ASSUME InboxInv, AskInv, AdapterInv, SeekInv, Mpv \/ Notify, AdapterInv', AskInv', InboxInv'
  PROVE  SeekInv'
<1> USE DEF supervisor, reducer, channels
<1>0. mpv \in Players BY DEF AdapterInv
<1>1. CASE MpvStart
  <2>1. /\ Emit("start", mpv.next) /\ mpv'.alive = mpv.alive
        /\ mpv'.file = mpv.next /\ mpv'.next = NoLoad
    BY <1>0, <1>1 DEF MpvStart, Players
  <2>2. \A A \in Loads : SeeksFor(A) => In(mpv'.file, A) /\ In(mpv'.next, A)
    BY <2>1 DEF SeeksFor, In
  <2> QED BY <2>1, <2>2, EmitSeeks
<1>2. CASE MpvAbandon
  <2>1. /\ Emit("stop", mpv.file) /\ mpv'.alive = mpv.alive
        /\ mpv'.file = NoLoad /\ mpv'.next = mpv.next
    BY <1>0, <1>2 DEF MpvAbandon, Players
  <2>2. \A A \in Loads : SeeksFor(A) => In(mpv'.file, A) /\ In(mpv'.next, A)
    BY <2>1 DEF SeeksFor, In
  <2> QED BY <2>1, <2>2, EmitSeeks
<1>3. CASE MpvAdvance
  <2>1. PICK kind \in {"loaded", "restart"}, stage \in {"ready", "playing"} :
          Emit(kind, mpv.file) /\ mpv' = [mpv EXCEPT !.stage = stage]
    BY <1>3 DEF MpvAdvance
  <2>2. /\ mpv'.alive = mpv.alive /\ mpv'.file = mpv.file /\ mpv'.next = mpv.next
        /\ mpv'.stop = mpv.stop
    BY <1>0, <2>1 DEF Players
  <2>3. kind # "start" OBVIOUS
  <2> QED BY <2>1, <2>2, <2>3, EmitSeeks
<1>4. CASE MpvRedirect
  <2>1. /\ mpv.alive /\ mpv.next = NoLoad /\ ~mpv.stop /\ Emit("redirect", mpv.file)
        /\ mpv'.alive = mpv.alive /\ mpv'.file = NoLoad /\ mpv'.next = mpv.file
    BY <1>0, <1>4 DEF MpvRedirect, Players
  <2>2. ASSUME NEW A \in Loads, SeeksFor(A), ~history.crossed
        PROVE  In(mpv'.file, A) /\ In(mpv'.next, A)
    <3>1. /\ ipc.accepted => A # NoLoad
          /\ \/ In(mpv.file, A)
             \/ ipc.accepted /\ (mpv.stop \/ (ipc.loading /\ mpv.next = A))
      BY <2>1, <2>2 DEF SeeksFor, Aligned, Adapter, Reading
    <3> QED BY <2>1, <3>1 DEF In
  <2> QED BY <2>1, <2>2, EmitSeeks
<1>5. CASE MpvEnd
  <2>1. PICK kind : Emit(kind, mpv.file) BY <1>5 DEF MpvEnd
  <2>2. /\ mpv'.alive = mpv.alive /\ mpv'.file = NoLoad /\ mpv'.next = mpv.next
    BY <1>0, <1>5 DEF MpvEnd, Players
  <2>3. \A A \in Loads : SeeksFor(A) => In(mpv'.file, A) /\ In(mpv'.next, A)
    BY <2>2 DEF SeeksFor, In
  <2> QED BY <2>1, <2>2, <2>3, EmitSeeks
<1>6. CASE MpvExit
  <2>1. ~mpv'.alive /\ UNCHANGED history BY <1>6 DEF MpvExit, NoMpv, IdleMpv
  <2> QED BY <2>1 DEF SeekInv, SeekReachesItsLoad
<1>7. CASE Notify
  <2>1. UNCHANGED <<mpv, lines, ipc, cache, history, ui, reply>> BY <1>7 DEF Notify
  <2> QED BY <2>1 DEF SeekInv, SeekReachesItsLoad, SeeksFor, Aim, Adapter, Reading, Before
<1> QED BY <1>1, <1>2, <1>3, <1>4, <1>5, <1>6, <1>7 DEF Mpv

\* What a request of the reducer is answered with moves no aim but a load's.
LEMMA TookAim ==
  ASSUME InboxInv, AskInv, NEW kind \in {"play", "stop", "seek"}, Take(kind),
         UNCHANGED <<ui, epoch>>
  PROVE  /\ Aim = ui.current /\ Head(jobs).load = epoch
         /\ Aim' = IF kind = "play" /\ reply' = "ok" THEN ui.latest ELSE ui.current
         /\ kind = "seek" => ui.current # NoLoad
<1>1. Asked(jobs) /\ Fits(kind, ui.step) /\ Head(jobs).load = epoch BY TookAsks
<1> QED BY <1>1 DEF Aim, Fits, AskInv

LEMMA PlaySeeks ==
  ASSUME InboxInv, UiInv, AskInv, AdapterInv, SeekInv, ExecutePlay
  PROVE  SeekInv'
<1> USE DEF reducer
<1>0. Take("play") /\ UNCHANGED <<ui, epoch>> BY DEF ExecutePlay
<1> DEFINE load == Head(jobs).load
<1>1. PICK failed \in BOOLEAN, late \in BOOLEAN :
        /\ late => failed
        /\ Became([Loading(load, failed) EXCEPT
                     !.history.crossed = @ \/ late \/ (failed /\ ipc.accepted)])
        /\ TookAndRang(Loading(load, failed)) /\ Answer(Loading(load, failed))
        /\ Done(load)
        /\ mpv' = IF mpv.alive /\ (failed => late) THEN [mpv EXCEPT !.next = load] ELSE mpv
  BY DEF ExecutePlay
<1>2. /\ load = epoch /\ epoch \in Loads /\ Newest = epoch - 1 /\ ui.latest = epoch
      /\ epoch # NoLoad
  BY <1>0, <1>1, ExecutedNewest
<1> DEFINE L == LinesTo(Newest)
           m == Loading(load, failed)
           crossed == m.history.crossed \/ late \/ (failed /\ ipc.accepted)
           h == [m.history EXCEPT !.crossed = crossed]
<1>3. /\ Adapter \in Readings(L) /\ L \subseteq Lines /\ mpv \in Players
      /\ Adapter.history = history
  BY AdapterReads DEF AdapterInv
<1>4. Aligned(NoMpv, Adapter, load)
  BY <1>3 DEF Aligned, SeekInv, SeekReachesItsLoad, NoMpv, IdleMpv
<1>5. /\ m \in Readings(L) /\ m.cache.input = load /\ Len(m.lines) <= Len(Adapter.lines)
      /\ m.error <=> failed \/ ~mpv.alive
      /\ m.error => ~m.ipc.accepted /\ m.ipc.seek = NoLoad
      /\ history.crossed => m.history.crossed
      /\ Aligned(NoMpv, m, load)
      /\ ~m.error /\ load # NoLoad /\ Begun(L, mpv', load) /\ mpv'.next = load
         => Aligned(mpv', m, load)
  BY <1>2, <1>3, <1>4, LoadingBy
<1>6. /\ ipc' = m.ipc /\ cache' = m.cache /\ lines' = m.lines /\ history' = h
  <2>1. Became([m EXCEPT !.history.crossed = crossed]) BY <1>1
  <2> HIDE DEF crossed, m
  <2>2. [m EXCEPT !.history.crossed = crossed] = [m EXCEPT !.history = h] OBVIOUS
  <2> HIDE DEF h
  <2> QED BY <1>5, <2>1, <2>2 DEF Became, Readings
<1>7. reply' = IF m.error THEN "error" ELSE "ok" BY <1>1 DEF Answer
<1> HIDE DEF L, m
<1>8. m.history \in Histories /\ m.lines \in Seq(L) /\ m.ipc \in Ipcs BY <1>5 DEF Readings
<1>9. /\ h.sought = m.history.sought /\ h.reached = m.history.reached
      /\ h.crossed <=> m.history.crossed \/ late \/ (failed /\ ipc.accepted)
  BY <1>8 DEF Histories
<1> HIDE DEF h, crossed
<1>10. SeekReachesItsLoad'
  BY <1>5, <1>6, <1>9 DEF Aligned, SeekReachesItsLoad, NoMpv, IdleMpv
<1>11. Aim = ui.current /\ Aim' = IF reply' = "ok" THEN ui.latest ELSE ui.current
  BY <1>0, TookAim
<1>12. CASE history'.crossed \/ ~mpv'.alive BY <1>10, <1>12 DEF SeekInv
<1>13. CASE ~(history'.crossed \/ ~mpv'.alive)
  <2>1. /\ mpv.alive /\ ~late /\ ~(failed /\ ipc.accepted) /\ ~history.crossed
        /\ ~m.history.crossed
    BY <1>1, <1>3, <1>5, <1>6, <1>9, <1>13 DEF Players
  <2>2. CASE ~failed
    <3>1. mpv' = [mpv EXCEPT !.next = load] /\ ~m.error BY <1>1, <1>5, <2>1, <2>2
    <3>2. mpv'.next = load /\ mpv'.file = mpv.file BY <1>3, <3>1 DEF Players
    <3>3. \A line \in L : line.load \in Int /\ line.load <= epoch - 1
      BY <1>2 DEF L, LinesTo, Lines, Loads
    <3>4. epoch \in Int BY DEF InboxInv
    <3>5. \A line \in L : line.load # load BY <1>2, <3>3, <3>4
    <3>6. Begun(L, mpv', load) BY <3>5 DEF Begun
    <3>7. Aligned(mpv', m, load) BY <1>2, <1>5, <3>1, <3>2, <3>6
    <3>8. Aligned(mpv', Adapter', load)
      BY <1>6, <1>9, <1>13, <2>1, <3>7 DEF Aligned, Adapter, Reading
    <3>9. L \subseteq Before(mpv', load) BY <1>3, <3>5 DEF Before
    <3>10. lines' \in Seq(Before(mpv', load)) BY <1>6, <1>8, <3>9, WiderQueue
    <3>11. In(Aim', load) /\ In(mpv'.next, load) BY <1>2, <1>7, <1>11, <3>1, <3>2 DEF In
    <3>12. PICK A \in Loads : A = load BY <1>2
    <3>13. SeeksFor(A)' BY <3>8, <3>10, <3>11, <3>12 DEF SeeksFor
    <3> QED BY <1>10, <3>13 DEF SeekInv
  <2>3. CASE failed
    <3>1. mpv' = mpv /\ m.error /\ ~ipc.accepted BY <1>1, <1>5, <2>1, <2>3
    <3>2. PICK A \in Loads : SeeksFor(A) BY <2>1 DEF SeekInv
    <3>3. In(mpv.file, A) /\ In(mpv.next, A) /\ In(Aim, A)
      BY <2>1, <3>1, <3>2 DEF SeeksFor, Aligned, Adapter, Reading
    <3>4. ~ipc'.accepted /\ ipc'.seek = NoLoad BY <1>5, <1>6, <3>1
    <3>5. Aligned(mpv', Adapter', A)
      BY <1>10, <3>1, <3>3, <3>4 DEF Aligned, Adapter, Reading, SeekReachesItsLoad, In
    <3>6. Aim' = Aim BY <1>7, <1>11, <3>1
    <3>7. SeeksFor(A)' BY <3>1, <3>3, <3>4, <3>5, <3>6 DEF SeeksFor
    <3> QED BY <1>10, <3>2, <3>7 DEF SeekInv
  <2> QED BY <2>2, <2>3
<1> QED BY <1>12, <1>13

LEMMA StopSeeks ==
  ASSUME InboxInv, UiInv, AskInv, AdapterInv, SeekInv, ExecuteStop
  PROVE  SeekInv'
<1> USE DEF reducer
<1>0. Take("stop") /\ UNCHANGED <<ui, epoch>> BY DEF ExecuteStop
<1>1. PICK failed \in BOOLEAN :
        /\ Answer(Stopping(failed))
        /\ Became([Stopping(failed) EXCEPT !.history.crossed = @ \/ (failed /\ ipc.accepted)])
        /\ mpv' = IF Stopping(failed).error THEN mpv
                  ELSE [mpv EXCEPT !.next = NoLoad, !.stop = mpv.file # NoLoad]
  BY DEF ExecuteStop
<1>2. PICK A \in Loads : history.crossed \/ ~mpv.alive \/ SeeksFor(A) BY SomeLoad
<1> DEFINE L == Queue(A)
           m == Stopping(failed)
           crossed == m.history.crossed \/ (failed /\ ipc.accepted)
           h == [m.history EXCEPT !.crossed = crossed]
<1>3. /\ Adapter \in Readings(L) /\ L \subseteq Lines
      /\ Adapter.ipc = ipc /\ Adapter.cache = cache /\ Adapter.history = history
      /\ NoneYet(L, mpv, Adapter, A) /\ Aligned(mpv, Adapter, A) /\ Aligned(NoMpv, Adapter, A)
  BY <1>2, QueueIs
<1>4. mpv \in Players BY DEF AdapterInv
<1>5. ASSUME NEW p, NoneYet(L, p, Adapter, A),
             \/ Adapter.history.crossed
             \/ ~p.alive
             \/ /\ Adapter.ipc.accepted => A = Adapter.cache.input /\ A # NoLoad
                /\ In(p.file, A) \/ (Adapter.ipc.accepted /\ p.stop)
      PROVE  Aligned(p, m, A)
  <2> HIDE DEF L
  <2> QED BY <1>3, <1>4, <1>5, StoppingBy
<1>6. /\ m \in Readings(L) /\ (m.error <=> failed \/ ~mpv.alive)
      /\ m.ipc.accepted => ipc.accepted
      /\ history.crossed => m.history.crossed
  <2> HIDE DEF L
  <2> QED BY <1>3, <1>4, StoppingBy
<1>7. /\ ipc' = m.ipc /\ cache' = m.cache /\ lines' = m.lines /\ history' = h
  <2>1. Became([m EXCEPT !.history.crossed = crossed]) BY <1>1
  <2> HIDE DEF crossed, m, L
  <2>2. [m EXCEPT !.history.crossed = crossed] = [m EXCEPT !.history = h] OBVIOUS
  <2> HIDE DEF h
  <2> QED BY <1>6, <2>1, <2>2 DEF Became, Readings
<1> DEFINE stop == mpv.file # NoLoad
<1>8. mpv' = IF m.error THEN mpv ELSE [mpv EXCEPT !.next = NoLoad, !.stop = stop] BY <1>1
<1> HIDE DEF L, m
<1>9. m.history \in Histories BY <1>6 DEF Readings
<1>10. /\ h.sought = m.history.sought /\ h.reached = m.history.reached
       /\ h.crossed <=> m.history.crossed \/ (failed /\ ipc.accepted)
  BY <1>9 DEF Histories
<1> HIDE DEF h, crossed
<1>11. /\ mpv'.alive = mpv.alive /\ mpv'.file = mpv.file /\ mpv'.next \in {mpv.next, NoLoad}
       /\ mpv'.stop = IF m.error THEN mpv.stop ELSE stop
  BY <1>4, <1>8 DEF Players
<1>12. Aligned(mpv', m, A) \/ (failed /\ ipc.accepted)
  <2>1. NoneYet(L, mpv', Adapter, A) BY <1>3, <1>11 DEF NoneYet, Begun
  <2>2. CASE history.crossed \/ ~mpv.alive BY <1>3, <1>5, <1>11, <2>1, <2>2
  <2>3. CASE ~(history.crossed \/ ~mpv.alive) /\ ~(failed /\ ipc.accepted)
    <3>1. /\ ipc.accepted => A = cache.input /\ A # NoLoad
          /\ In(mpv.file, A) \/ ipc.accepted
      BY <1>3, <2>3 DEF Aligned
    <3>2. ipc.accepted /\ ~stop => In(mpv.file, A) BY DEF In
    <3>3. In(mpv'.file, A) \/ (ipc.accepted /\ mpv'.stop)
      BY <1>6, <1>11, <2>3, <3>1, <3>2
    <3> QED BY <1>3, <1>5, <2>1, <3>1, <3>3
  <2> QED BY <2>2, <2>3
<1>13. Aim' = Aim BY <1>0, TookAim
<1>14. CASE failed /\ ipc.accepted
  BY <1>7, <1>10, <1>14 DEF SeekInv, SeekReachesItsLoad
<1>15. CASE ~(failed /\ ipc.accepted)
  <2>1. Aligned(mpv', m, A) BY <1>12, <1>15
  <2>2. history'.crossed = m.history.crossed
    <3>1. m.history.crossed \in BOOLEAN /\ h.crossed \in BOOLEAN BY <1>9 DEF Histories, h, crossed
    <3> QED BY <1>7, <1>10, <1>15, <3>1
  <2> QED BY <1>2, <1>6, <1>7, <1>10, <1>11, <1>13, <2>1, <2>2, ServedSeeks DEF L
<1> QED BY <1>14, <1>15

LEMMA SeekSeeks ==
  ASSUME InboxInv, UiInv, AskInv, AdapterInv, SeekInv, ExecuteSeek
  PROVE  SeekInv'
<1> USE DEF reducer
<1>0. Take("seek") /\ UNCHANGED <<mpv, ui, epoch>> BY DEF ExecuteSeek
<1> DEFINE A == ui.current
<1>1. PICK failed \in BOOLEAN : Became(Seeking(A, failed)) BY DEF ExecuteSeek, MayFail
<1>2. Aim = A /\ Aim' = A /\ A # NoLoad BY <1>0, TookAim
<1>3. A \in Loads BY LoadsTyped
<1>4. history.crossed \/ ~mpv.alive \/ SeeksFor(A) BY <1>2 DEF SeekInv, SeeksFor, In
<1> DEFINE L == Queue(A)
           m == Seeking(A, failed)
<1> HIDE DEF A
<1>5. /\ Adapter \in Readings(L) /\ L \subseteq Lines
      /\ Adapter.ipc = ipc /\ Adapter.cache = cache /\ Adapter.history = history
      /\ NoneYet(L, mpv, Adapter, A) /\ Aligned(mpv, Adapter, A)
  BY <1>4, QueueIs
<1>6. mpv \in Players BY DEF AdapterInv
<1>7. /\ m \in Readings(L) /\ Aligned(mpv, m, A)
      /\ m.ipc.accepted => ipc.accepted
      /\ history.crossed => m.history.crossed
  <2> HIDE DEF L
  <2> QED BY <1>3, <1>5, <1>6, SeekingBy
<1>8. ipc' = m.ipc /\ cache' = m.cache /\ lines' = m.lines /\ history' = m.history
  BY <1>1 DEF Became
<1> HIDE DEF m
<1> QED BY <1>0, <1>2, <1>3, <1>4, <1>7, <1>8, ServedSeeks

\* A poll leaves the adapter as it was read, less the event it forwards.
LEMMA PolledOnce ==
  ASSUME PollEvent
  PROVE  \E failed \in BOOLEAN :
           LET read == Polled(failed)
               m == [read EXCEPT !.history.failed = read.error]
           IN Became(m) \/ Became([m EXCEPT !.ipc.events = Tail(@)])
BY ZenonT(30) DEF PollEvent

LEMMA PollSeeks ==
  ASSUME InboxInv, UiInv, AskInv, AdapterInv, SeekInv, PollEvent
  PROVE  SeekInv'
<1> USE DEF reducer
<1>0. UNCHANGED <<mpv, ui, reply>> BY DEF PollEvent
<1>1. PICK failed \in BOOLEAN :
        LET read == Polled(failed)
            m == [read EXCEPT !.history.failed = read.error]
        IN Became(m) \/ Became([m EXCEPT !.ipc.events = Tail(@)])
  BY PolledOnce, ZenonT(30)
<1>2. PICK A \in Loads : history.crossed \/ ~mpv.alive \/ SeeksFor(A) BY SomeLoad
<1> DEFINE L == Queue(A)
           read == Polled(failed)
           error == read.error
           rest == Tail(read.ipc.events)
           m == [read EXCEPT !.history.failed = error]
           h == [read.history EXCEPT !.failed = error]
           i == [read.ipc EXCEPT !.events = rest]
<1>3. /\ Adapter \in Readings(L) /\ L \subseteq Lines
      /\ Adapter.ipc = ipc /\ Adapter.cache = cache /\ Adapter.history = history
      /\ NoneYet(L, mpv, Adapter, A) /\ Aligned(mpv, Adapter, A)
  BY <1>2, QueueIs
<1>4. mpv \in Players BY DEF AdapterInv
<1>5. /\ read \in Readings(L) /\ Aligned(mpv, read, A)
      /\ read.ipc.accepted => ipc.accepted
      /\ history.crossed => read.history.crossed
  <2> HIDE DEF L
  <2> QED BY <1>3, <1>4, PolledBy
<1>6. Became(m) \/ Became([m EXCEPT !.ipc.events = rest])
  <2>1. m.ipc = read.ipc OBVIOUS
  <2> QED BY <1>1
<1> HIDE DEF L, read, error, rest
<1>7. read.ipc \in Ipcs /\ read.history \in Histories BY <1>5 DEF Readings
<1>8. /\ h.sought = read.history.sought /\ h.reached = read.history.reached
      /\ h.crossed = read.history.crossed
      /\ i.seek = read.ipc.seek /\ i.accepted = read.ipc.accepted
      /\ i.loading = read.ipc.loading
  BY <1>7 DEF Histories, Ipcs
<1>9. m = [read EXCEPT !.history = h] BY <1>5 DEF Readings
<1>10. [m EXCEPT !.ipc.events = rest] = [read EXCEPT !.history = h, !.ipc = i]
  BY <1>5 DEF Readings
<1> HIDE DEF h, m, i
<1>11. /\ ipc' \in {read.ipc, i} /\ cache' = read.cache /\ lines' = read.lines /\ history' = h
  <2>1. CASE Became(m) BY <1>5, <1>9, <2>1 DEF Became, Readings
  <2>2. CASE Became([m EXCEPT !.ipc.events = rest])
    BY <1>5, <1>10, <2>2 DEF Became, Readings
  <2> QED BY <1>6, <2>1, <2>2
<1>12. Aim' = Aim BY <1>0 DEF Aim
<1>13. /\ ipc'.seek = read.ipc.seek /\ ipc'.accepted = read.ipc.accepted
       /\ ipc'.loading = read.ipc.loading
       /\ cache'.input = read.cache.input /\ lines' = read.lines
       /\ history'.sought = read.history.sought /\ history'.reached = read.history.reached
       /\ history'.crossed = read.history.crossed
  BY <1>8, <1>11
<1> QED BY <1>0, <1>2, <1>5, <1>12, <1>13, ServedSeeks DEF L

LEMMA StatusSeeks ==
  ASSUME InboxInv, UiInv, AskInv, AdapterInv, SeekInv, PublishStatus
  PROVE  SeekInv'
<1> USE DEF reducer
<1>0. UNCHANGED <<mpv, ui, reply>> BY DEF PublishStatus
<1>1. PICK failed \in BOOLEAN :
        Became([Status(failed) EXCEPT
                  !.cache.ticket = Handle(Status(failed).cache, TicketEpoch)])
  BY DEF PublishStatus
<1>2. PICK A \in Loads : history.crossed \/ ~mpv.alive \/ SeeksFor(A) BY SomeLoad
<1> DEFINE L == Queue(A)
           m == Status(failed)
           ticket == Handle(m.cache, TicketEpoch)
           c == [m.cache EXCEPT !.ticket = ticket]
<1>3. /\ Adapter \in Readings(L) /\ L \subseteq Lines
      /\ Adapter.ipc = ipc /\ Adapter.cache = cache /\ Adapter.history = history
      /\ NoneYet(L, mpv, Adapter, A) /\ Aligned(mpv, Adapter, A)
  BY <1>2, QueueIs
<1>4. mpv \in Players BY DEF AdapterInv
<1>5. /\ m \in Readings(L) /\ Aligned(mpv, m, A)
      /\ m.ipc.accepted => ipc.accepted
      /\ history.crossed => m.history.crossed
  <2> HIDE DEF L
  <2>1. Kept(L, Adapter, m, mpv, A) BY <1>3, <1>4, StatusBy
  <2> QED BY <1>3, <2>1 DEF Kept, Later
<1>6. Became([m EXCEPT !.cache.ticket = ticket]) BY <1>1
<1> HIDE DEF L, m, ticket
<1>7. [m EXCEPT !.cache.ticket = ticket] = [m EXCEPT !.cache = c] OBVIOUS
<1>8. m.cache \in Caches BY <1>5 DEF Readings
<1>9. c.input = m.cache.input BY <1>8 DEF Caches
<1> HIDE DEF c
<1>10. ipc' = m.ipc /\ cache' = c /\ lines' = m.lines /\ history' = m.history
  BY <1>5, <1>6, <1>7 DEF Became, Readings
<1>11. Aim' = Aim BY <1>0 DEF Aim
<1> QED BY <1>0, <1>2, <1>5, <1>9, <1>10, <1>11, ServedSeeks DEF L

LEMMA SuperviseSeeks ==
  ASSUME InboxInv, UiInv, AskInv, AdapterInv, SeekInv, Supervise
  PROVE  SeekInv'
<1> USE DEF backend, channels, reducer
<1>1. CASE TakeRefresh \/ ClearPending \/ WakeAfterEvent \/ Rearm
  <2>1. UNCHANGED <<mpv, lines, ipc, cache, history, ui, reply>>
    BY <1>1 DEF TakeRefresh, ClearPending, WakeAfterEvent, Rearm
  <2> QED BY <2>1 DEF SeekInv, SeekReachesItsLoad, SeeksFor, Aim, Adapter, Reading, Before
<1>2. CASE ExecuteShutdown
  <2>1. ~mpv'.alive /\ UNCHANGED history BY <1>2 DEF ExecuteShutdown, NoMpv, IdleMpv
  <2> QED BY <2>1 DEF SeekInv, SeekReachesItsLoad
<1> QED
  BY <1>1, <1>2, PlaySeeks, StopSeeks, SeekSeeks, PollSeeks, StatusSeeks DEF Supervise

\* The reducer goes on to aim at what it aimed at, or gives it up.
LEMMA AimedSeeks ==
  ASSUME SeekInv, UNCHANGED <<mpv, lines, ipc, cache, history>>, Aim' \in {Aim, NoLoad}
  PROVE  SeekInv'
<1>1. SeekReachesItsLoad' BY DEF SeekInv, SeekReachesItsLoad
<1>2. CASE history.crossed \/ ~mpv.alive BY <1>1, <1>2 DEF SeekInv
<1>3. CASE ~(history.crossed \/ ~mpv.alive)
  <2>1. PICK A \in Loads : SeeksFor(A) BY <1>3 DEF SeekInv
  <2>2. In(Aim', A) BY <2>1 DEF SeeksFor, In
  <2>3. Adapter' = Adapter /\ Before(mpv', A) = Before(mpv, A) BY DEF Adapter, Reading, Before
  <2>4. SeeksFor(A)' BY <2>1, <2>2, <2>3 DEF SeeksFor
  <2> QED BY <1>1, <2>1, <2>4 DEF SeekInv
<1> QED BY <1>2, <1>3

LEMMA ReduceSeeks ==
  ASSUME InboxInv, UiInv, AskInv, AdapterInv, SeekInv, Tick \/ Reduce \/ User
  PROVE  SeekInv'
<1> USE DEF backend, supervisor, channels
<1>0. ui \in Reducers /\ NoLoad \in Loads BY LoadsTyped DEF UiInv
<1>1. CASE StartPlayer
  <2>1. /\ ui.step = "parked" /\ ~Up /\ mpv' = IdleMpv
        /\ ui' = [ui EXCEPT !.step = "attach"]
        /\ UNCHANGED <<lines, ipc, cache, history, reply>>
    BY <1>1 DEF StartPlayer
  <2>2. ipc = NewIpc BY <2>1 DEF AdapterInv, Runs, Up
  <2>3. PICK A \in Loads : A = Aim BY LoadsTyped
  <2>4. Aim' = A BY <1>0, <2>1, <2>3 DEF Aim, Reducers
  <2>5. mpv'.file = NoLoad /\ mpv'.next = NoLoad BY <2>1 DEF IdleMpv
  <2>6. ~ipc'.accepted /\ ipc'.seek = NoLoad BY <2>1, <2>2 DEF NewIpc
  <2>7. SeekReachesItsLoad' BY <2>1 DEF SeekInv, SeekReachesItsLoad
  <2>8. Aligned(mpv', Adapter', A)
    BY <2>5, <2>6, <2>7 DEF Aligned, Adapter, Reading, In, SeekReachesItsLoad
  <2>9. SeeksFor(A)' BY <2>4, <2>5, <2>6, <2>8 DEF SeeksFor, In
  <2> QED BY <2>7, <2>9 DEF SeekInv
<1>2. CASE Joined
  <2>1. worker.step = "gone" /\ mpv' = mpv /\ history' = NoHistory BY <1>2 DEF Joined
  <2>2. ~mpv'.alive BY <2>1 DEF AdapterInv, Runs
  <2> QED BY <2>1, <2>2 DEF SeekInv, SeekReachesItsLoad, NoHistory
<1>3. CASE PlayAnswered
  <2>1. /\ ui.step = "playing" /\ reply # "none" /\ reply' = "none"
        /\ UNCHANGED <<mpv, lines, ipc, cache, history>>
        /\ ui' = IF reply = "ok"
                 THEN [ui EXCEPT !.step = "parked", !.current = ui.latest, !.phase = "loading",
                                 !.ignore = ui.current # NoLoad]
                 ELSE [ui EXCEPT !.step = "parked"]
    BY <1>3 DEF PlayAnswered, UiOnly
  <2> DEFINE ignore == ui.current # NoLoad
  <2>2. CASE reply = "ok"
    <3>1. ui' = [ui EXCEPT !.step = "parked", !.current = ui.latest, !.phase = "loading",
                           !.ignore = ignore]
      BY <2>1, <2>2
    <3> HIDE DEF ignore
    <3>2. ui'.current = ui.latest BY <1>0, <3>1 DEF Reducers
    <3>3. Aim' = Aim BY <2>1, <2>2, <3>2 DEF Aim
    <3> QED BY <2>1, <3>3, AimedSeeks
  <2>3. CASE reply # "ok"
    <3>1. ui'.current = ui.current BY <1>0, <2>1, <2>3 DEF Reducers
    <3>2. Aim' = Aim BY <2>1, <2>3, <3>1 DEF Aim
    <3> QED BY <2>1, <3>2, AimedSeeks
  <2> QED BY <2>2, <2>3
<1>4. ASSUME UNCHANGED backend, ui.step # "playing", ui'.current \in {ui.current, NoLoad},
             ui'.step = "playing" => reply' = "none"
      PROVE  SeekInv'
  <2>1. Aim' \in {Aim, NoLoad} BY <1>4 DEF Aim
  <2> QED BY <1>4, <2>1, AimedSeeks
<1>5. ASSUME NEW u \in Reducers, RequestPlay(u) \/ Closing(u), UNCHANGED backend,
             ui.step # "playing", u.current \in {ui.current, NoLoad}
      PROVE  SeekInv'
  <2>1. epoch \in Nat BY DEF InboxInv
  <2> DEFINE latest == epoch + 1
  <2>2. \/ ui' = [u EXCEPT !.step = "playing", !.latest = latest] /\ reply' = "none"
        \/ ui' = [u EXCEPT !.step = "closing", !.latest = NoLoad] /\ reply' = "none"
    BY <1>5 DEF RequestPlay, Closing, Send
  <2> HIDE DEF latest
  <2>3. ui'.current = u.current BY <1>5, <2>2 DEF Reducers
  <2> HIDE DEF backend
  <2> QED BY <1>4, <1>5, <2>2, <2>3
<1>6. Silent \in Reducers /\ Silent.current = NoLoad BY SilentTyped DEF UiInv, InboxInv
<1>7. CASE DrainEvent
  <2>1. ui.step \in Drains /\ UNCHANGED backend BY <1>7 DEF DrainEvent, Draining
  <2>2. ui.step # "playing" BY <2>1 DEF Drains
  <2>3. CASE OnLoaded \/ OnStarted \/ OnReplacedStop
    <3>1. Consumed \in Reducers /\ Consumed.current = ui.current /\ Consumed.step = ui.step
      BY <1>0 DEF Consumed, Reducers
    <3>2. \/ ui' = [Consumed EXCEPT !.phase = "loaded", !.ignore = FALSE]
          \/ ui' = Consumed
          \/ ui' = [Consumed EXCEPT !.phase = "playing"]
          \/ ui' = [Consumed EXCEPT !.ignore = FALSE]
      BY <2>3 DEF OnLoaded, OnStarted, OnReplacedStop
    <3>3. ui'.current = ui.current /\ ui'.step = ui.step BY <3>1, <3>2 DEF Reducers
    <3> QED BY <1>4, <2>1, <2>2, <3>3
  <2>4. CASE ui' = [Silent EXCEPT !.step = "parked", !.cut = TRUE]
    <3>1. ui'.current = NoLoad /\ ui'.step = "parked" BY <1>6, <2>4 DEF Reducers
    <3> QED BY <1>4, <2>1, <2>2, <3>1
  <2>5. CASE RequestPlay([Silent EXCEPT !.cut = TRUE])
    <3> DEFINE u == [Silent EXCEPT !.cut = TRUE]
    <3>1. u \in Reducers /\ u.current = NoLoad BY <1>6 DEF Reducers
    <3>2. RequestPlay(u) BY <2>5
    <3> HIDE DEF u
    <3> QED BY <1>5, <2>1, <2>2, <3>1, <3>2
  <2>6. CASE Closing(Silent) BY <1>5, <1>6, <2>1, <2>2, <2>6
  <2> QED BY <1>7, <2>3, <2>4, <2>5, <2>6 DEF DrainEvent, OnEnded, OnExited
<1>8. CASE TooManyEvents \/ Close
  <2>1. Closing(Silent) /\ ui.step # "playing" /\ UNCHANGED backend
    BY <1>8 DEF TooManyEvents, Close, UiOnly, Drains
  <2> QED BY <1>5, <1>6, <2>1
<1>9. CASE CaughtUp
  <2>1. ui.step # "playing" /\ UNCHANGED backend BY <1>9 DEF CaughtUp, Draining, Drains, UiOnly
  <2>2. PICK next \in {"status", "seeking", "parked"} : ui' = [ui EXCEPT !.step = next, !.polled = 0]
    BY <1>9 DEF CaughtUp
  <2>3. ui'.step = next /\ ui'.current = ui.current BY <1>0, <2>2 DEF Reducers
  <2> QED BY <1>4, <2>1, <2>3
<1>10. CASE ApplyStatus
  <2>1. ui.step = "recheck" /\ UNCHANGED backend BY <1>10 DEF ApplyStatus, UiOnly
  <2>2. CASE Closing(Silent) BY <1>5, <1>6, <2>1, <2>2
  <2>3. CASE ui' = [ui EXCEPT !.step = "parked", !.polled = 0, !.cut = FALSE]
    <3>1. ui'.step = "parked" /\ ui'.current = ui.current BY <1>0, <2>3 DEF Reducers
    <3> QED BY <1>4, <2>1, <3>1
  <2> QED BY <1>10, <2>2, <2>3 DEF ApplyStatus
<1>11. CASE AttachWaker \/ Play
  <2>1. ui.step # "playing" /\ RequestPlay(ui) /\ UNCHANGED backend
    BY <1>11 DEF AttachWaker, Play, UiOnly
  <2> QED BY <1>0, <1>5, <2>1
<1>12. CASE Tick \/ ReadStatus
  <2>1. ui.step # "playing" /\ UNCHANGED backend BY <1>12 DEF Tick, ReadStatus
  <2>2. ui'.current = ui.current /\ ui'.step # "playing"
    BY <1>0, <1>12, <2>1 DEF Tick, ReadStatus, Reducers
  <2> QED BY <1>4, <2>1, <2>2
<1>13. CASE CommandAnswered \/ SeekAnswered \/ Stop \/ Seek
  <2>1. /\ ui.step # "playing" /\ UNCHANGED backend
        /\ \E step \in {"parked", "refused", "commanding", "aim"} :
             ui' = [ui EXCEPT !.step = step]
    BY <1>13 DEF CommandAnswered, SeekAnswered, Stop, Seek, UiOnly
  <2>2. ui'.current = ui.current /\ ui'.step # "playing" BY <1>0, <2>1 DEF Reducers
  <2> QED BY <1>4, <2>1, <2>2
<1> QED BY <1>1, <1>2, <1>3, <1>7, <1>8, <1>9, <1>10, <1>11, <1>12, <1>13 DEF Reduce, User

LEMMA InitSeeks == Init => SeekInv
<1> SUFFICES ASSUME Init PROVE SeekInv
  OBVIOUS
<1>1. history = NoHistory /\ mpv = NoMpv BY DEF Init
<1> QED BY <1>1 DEF SeekInv, SeekReachesItsLoad, NoHistory, NoMpv, IdleMpv

LEMMA NextSeeks ==
  ReadingInv /\ ReadingInv' /\ SeekInv /\ [Next]_vars => SeekInv'
<1> SUFFICES ASSUME ReadingInv, ReadingInv', SeekInv, [Next]_vars PROVE SeekInv'
  OBVIOUS
<1>1. CASE UNCHANGED vars
  BY <1>1 DEF vars, backend, supervisor, channels, reducer, SeekInv, SeekReachesItsLoad,
              SeeksFor, Aim, Adapter, Reading, Before
<1>2. CASE Next
  BY <1>2, MpvSeeks, SuperviseSeeks, ReduceSeeks DEF Next, ReadingInv
<1> QED BY <1>1, <1>2

\* A seek that mpv carries out reaches the load it was asked for, however long it was
\* retained and whatever ended, was redirected or was replaced meanwhile, unless loads
\* crossed: load_in_progress and pending_keep_open retain it until the file it is for is
\* open (seek, load_prepared, service_pending_absolute_seek).
THEOREM SeeksReachLoads == Spec => []SeekReachesItsLoad
<1>1. Init => SeekInv BY InitSeeks
<1>2. ReadingInv /\ ReadingInv' /\ SeekInv /\ [Next]_vars => SeekInv' BY NextSeeks
<1>3. SeekInv => SeekReachesItsLoad BY DEF SeekInv
<1> QED BY <1>1, <1>2, <1>3, ReadingHolds, PTL DEF Spec
=============================================================================
