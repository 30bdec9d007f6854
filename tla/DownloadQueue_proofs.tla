------------------------ MODULE DownloadQueue_proofs ------------------------
(***************************************************************************)
(* What a queue the store holds always is, whatever the number of jobs,    *)
(* the limits, retries, failures and restarts; and what follows from it:   *)
(* no attempt gets a second worker, cancelled jobs are left alone, and     *)
(* only a failed write or a limit of the store can block the queue.        *)
(***************************************************************************)
EXTENDS DownloadQueue, TLAPS

\* A number that was not given out has nothing of its own, and nobody is asked for
\* the format of the native provider.
Clean(q) == \A j \in Jobs : /\ State(q, j) = "none" => q.entry[j].attempt = 0
                            /\ q.entry[j].media \in Native => q.entry[j].format # "none"

\* No attempt of p is forgotten by q.
Grows(p, q) == \A j \in Jobs : q.entry[j].attempt >= p.entry[j].attempt

Cancelled(q, S) == \A j \in Jobs : j \in S => State(q, j) = "cancelled"

\* What may be asked of the store.
Legal(next) ==
  /\ next \in Queues /\ Orderly(next) /\ Clean(next)
  /\ Grows(memory, next) /\ Replaces(memory, next)

\* The queue shown is the one in memory, unless the start could not save what it
\* recovered; what is on disk, or waits to be, is never behind what is in memory.
StoreInv ==
  /\ queue = memory \/ (queue = EmptyQueue /\ pending_write # NoWrite)
  /\ Orderly(memory) /\ Clean(memory) /\ Orderly(disk) /\ Clean(disk)
  /\ Clean(pending_write)
  /\ Grows(memory, disk)
  /\ pending_write # NoWrite =>
       /\ blocked /\ Orderly(pending_write)
       /\ Grows(memory, pending_write) /\ Replaces(memory, pending_write)
  /\ drifted => blocked
  /\ blocked => refused # {}
  /\ faults = 0 => ~drifted /\ \A q \in refused : ~WithinLimits(q)
  /\ \A j \in Jobs : launched[j] <= memory.entry[j].attempt
  /\ Cancelled(memory, dropped) /\ Cancelled(disk, dropped)
  /\ pending_write # NoWrite => Cancelled(pending_write, dropped)

\* The slot belongs to a running attempt, which has no worker yet while it is
\* launched or waits for the gate; a question is about a queued job.
SlotInv ==
  /\ active # NoOwner => /\ State(queue, active.job) = "running"
                         /\ queue.entry[active.job].attempt = active.attempt
  /\ choosing # 0 => /\ State(queue, choosing) = "queued"
                     /\ queue.entry[choosing].media \notin Native
                     /\ ~deferred_cache /\ active = NoOwner /\ reducer.step # "launch"
  /\ reducer.step = "begin" => /\ choosing = 0 /\ ~deferred_cache /\ active = NoOwner
                               /\ reducer.job \in Jobs
                               /\ queue.entry[reducer.job].format # "none"
  /\ reducer.step = "launch" => ~deferred_cache
  /\ (reducer.step = "launch" \/ deferred_cache) /\ active # NoOwner
       => launched[active.job] < active.attempt
  /\ reducer.step = "down" => choosing = 0 /\ active = NoOwner

IInv == TypeOK /\ StoreInv /\ SlotInv

-----------------------------------------------------------------------------
(* The operators on queues *)

LEMMA NoWriteTyped == NoWrite \in Queues /\ Clean(NoWrite)
  BY ConstantsAssumption DEF NoWrite, NoEntries, NoEntry, Queues, Entries, Formats, Clean, State

LEMMA EmptyQueueTyped ==
  /\ EmptyQueue \in Queues /\ Clean(EmptyQueue) /\ Orderly(EmptyQueue)
  /\ \A j \in Jobs : State(EmptyQueue, j) = "none"
  BY ConstantsAssumption
     DEF EmptyQueue, NoEntries, NoEntry, Queues, Entries, Formats, Clean, State, Orderly

\* A change of one record leaves the others, and its number, alone.
LEMMA WithStateKeeps ==
  ASSUME NEW q \in Queues, NEW j \in Jobs, NEW s \in States
  PROVE  LET next == WithState(q, j, s)
         IN /\ next \in Queues /\ next.next = q.next
            /\ State(next, j) = s
            /\ \A k \in Jobs : /\ next.entry[k].attempt = q.entry[k].attempt
                               /\ next.entry[k].format = q.entry[k].format
                               /\ next.entry[k].media = q.entry[k].media
                               /\ k # j => State(next, k) = State(q, k)
  BY DEF WithState, Queues, Entries, State

LEMMA BegunKeeps ==
  ASSUME queue \in Queues, NEW j \in Jobs
  PROVE  LET next == Begun(j)
         IN /\ next \in Queues /\ next.next = queue.next
            /\ State(next, j) = "running"
            /\ next.entry[j].attempt = queue.entry[j].attempt + 1
            /\ \A k \in Jobs : /\ next.entry[k].format = queue.entry[k].format
                               /\ next.entry[k].media = queue.entry[k].media
                               /\ k # j => /\ State(next, k) = State(queue, k)
                                           /\ next.entry[k].attempt = queue.entry[k].attempt
<1> DEFINE started == WithState(queue, j, "running")
<1>1. /\ started \in Queues /\ started.next = queue.next /\ started.entry[j].state = "running"
      /\ \A k \in Jobs : /\ started.entry[k].attempt = queue.entry[k].attempt
                         /\ started.entry[k].format = queue.entry[k].format
                         /\ started.entry[k].media = queue.entry[k].media
                         /\ k # j => started.entry[k].state = queue.entry[k].state
  BY WithStateKeeps DEF States, State
<1>2. Begun(j) = [started EXCEPT !.entry[j].attempt = started.entry[j].attempt + 1]
  BY DEF Begun, WithState
<1> HIDE DEF started
<1>3. queue.entry[j].attempt + 1 \in Nat
  BY DEF Queues, Entries
<1>4. Begun(j) = [started EXCEPT !.entry[j].attempt = queue.entry[j].attempt + 1]
  BY <1>1, <1>2
<1> DEFINE next == Begun(j)
<1>5. /\ next \in Queues /\ next.next = started.next
      /\ next.entry[j].attempt = queue.entry[j].attempt + 1
      /\ \A k \in Jobs : /\ next.entry[k].format = started.entry[k].format
                         /\ next.entry[k].media = started.entry[k].media
                         /\ next.entry[k].state = started.entry[k].state
                         /\ k # j => next.entry[k].attempt = started.entry[k].attempt
  <2> HIDE DEF next
  <2>1. next = [started EXCEPT !.entry[j].attempt = queue.entry[j].attempt + 1]
    BY <1>4 DEF next
  <2> DEFINE record == [started.entry[j] EXCEPT !.attempt = queue.entry[j].attempt + 1]
  <2>2. record \in Entries /\ record.attempt = queue.entry[j].attempt + 1
        /\ record.format = started.entry[j].format /\ record.state = started.entry[j].state
        /\ record.media = started.entry[j].media
    BY <1>1, <1>3 DEF Queues, Entries
  <2>3. next = [started EXCEPT !.entry = [started.entry EXCEPT ![j] = record]]
    BY <2>1
  <2> HIDE DEF record
  <2>4. next.entry = [started.entry EXCEPT ![j] = record] /\ next.next = started.next
        /\ next \in Queues
    BY <1>1, <2>2, <2>3 DEF Queues
  <2> QED
    BY <1>1, <2>2, <2>4 DEF Queues
<1> HIDE DEF next
<1>6. /\ next \in Queues /\ next.next = queue.next /\ next.entry[j].state = "running"
      /\ next.entry[j].attempt = queue.entry[j].attempt + 1
      /\ \A k \in Jobs : /\ next.entry[k].format = queue.entry[k].format
                         /\ next.entry[k].media = queue.entry[k].media
                         /\ k # j => /\ next.entry[k].state = queue.entry[k].state
                                     /\ next.entry[k].attempt = queue.entry[k].attempt
  BY <1>1, <1>5
<1> QED
  BY <1>6 DEF next, State

LEMMA FormatKeeps ==
  ASSUME queue \in Queues, NEW j \in Jobs
  PROVE  LET next == [queue EXCEPT !.entry[j].format = "other"]
         IN /\ next \in Queues /\ next.next = queue.next
            /\ next.entry[j].format = "other"
            /\ \A k \in Jobs : /\ State(next, k) = State(queue, k)
                               /\ next.entry[k].attempt = queue.entry[k].attempt
                               /\ next.entry[k].media = queue.entry[k].media
                               /\ k # j => next.entry[k].format = queue.entry[k].format
  BY DEF Queues, Entries, Formats, State

LEMMA RecoverKeeps ==
  ASSUME NEW q \in Queues
  PROVE  LET next == RecoverRunning(q)
         IN /\ next \in Queues /\ next.next = q.next
            /\ \A k \in Jobs :
                 /\ next.entry[k].attempt = q.entry[k].attempt
                 /\ next.entry[k].format = q.entry[k].format
                 /\ next.entry[k].media = q.entry[k].media
                 /\ State(next, k) = IF State(q, k) = "running" THEN "queued" ELSE State(q, k)
  BY DEF RecoverRunning, Queues, Entries, State, States

LEMMA BatchLength ==
  ASSUME NEW batch \in Batches
  PROVE  Len(batch) \in Nat \ {0} /\ \A k \in 1..Len(batch) : batch[k] \in Captured
<1>1. PICK n \in Jobs : batch \in [1..n -> Captured]
  BY DEF Batches
<1>2. n \in Nat \ {0}
  BY <1>1, ConstantsAssumption DEF Jobs
<1>3. Len(batch) = n
  BY <1>1, <1>2
<1> QED
  BY <1>1, <1>2, <1>3

\* New records take the numbers from next on.
LEMMA AppendedKeeps ==
  ASSUME NEW q \in Queues, NEW batch \in Batches
  PROVE  LET next == Appended(q, batch)
         IN /\ next \in Queues /\ next.next = q.next + Len(batch)
            /\ \A k \in Jobs :
                 IF k \in q.next..(q.next + Len(batch) - 1)
                 THEN \E m \in Captured : next.entry[k] = NewEntry(m)
                 ELSE next.entry[k] = q.entry[k]
<1> DEFINE next == Appended(q, batch)
           new == q.next..(q.next + Len(batch) - 1)
<1>1. q.next \in Nat /\ q.entry \in [Jobs -> Entries]
  BY DEF Queues
<1>2. \A k \in new : NewEntry(batch[k - q.next + 1]) \in Entries
  <2> TAKE k \in new
  <2>1. batch[k - q.next + 1] \in Captured
    BY <1>1, BatchLength
  <2> QED
    BY <2>1 DEF NewEntry, Entries, Formats, States, Captured
<1>3. next = [next |-> q.next + Len(batch),
              entry |-> [j \in Jobs |-> IF j \in new THEN NewEntry(batch[j - q.next + 1])
                                                     ELSE q.entry[j]]]
  BY DEF Appended
<1>4. next \in Queues
  BY <1>1, <1>2, <1>3, BatchLength DEF Queues
<1>5. \A k \in Jobs : next.entry[k] = IF k \in new THEN NewEntry(batch[k - q.next + 1])
                                                   ELSE q.entry[k]
  BY <1>3
<1>6. \A k \in new : batch[k - q.next + 1] \in Captured
  BY <1>1, BatchLength
<1> QED
  BY <1>3, <1>4, <1>5, <1>6

LEMMA AppendedAreQueued ==
  ASSUME NEW q \in Queues, NEW batch \in Batches, NEW k \in Jobs
  PROVE  LET next == Appended(q, batch)
         IN State(next, k) = "queued" \/ next.entry[k] = q.entry[k]
<1> DEFINE next == Appended(q, batch)
<1>1. (\E m \in Captured : next.entry[k] = NewEntry(m)) \/ next.entry[k] = q.entry[k]
  BY AppendedKeeps
<1> HIDE DEF next
<1>2. \A m \in Captured : NewEntry(m).state = "queued"
  BY DEF NewEntry
<1>3. State(next, k) = "queued" \/ next.entry[k] = q.entry[k]
  BY <1>1, <1>2 DEF State
<1> QED
  BY <1>3 DEF next

LEMMA OutcomesAreStates ==
  /\ {"completed", "failed"} \subseteq Outcomes /\ Outcomes \subseteq TransferOutcomes
  /\ TransferOutcomes \subseteq States \ {"queued", "running"}
  BY DEF Outcomes, TransferOutcomes, States

-----------------------------------------------------------------------------
(* What the reducer asks the store to save *)

\* A record that exists may go to another state.
LEMMA WithStateIsLegal ==
  ASSUME StoreTyped, StoreInv, queue = memory,
         NEW j \in Jobs, NEW s \in States,
         State(queue, j) # "none",
         s \in Started => queue.entry[j].attempt > 0 /\ queue.entry[j].format # "none"
  PROVE  Legal(WithState(queue, j, s))
<1> DEFINE next == WithState(queue, j, s)
<1>1. /\ next \in Queues /\ next.next = queue.next /\ next.entry[j].state = s
      /\ \A k \in Jobs : /\ next.entry[k].attempt = queue.entry[k].attempt
                         /\ next.entry[k].format = queue.entry[k].format
                         /\ next.entry[k].media = queue.entry[k].media
                         /\ k # j => next.entry[k].state = queue.entry[k].state
  BY WithStateKeeps DEF StoreTyped, State
<1> HIDE DEF next
<1>2. queue \in Queues /\ Orderly(queue) /\ Clean(queue) /\ s # "none"
  BY DEF StoreTyped, StoreInv, States
<1>3. Clean(next)
  BY <1>1, <1>2 DEF Clean, State
<1>4. Grows(memory, next)
  BY <1>1, <1>2 DEF Grows, Queues, Entries
<1>5. Orderly(next)
  BY <1>1, <1>2 DEF Orderly, State, Started
<1>6. Replaces(memory, next)
  BY <1>1, <1>2 DEF Replaces, State, Queues, Entries
<1>7. next.next > 0
  BY <1>1, <1>2 DEF Orderly
<1> QED
  BY <1>1, <1>3, <1>4, <1>5, <1>6, <1>7 DEF Legal, next

LEMMA BegunIsLegal ==
  ASSUME StoreTyped, StoreInv, queue = memory,
         NEW j \in Jobs, State(queue, j) = "queued",
         queue.entry[j].format # "none"
  PROVE  Legal(Begun(j))
<1> DEFINE next == Begun(j)
<1>1. /\ next \in Queues /\ next.next = queue.next /\ next.entry[j].state = "running"
      /\ next.entry[j].attempt = queue.entry[j].attempt + 1
      /\ \A k \in Jobs : /\ next.entry[k].format = queue.entry[k].format
                         /\ next.entry[k].media = queue.entry[k].media
                         /\ k # j => /\ next.entry[k].state = queue.entry[k].state
                                     /\ next.entry[k].attempt = queue.entry[k].attempt
  BY BegunKeeps DEF StoreTyped, State
<1> HIDE DEF next
<1>2. queue \in Queues /\ Orderly(queue) /\ Clean(queue)
  BY DEF StoreTyped, StoreInv
<1>3. Clean(next)
  BY <1>1, <1>2 DEF Clean, State
<1>4. Grows(memory, next) /\ next.entry[j].attempt > 0
  BY <1>1, <1>2 DEF Grows, Queues, Entries
<1>5. Orderly(next)
  BY <1>1, <1>2, <1>4 DEF Orderly, State, Started
<1>6. Replaces(memory, next)
  BY <1>1, <1>2, <1>4 DEF Replaces, State, Queues, Entries, Grows
<1>7. next.next > 0
  BY <1>1, <1>2 DEF Orderly
<1> QED
  BY <1>1, <1>3, <1>4, <1>5, <1>6, <1>7 DEF Legal, next

LEMMA FormatIsLegal ==
  ASSUME StoreTyped, StoreInv, queue = memory, NEW j \in Jobs,
         State(queue, j) = "queued", queue.entry[j].media \notin Native
  PROVE  Legal([queue EXCEPT !.entry[j].format = "other"])
<1> DEFINE next == [queue EXCEPT !.entry[j].format = "other"]
<1>1. /\ next \in Queues /\ next.next = queue.next
      /\ \A k \in Jobs : /\ next.entry[k].state = queue.entry[k].state
                         /\ next.entry[k].attempt = queue.entry[k].attempt
                         /\ next.entry[k].media = queue.entry[k].media
                         /\ next.entry[k].format = IF k = j THEN "other"
                                                            ELSE queue.entry[k].format
  BY FormatKeeps DEF StoreTyped, State
<1> HIDE DEF next
<1>2. queue \in Queues /\ Orderly(queue) /\ Clean(queue)
  BY DEF StoreTyped, StoreInv
<1>3. Clean(next)
  BY <1>1, <1>2 DEF Clean, State
<1>4. Grows(memory, next)
  BY <1>1, <1>2 DEF Grows, Queues, Entries
<1>5. Orderly(next)
  BY <1>1, <1>2 DEF Orderly, State, Started
<1>6. Replaces(memory, next)
  BY <1>1, <1>2 DEF Replaces, State, Queues, Entries
<1>7. next.next > 0
  BY <1>1, <1>2 DEF Orderly
<1> QED
  BY <1>1, <1>3, <1>4, <1>5, <1>6, <1>7 DEF Legal, next

LEMMA AppendedIsLegal ==
  ASSUME StoreTyped, StoreInv, queue = memory, NEW batch \in Batches
  PROVE  Legal(Appended(queue, batch))
<1> DEFINE next == Appended(queue, batch)
           new == queue.next..(queue.next + Len(batch) - 1)
<1>1. /\ next \in Queues /\ next.next = queue.next + Len(batch)
      /\ \A k \in Jobs : IF k \in new
                         THEN /\ next.entry[k].state = "queued" /\ next.entry[k].attempt = 0
                              /\ next.entry[k].media \in Media \ Unfit
                              /\ next.entry[k].format =
                                   IF next.entry[k].media \in Native THEN "original" ELSE "none"
                         ELSE next.entry[k] = queue.entry[k]
  <2>1. /\ next \in Queues /\ next.next = queue.next + Len(batch)
        /\ \A k \in Jobs : IF k \in new
                           THEN \E m \in Captured : next.entry[k] = NewEntry(m)
                           ELSE next.entry[k] = queue.entry[k]
    BY AppendedKeeps DEF StoreTyped
  <2> HIDE DEF next, new
  <2>2. ASSUME NEW k \in Jobs, k \in new
        PROVE  /\ next.entry[k].state = "queued" /\ next.entry[k].attempt = 0
               /\ next.entry[k].media \in Media \ Unfit
               /\ next.entry[k].format =
                    IF next.entry[k].media \in Native THEN "original" ELSE "none"
    <3>1. PICK m \in Captured : next.entry[k] = NewEntry(m)
      BY <2>1, <2>2
    <3>2. NewEntry(m).state = "queued" /\ NewEntry(m).attempt = 0 /\ NewEntry(m).media = m
          /\ NewEntry(m).format = IF m \in Native THEN "original" ELSE "none"
      BY DEF NewEntry
    <3> QED
      BY <3>1, <3>2 DEF Captured
  <2> QED
    BY <2>1, <2>2
<1> HIDE DEF next
<1>2. queue \in Queues /\ Orderly(queue) /\ Clean(queue) /\ Len(batch) \in Nat \ {0}
  BY BatchLength DEF StoreTyped, StoreInv
<1>3. queue.next \in Nat /\ \A k \in Jobs : k \in Int
  BY <1>2, ConstantsAssumption DEF Queues, Jobs
<1>4. \A k \in Jobs : k \in new => queue.entry[k].state = "none" /\ queue.entry[k].attempt = 0
  BY <1>2, <1>3 DEF Orderly, Clean, State
<1>5. Clean(next)
  BY <1>1, <1>2 DEF Clean, State
<1>6. Grows(memory, next)
  BY <1>1, <1>2, <1>4 DEF Grows, Queues, Entries
<1>7. Orderly(next)
  BY <1>1, <1>2, <1>3 DEF Orderly, State, Started
<1>8. Replaces(memory, next)
  BY <1>1, <1>2, <1>3, <1>4 DEF Replaces, State, Queues, Entries
<1>9. next.next > 0
  BY <1>1, <1>2, <1>3
<1> QED
  BY <1>1, <1>5, <1>6, <1>7, <1>8, <1>9 DEF Legal, next

LEMMA LatestIsLegal ==
  ASSUME StoreTyped, StoreInv
  PROVE  Legal(RecoverRunning(Latest)) /\ Cancelled(RecoverRunning(Latest), dropped)
<1> DEFINE next == RecoverRunning(Latest)
<1>1. Latest \in Queues
  BY DEF Latest, StoreTyped
<1>2. /\ next \in Queues /\ next.next = Latest.next
      /\ \A k \in Jobs : /\ next.entry[k].attempt = Latest.entry[k].attempt
                         /\ next.entry[k].format = Latest.entry[k].format
                         /\ next.entry[k].media = Latest.entry[k].media
                         /\ next.entry[k].state = IF Latest.entry[k].state = "running"
                                                  THEN "queued" ELSE Latest.entry[k].state
  BY <1>1, RecoverKeeps DEF State
<1> HIDE DEF next
<1>3. CASE pending_write = NoWrite
  <2>1. Latest = queue /\ queue = memory /\ queue \in Queues /\ Orderly(queue) /\ Clean(queue)
        /\ Cancelled(queue, dropped)
    BY <1>3 DEF Latest, StoreTyped, StoreInv
  <2>2. Clean(next) /\ next.next > 0
    BY <1>2, <2>1 DEF Clean, State, Orderly
  <2>3. Grows(memory, next)
    BY <1>2, <2>1 DEF Grows, Queues, Entries
  <2>4. Orderly(next)
    BY <1>2, <2>1 DEF Orderly, State, Started
  <2>5. Replaces(memory, next)
    BY <1>2, <2>1 DEF Replaces, State, Queues, Entries
  <2>6. Cancelled(next, dropped)
    BY <1>2, <2>1 DEF Cancelled, State
  <2> QED
    BY <1>2, <2>2, <2>3, <2>4, <2>5, <2>6 DEF Legal, next
<1>4. CASE pending_write # NoWrite
  <2>1. Latest = pending_write /\ Orderly(Latest) /\ Clean(Latest)
        /\ Grows(memory, Latest) /\ Replaces(memory, Latest) /\ Cancelled(Latest, dropped)
    BY <1>4 DEF Latest, StoreInv
  <2>2. Clean(next)
    BY <1>2, <2>1 DEF Clean, State
  <2>3. Grows(memory, next)
    BY <1>2, <2>1 DEF Grows
  <2>4. Cancelled(next, dropped)
    BY <1>2, <2>1 DEF Cancelled, State
  <2>5. Orderly(next)
    BY <1>2, <2>1 DEF Orderly, State, Started
  <2>6. Replaces(memory, next)
    BY <1>2, <2>1 DEF Replaces, State
  <2> QED
    BY <1>2, <2>2, <2>3, <2>4, <2>5, <2>6 DEF Legal, next
<1> QED
  BY <1>3, <1>4
-----------------------------------------------------------------------------
(* Saving it *)

\* A legal queue is saved, or waits to be, without touching what the store owes to
\* attempts with a worker and to confirmed cancellations.
LEMMA SaveKeeps ==
  ASSUME StoreTyped, StoreInv, HistoryTyped, NEW next, Legal(next),
         Saved(next) \/ Refused(next),
         asked' \in Queues, launched' = launched,
         Cancelled(next, dropped'), Confirmed \/ dropped' \subseteq dropped
  PROVE  /\ StoreTyped' /\ StoreInv'
         /\ Confirmed => queue' = next /\ memory' = next /\ blocked' = blocked
         /\ ~Confirmed => queue' = queue /\ memory' = memory
<1>1. /\ next \in Queues /\ next.next > 0 /\ Orderly(next) /\ Clean(next)
      /\ Grows(memory, next) /\ Replaces(memory, next)
      /\ Accepts(next) <=> WithinLimits(next)
  BY DEF Legal, Orderly, Accepts, Valid
<1>2. next # NoWrite
  BY <1>1 DEF NoWrite
<1>3. CASE Saved(next)
  <2>1. /\ ~drifted /\ Accepts(next) /\ memory' = next /\ disk' = next /\ queue' = next
        /\ pending_write' = NoWrite
        /\ drifted' = drifted /\ refused' = refused /\ faults' = faults /\ blocked' = blocked
    BY <1>3 DEF Saved, Stored
  <2>2. Confirmed
    BY <2>1 DEF Confirmed
  <2>3. StoreTyped'
    BY <1>1, <2>1, NoWriteTyped DEF StoreTyped
  <2>4. Grows(next, next)
    BY <1>1 DEF Grows, Queues, Entries
  <2>5. \A j \in Jobs : launched'[j] <= next.entry[j].attempt
    BY <1>1 DEF StoreInv, Grows, StoreTyped, HistoryTyped, Queues, Entries
  <2>6. StoreInv'
    BY <1>1, <2>1, <2>4, <2>5, NoWriteTyped DEF StoreInv
  <2> QED
    BY <2>1, <2>2, <2>3, <2>6
<1>4. CASE Refused(next)
  <2>1. /\ pending_write' = next /\ blocked' = TRUE /\ queue' = queue /\ memory' = memory
        /\ refused' = refused \cup {next}
    BY <1>4 DEF Refused, NotStored
  <2>2. /\ \/ (drifted \/ ~Accepts(next)) /\ faults' = faults
           \/ Accepts(next) /\ faults' = faults + 1
        /\ \/ disk' = disk /\ drifted' = drifted
           \/ Accepts(next) /\ disk' = next /\ drifted' = TRUE
    BY <1>4 DEF Refused, NotStored
  <2>3. ~Confirmed
    BY <1>2, <2>1 DEF Confirmed
  <2>4. StoreTyped'
    <3>1. disk' \in Queues /\ faults' \in Nat
      BY <1>1, <2>2 DEF StoreTyped
    <3>2. drifted' \in BOOLEAN /\ blocked' \in BOOLEAN
      BY <2>1, <2>2 DEF StoreTyped
    <3>3. pending_write' \in Queues /\ queue' \in Queues /\ memory' \in Queues
          /\ refused' \subseteq Queues
      BY <1>1, <2>1 DEF StoreTyped
    <3> QED
      BY <3>1, <3>2, <3>3 DEF StoreTyped
  <2>5. refused' # {} /\ (faults' = 0 => ~drifted' /\ \A q \in refused' : ~WithinLimits(q))
    <3>1. CASE (drifted \/ ~Accepts(next)) /\ faults' = faults /\ drifted' = drifted
      BY <1>1, <2>1, <3>1 DEF StoreInv
    <3>2. CASE faults' = faults + 1
      BY <2>1, <3>2 DEF StoreTyped
    <3> QED
      BY <1>4, <3>1, <3>2 DEF Refused, NotStored
  <2>6. Orderly(disk') /\ Clean(disk') /\ Grows(memory, disk')
    BY <1>1, <2>2 DEF StoreInv
  <2>7. Cancelled(memory, dropped') /\ Cancelled(disk', dropped')
    BY <2>2, <2>3 DEF StoreInv, Cancelled
  <2>8. queue' = memory' \/ (queue' = EmptyQueue /\ pending_write' # NoWrite)
    BY <1>2, <2>1 DEF StoreInv
  <2>9. StoreInv'
    BY <1>1, <2>1, <2>5, <2>6, <2>7, <2>8 DEF StoreInv
  <2> QED
    BY <2>1, <2>3, <2>4, <2>9
<1> QED
  BY <1>3, <1>4

\* A step that saves nothing.
LEMMA NoSaveKeeps ==
  ASSUME StoreTyped, StoreInv, UNCHANGED store, launched' = launched,
         dropped' \subseteq dropped
  PROVE  StoreTyped' /\ StoreInv'
<1>1. /\ queue' = queue /\ pending_write' = pending_write /\ blocked' = blocked
      /\ memory' = memory /\ disk' = disk /\ drifted' = drifted /\ refused' = refused
      /\ asked' = asked /\ faults' = faults
  BY DEF store
<1>2. StoreTyped'
  BY <1>1 DEF StoreTyped
<1>3. StoreInv'
  BY <1>1 DEF StoreInv, Cancelled
<1> QED
  BY <1>2, <1>3
-----------------------------------------------------------------------------
(* The parts that handlers are made of *)

\* Record k is as it was, but for its format.
Same(k) == /\ State(queue', k) = State(queue, k)
           /\ queue'.entry[k].attempt = queue.entry[k].attempt
           /\ queue'.entry[k].media = queue.entry[k].media

\* A handler that ends with the slot and the question as they were, or free.
LEMMA SlotKeeps ==
  ASSUME SlotTyped, SlotInv, launched' = launched,
         choosing' = choosing \/ choosing' = 0,
         active' = active \/ active' = NoOwner,
         active' # NoOwner => Same(active.job),
         choosing' # 0 => Same(choosing),
         deferred_cache' => deferred_cache,
         reducer'.step \in {"ready", "poll"}
  PROVE  SlotInv'
  BY DEF SlotInv, SlotTyped, Same, State

LEMMA SlotUntouched ==
  ASSUME SlotInv, SlotTyped, UNCHANGED <<store, slot, question, reducer, launched>>
  PROVE  SlotInv' /\ SlotTyped'
  BY DEF SlotInv, SlotTyped, store, slot, question, State

\* Where something is running, chosen or about to begin, the queue is the stored one.
LEMMA QueueIsStored ==
  ASSUME StoreTyped, StoreInv, NEW j \in Jobs, State(queue, j) # "none"
  PROVE  queue = memory /\ (j \in dropped => State(queue, j) = "cancelled")
<1>1. queue = memory
  BY EmptyQueueTyped DEF StoreInv
<1> QED
  BY <1>1 DEF StoreInv, Cancelled

LEMMA NotBlockedIsStored ==
  ASSUME StoreInv, ~blocked
  PROVE  queue = memory
  BY DEF StoreInv

LEMMA OwnersAreJobs ==
  ASSUME NEW o \in Owners, o # NoOwner
  PROVE  o.job \in Jobs /\ o.job # 0 /\ o.attempt \in Nat
  BY ConstantsAssumption DEF Owners, Jobs

LEMMA ActiveIsRunning ==
  ASSUME IInv, active # NoOwner
  PROVE  /\ active.job \in Jobs /\ State(queue, active.job) = "running"
         /\ active.job \notin dropped /\ queue = memory
<1>1. active.job \in Jobs /\ State(queue, active.job) = "running"
  BY OwnersAreJobs DEF IInv, TypeOK, SlotTyped, SlotInv
<1> QED
  BY <1>1, QueueIsStored DEF IInv, TypeOK

LEMMA ChosenIsQueued ==
  ASSUME IInv, choosing # 0
  PROVE  /\ choosing \in Jobs /\ State(queue, choosing) = "queued"
         /\ choosing \notin dropped /\ queue = memory
         /\ active = NoOwner /\ ~deferred_cache
<1>1. /\ choosing \in Jobs /\ State(queue, choosing) = "queued"
      /\ active = NoOwner /\ ~deferred_cache
  BY DEF IInv, TypeOK, SlotTyped, SlotInv
<1> QED
  BY <1>1, QueueIsStored DEF IInv, TypeOK

\* A transition of one record, saved or not.
LEMMA MoveKeeps ==
  ASSUME IInv, NEW j \in Jobs, NEW s \in States, State(queue, j) # "none", queue = memory,
         s \in Started => queue.entry[j].attempt > 0 /\ queue.entry[j].format # "none",
         Save(WithState(queue, j, s)), launched' = launched,
         dropped' = dropped \/ (s = "cancelled" /\ Confirmed /\ dropped' = dropped \cup {j})
                            \/ dropped' = dropped \ {j},
         j \in dropped' => s = "cancelled"
  PROVE  /\ StoreTyped' /\ StoreInv'
         /\ \A k \in Jobs : k # j => Same(k)
         /\ Confirmed => State(queue', j) = s
<1> DEFINE next == WithState(queue, j, s)
<1>0. StoreTyped /\ StoreInv /\ HistoryTyped /\ queue \in Queues
  BY DEF IInv, TypeOK, StoreTyped
<1>1. Legal(next)
  BY <1>0, WithStateIsLegal
<1>2. /\ State(next, j) = s
      /\ \A k \in Jobs : /\ next.entry[k].attempt = queue.entry[k].attempt
                         /\ next.entry[k].media = queue.entry[k].media
                         /\ k # j => State(next, k) = State(queue, k)
  BY <1>0, WithStateKeeps
<1>3. (Saved(next) \/ Refused(next)) /\ asked' \in Queues
  BY <1>1 DEF Save, Legal
<1> HIDE DEF next
<1>4. Cancelled(next, dropped') /\ (Confirmed \/ dropped' \subseteq dropped)
  <2>1. Cancelled(queue, dropped)
    BY <1>0 DEF StoreInv
  <2> QED
    BY <1>2, <2>1 DEF Cancelled
<1>5. /\ StoreTyped' /\ StoreInv'
      /\ Confirmed => queue' = next
      /\ ~Confirmed => queue' = queue
  BY <1>0, <1>1, <1>3, <1>4, SaveKeeps
<1>6. \A k \in Jobs : k # j => Same(k)
  BY <1>2, <1>5 DEF Same
<1> QED
  BY <1>2, <1>5, <1>6

LEMMA CancelEntryKeeps ==
  ASSUME IInv, NEW j \in Jobs, State(queue, j) # "none", queue = memory,
         CancelEntry(j), launched' = launched
  PROVE  StoreTyped' /\ StoreInv' /\ dropped' \subseteq Jobs /\ \A k \in Jobs : k # j => Same(k)
<1>1. /\ Save(WithState(queue, j, "cancelled"))
      /\ dropped' = IF Confirmed THEN dropped \cup {j} ELSE dropped
  BY DEF CancelEntry
<1>2. "cancelled" \in States /\ "cancelled" \notin Started
  BY DEF States, Started
<1>3. StoreTyped' /\ StoreInv' /\ \A k \in Jobs : k # j => Same(k)
  BY <1>1, <1>2, MoveKeeps
<1> QED
  BY <1>1, <1>3 DEF IInv, TypeOK, HistoryTyped

\* The owner of the slot gives it up.
LEMMA CancelOwnerKeeps ==
  ASSUME IInv, CancelOwner, launched' = launched
  PROVE  /\ StoreTyped' /\ StoreInv' /\ dropped' \subseteq Jobs
         /\ active' = NoOwner /\ deferred_cache' = FALSE /\ yandex_generation' = 0
         /\ \A k \in Jobs : k # active.job => Same(k)
<1>1. active' = NoOwner /\ deferred_cache' = FALSE /\ yandex_generation' = 0
  BY DEF CancelOwner, FreeSlot
<1>2. CASE active = NoOwner
  <2>1. UNCHANGED <<store, dropped>>
    BY <1>2 DEF CancelOwner
  <2>2. StoreTyped' /\ StoreInv'
    BY <2>1, NoSaveKeeps DEF IInv, TypeOK
  <2> QED
    BY <1>1, <2>1, <2>2 DEF IInv, TypeOK, HistoryTyped, Same, State, store
<1>3. CASE active # NoOwner
  <2>1. CancelEntry(active.job)
    BY <1>3 DEF CancelOwner
  <2> QED
    BY <1>1, <1>3, <2>1, CancelEntryKeeps, ActiveIsRunning
<1> QED
  BY <1>2, <1>3

LEMMA FinishKeeps ==
  ASSUME IInv, NEW owner, NEW s \in TransferOutcomes, Finish(owner, s),
         launched' = launched, dropped' = dropped
  PROVE  /\ StoreTyped' /\ StoreInv'
         /\ \/ /\ active' = NoOwner /\ yandex_generation' = 0
               /\ \A k \in Jobs : k # active.job => Same(k)
            \/ UNCHANGED <<store, active, yandex_generation>>
<1>1. CASE /\ owner # NoOwner /\ active = owner
           /\ State(queue, owner.job) = "running"
           /\ queue.entry[owner.job].attempt = owner.attempt
  <2>1. FreeSlot /\ Save(WithState(queue, active.job, s))
    BY <1>1 DEF Finish
  <2>2. /\ active.job \in Jobs /\ State(queue, active.job) = "running"
        /\ active.job \notin dropped /\ queue = memory /\ s \in States
    BY <1>1, ActiveIsRunning DEF TransferOutcomes, Outcomes, States
  <2>3. queue.entry[active.job].attempt > 0 /\ queue.entry[active.job].format # "none"
    BY <2>2 DEF IInv, StoreInv, Orderly, Started
  <2>4. StoreTyped' /\ StoreInv' /\ \A k \in Jobs : k # active.job => Same(k)
    BY <2>1, <2>2, <2>3, MoveKeeps
  <2> QED
    BY <2>1, <2>4 DEF FreeSlot
<1>2. CASE ~(/\ owner # NoOwner /\ active = owner
             /\ State(queue, owner.job) = "running"
             /\ queue.entry[owner.job].attempt = owner.attempt)
  <2>1. UNCHANGED <<store, active, yandex_generation>>
    BY <1>2 DEF Finish
  <2> QED
    BY <2>1, NoSaveKeeps DEF IInv, TypeOK
<1> QED
  BY <1>1, <1>2
-----------------------------------------------------------------------------
(* The requests of the user *)

LEMMA EnqueueKeeps ==
  ASSUME IInv, NEW batch \in Batches, Enqueue(batch)
  PROVE  IInv'
<1> DEFINE next == Appended(queue, batch)
           new == queue.next..(queue.next + Len(batch) - 1)
<1>0. StoreTyped /\ SlotTyped /\ WorkersTyped /\ HistoryTyped /\ StoreInv /\ SlotInv
  BY DEF IInv, TypeOK
<1>1. /\ Save(next) /\ reducer'.step \in {"ready", "poll"} /\ reducer'.job = 0
      /\ reducer' \in [step : {"ready", "poll"}, job : {0}]
      /\ UNCHANGED <<slot, question, workers, history, retries, restarts>> /\ queue = memory
      /\ extra' \in Nat
  BY NotBlockedIsStored, <1>0 DEF Enqueue, Continue, HistoryTyped
<1>2. Legal(next)
  BY <1>0, <1>1, AppendedIsLegal
<1>3. /\ next \in Queues
      /\ \A k \in Jobs : k \notin new => next.entry[k] = queue.entry[k]
  BY <1>0, AppendedKeeps DEF StoreTyped
<1>4. (Saved(next) \/ Refused(next)) /\ asked' \in Queues
  BY <1>1, <1>3 DEF Save
<1> HIDE DEF next
<1>5. \A k \in Jobs : State(queue, k) # "none" => next.entry[k] = queue.entry[k]
  <2>1. queue.next \in Nat /\ \A k \in Jobs : k \in Int
    BY <1>0, ConstantsAssumption DEF Jobs, StoreTyped, Queues
  <2>2. \A k \in Jobs : State(queue, k) # "none" => k < queue.next
    BY <1>0, <1>1 DEF StoreInv, Orderly
  <2> QED
    BY <1>3, <2>1, <2>2, BatchLength
<1>6. Cancelled(next, dropped') /\ dropped' = dropped /\ launched' = launched
  <2>1. dropped' = dropped /\ launched' = launched
    BY <1>1 DEF history
  <2> QED
    BY <1>0, <1>1, <1>5, <2>1 DEF StoreInv, Cancelled, State
<1>7. StoreTyped' /\ StoreInv' /\ (queue' = next \/ queue' = queue)
  BY <1>0, <1>2, <1>4, <1>6, SaveKeeps
<1>8. \A k \in Jobs : State(queue, k) # "none" => Same(k)
  BY <1>5, <1>7 DEF Same, State
<1>9. choosing' = choosing /\ active' = active /\ deferred_cache' = deferred_cache
      /\ yandex_generation' = yandex_generation /\ choice' = choice
  BY <1>1 DEF slot, question
<1>10. SlotInv' /\ SlotTyped'
  <2>1. active' # NoOwner => Same(active.job)
    BY <1>8, <1>9, ActiveIsRunning
  <2>2. choosing' # 0 => Same(choosing)
    BY <1>8, <1>9, ChosenIsQueued
  <2>3. SlotInv'
    BY <1>0, <1>1, <1>6, <1>9, <2>1, <2>2, SlotKeeps
  <2> QED
    BY <1>0, <1>1, <1>9, <2>3 DEF SlotTyped
<1>11. WorkersTyped' /\ HistoryTyped'
  BY <1>0, <1>1 DEF WorkersTyped, HistoryTyped, workers, history
<1> QED
  BY <1>7, <1>10, <1>11 DEF IInv, TypeOK

LEMMA RetryKeeps ==
  ASSUME IInv, NEW j \in Jobs, Retry(j)
  PROVE  IInv'
<1>0. StoreTyped /\ SlotTyped /\ WorkersTyped /\ HistoryTyped /\ StoreInv /\ SlotInv
  BY DEF IInv, TypeOK
<1>1. /\ State(queue, j) \in {"failed", "cancelled"} /\ Save(WithState(queue, j, "queued"))
      /\ dropped' = dropped \ {j} /\ retries' = retries + 1
      /\ reducer' = [step |-> "poll", job |-> 0]
      /\ UNCHANGED <<slot, question, workers, launched, fetched, closing, extra, restarts>>
      /\ queue = memory
  BY NotBlockedIsStored, <1>0 DEF Retry, Continue
<1>2. launched' = launched /\ choosing' = choosing /\ active' = active /\ choice' = choice
      /\ deferred_cache' = deferred_cache /\ yandex_generation' = yandex_generation
  BY <1>1 DEF slot, question
<1>3. StoreTyped' /\ StoreInv' /\ \A k \in Jobs : k # j => Same(k)
  <2>1. "queued" \in States /\ "queued" \notin Started
    BY DEF States, Started
  <2>2. State(queue, j) # "none"
    BY <1>1
  <2>3. j \notin dropped'
    BY <1>1
  <2> QED
    BY <1>1, <1>2, <2>1, <2>2, <2>3, MoveKeeps
<1>4. active # NoOwner => active.job # j /\ active.job \in Jobs
  BY <1>1, ActiveIsRunning
<1>5. choosing # 0 => choosing # j /\ choosing \in Jobs
  BY <1>1, ChosenIsQueued
<1>6. SlotInv' /\ SlotTyped'
  <2>1. reducer'.step \in {"ready", "poll"}
    BY <1>1
  <2>2. SlotInv'
    BY <1>0, <1>2, <1>3, <1>4, <1>5, <2>1, SlotKeeps
  <2> QED
    BY <1>0, <1>1, <1>2, <2>2 DEF SlotTyped
<1>7. WorkersTyped' /\ HistoryTyped'
  BY <1>0, <1>1 DEF WorkersTyped, HistoryTyped, workers
<1> QED
  BY <1>3, <1>6, <1>7 DEF IInv, TypeOK

\* Cancelling what runs: native, copied or downloaded.
LEMMA CancelRunningKeeps ==
  ASSUME IInv, CancelNative \/ CancelCached \/ CancelTransfer,
         UNCHANGED <<question, reducer, launched, fetched, closing, bounds>>,
         Idle
  PROVE  IInv'
<1>0. StoreTyped /\ SlotTyped /\ WorkersTyped /\ HistoryTyped /\ StoreInv /\ SlotInv
  BY DEF IInv, TypeOK
<1>1. launched' = launched /\ choosing' = choosing /\ choice' = choice /\ reducer' = reducer
      /\ reducer'.step = "ready"
  BY DEF question, Idle
<1>2. CancelOwner \/ UNCHANGED <<store, slot, dropped>>
  BY DEF CancelNative, CancelCached, CancelTransfer
<1>3. /\ StoreTyped' /\ StoreInv' /\ dropped' \subseteq Jobs
      /\ SlotInv' /\ SlotTyped'
  <2>1. CASE CancelOwner
    <3>1. /\ StoreTyped' /\ StoreInv' /\ dropped' \subseteq Jobs
          /\ active' = NoOwner /\ deferred_cache' = FALSE /\ yandex_generation' = 0
          /\ \A k \in Jobs : k # active.job => Same(k)
      BY <2>1, <1>1, CancelOwnerKeeps
    <3>2. choosing # 0 => choosing \in Jobs /\ choosing # active.job
      BY ChosenIsQueued, ConstantsAssumption DEF NoOwner, Jobs
    <3>3. SlotInv'
      BY <1>0, <1>1, <3>1, <3>2, SlotKeeps
    <3> QED
      BY <1>0, <1>1, <3>1, <3>3 DEF SlotTyped, Owners
  <2>2. CASE UNCHANGED <<store, slot, dropped>>
    <3>1. StoreTyped' /\ StoreInv'
      BY <1>0, <1>1, <2>2, NoSaveKeeps
    <3>2. SlotInv' /\ SlotTyped'
      BY <1>0, <2>2, SlotUntouched
    <3> QED
      BY <1>0, <2>2, <3>1, <3>2 DEF HistoryTyped
  <2> QED
    BY <1>2, <2>1, <2>2
<1>4. WorkersTyped'
  <2>1. CASE CancelNative
    <3>1. /\ generation' = generation + 1
          /\ native' = IF native.done THEN NoThread ELSE [native EXCEPT !.cancelled = TRUE]
          /\ UNCHANGED <<transfer, cached, gate, responses>>
      BY <2>1 DEF CancelNative
    <3>2. NoThread \in Threads
      BY DEF NoThread, Threads, Owners
    <3>3. native' \in Threads
      BY <1>0, <3>1, <3>2 DEF WorkersTyped, Threads
    <3> QED
      BY <1>0, <3>1, <3>3 DEF WorkersTyped
  <2>2. CASE CancelCached
    <3>1. cached' = NoCopy /\ UNCHANGED <<transfer, gate, native, generation, responses>>
      BY <2>2 DEF CancelCached
    <3> QED
      BY <1>0, <3>1 DEF WorkersTyped, NoCopy, Owners
  <2>3. CASE CancelTransfer
    <3>1. transfer' = NoTransfer /\ UNCHANGED <<cached, gate, native, generation, responses>>
      BY <2>3 DEF CancelTransfer
    <3> QED
      BY <1>0, <3>1 DEF WorkersTyped, NoTransfer, Owners
  <2> QED
    BY <2>1, <2>2, <2>3
<1>5. HistoryTyped'
  BY <1>0, <1>3 DEF HistoryTyped, bounds
<1> QED
  BY <1>3, <1>4, <1>5 DEF IInv, TypeOK

LEMMA CancelJobKeeps ==
  ASSUME IInv, NEW j \in Jobs, CancelJob(j)
  PROVE  IInv'
<1>0. StoreTyped /\ SlotTyped /\ WorkersTyped /\ HistoryTyped /\ StoreInv /\ SlotInv
  BY DEF IInv, TypeOK
<1>1. /\ Idle /\ queue = memory
      /\ UNCHANGED <<reducer, launched, fetched, closing, bounds>>
  BY NotBlockedIsStored, <1>0 DEF CancelJob
<1>2. CASE (CancelNative \/ CancelCached \/ CancelTransfer) /\ UNCHANGED question
  BY <1>1, <1>2, CancelRunningKeeps
<1>3. CASE /\ active.job # j /\ CancelEntry(j) /\ State(queue, j) = "queued"
           /\ choosing' = IF choosing = j THEN 0 ELSE choosing
           /\ choice' \in BOOLEAN
           /\ UNCHANGED <<slot, workers>>
  <2>1. StoreTyped' /\ StoreInv' /\ dropped' \subseteq Jobs /\ \A k \in Jobs : k # j => Same(k)
    BY <1>1, <1>3, CancelEntryKeeps
  <2>2. active' = active /\ deferred_cache' = deferred_cache /\ reducer' = reducer
        /\ yandex_generation' = yandex_generation /\ launched' = launched
        /\ reducer'.step = "ready"
    BY <1>1, <1>3 DEF slot, Idle
  <2>3. active' # NoOwner => Same(active.job)
    BY <1>3, <2>1, <2>2, ActiveIsRunning
  <2>4. (choosing' = choosing \/ choosing' = 0) /\ (choosing' # 0 => Same(choosing))
    BY <1>3, <2>1, ChosenIsQueued
  <2>5. SlotInv'
    BY <1>0, <2>2, <2>3, <2>4, SlotKeeps
  <2>6. SlotTyped'
    BY <1>0, <1>3, <2>2, <2>4 DEF SlotTyped
  <2>7. WorkersTyped' /\ HistoryTyped'
    BY <1>0, <1>1, <1>3, <2>1 DEF WorkersTyped, HistoryTyped, workers, bounds
  <2> QED
    BY <2>1, <2>5, <2>6, <2>7 DEF IInv, TypeOK
<1>4. choosing = j => State(queue, j) = "queued"
  BY <1>0, ConstantsAssumption DEF SlotInv, Jobs
<1> QED
  BY <1>0, <1>2, <1>3, <1>4 DEF CancelJob, question, SlotTyped

LEMMA DismissChoiceKeeps ==
  ASSUME IInv, DismissChoice
  PROVE  IInv'
<1>0. StoreTyped /\ SlotTyped /\ WorkersTyped /\ HistoryTyped /\ StoreInv /\ SlotInv
  BY DEF IInv, TypeOK
<1>1. /\ choosing # 0 /\ choosing' = 0 /\ choice' = FALSE /\ CancelEntry(choosing)
      /\ UNCHANGED <<slot, workers, reducer, launched, fetched, closing, bounds>>
      /\ reducer.step = "ready"
  BY DEF DismissChoice, Idle
<1>2. choosing \in Jobs /\ State(queue, choosing) = "queued" /\ queue = memory
      /\ active = NoOwner
  BY <1>1, ChosenIsQueued
<1>3. StoreTyped' /\ StoreInv' /\ dropped' \subseteq Jobs
  BY <1>1, <1>2, CancelEntryKeeps
<1>4. active' = active /\ deferred_cache' = deferred_cache /\ reducer' = reducer
      /\ yandex_generation' = yandex_generation /\ launched' = launched
  BY <1>1 DEF slot
<1>5. SlotInv' /\ SlotTyped'
  <2>1. SlotInv'
    BY <1>0, <1>1, <1>2, <1>4, SlotKeeps
  <2> QED
    BY <1>0, <1>1, <1>4, <2>1 DEF SlotTyped
<1>6. WorkersTyped' /\ HistoryTyped'
  BY <1>0, <1>1, <1>3 DEF WorkersTyped, HistoryTyped, workers, bounds
<1> QED
  BY <1>3, <1>5, <1>6 DEF IInv, TypeOK

LEMMA ForeignKeeps ==
  ASSUME IInv, StartChannel \/ StartBatch
  PROVE  IInv'
<1>0. StoreTyped /\ SlotTyped /\ WorkersTyped /\ HistoryTyped /\ StoreInv /\ SlotInv
  BY DEF IInv, TypeOK
<1>1. /\ UNCHANGED <<store, slot, question, gate, cached, responses, reducer, history, retries,
                     restarts>>
      /\ extra' = extra + 1
  BY DEF StartChannel, StartBatch
<1>2. launched' = launched /\ dropped' = dropped /\ fetched' = fetched /\ closing' = closing
  BY <1>1 DEF history
<1>3. WorkersTyped'
  <2>1. NoThread \in Threads /\ NoThread.owner \in Owners /\ NoOwner \in Owners
    BY DEF NoThread, Threads, Owners
  <2>2. CASE StartChannel
    BY <1>0, <1>1, <2>1, <2>2 DEF StartChannel, WorkersTyped
  <2>3. CASE StartBatch
    <3>1. generation' = generation + 1 /\ native' = [NoThread EXCEPT !.generation = generation']
          /\ transfer' = transfer
      BY <2>3 DEF StartBatch
    <3>2. native' \in Threads /\ generation' \in Nat
      BY <1>0, <2>1, <3>1 DEF WorkersTyped, Threads
    <3> QED
      BY <1>0, <1>1, <3>1, <3>2 DEF WorkersTyped
  <2> QED
    BY <2>2, <2>3
<1>4. StoreTyped' /\ StoreInv' /\ SlotTyped' /\ SlotInv'
  BY <1>0, <1>1, <1>2, NoSaveKeeps, SlotUntouched
<1>5. HistoryTyped'
  BY <1>0, <1>1, <1>2 DEF HistoryTyped
<1> QED
  BY <1>3, <1>4, <1>5 DEF IInv, TypeOK
-----------------------------------------------------------------------------
(* The poll of the queue, the question and the launch *)

LEMMA PollKeeps ==
  ASSUME IInv, PollDeferred \/ PollNothing \/ \E j \in Jobs : PollChoose(j)
  PROVE  IInv'
<1>0. StoreTyped /\ SlotTyped /\ WorkersTyped /\ HistoryTyped /\ StoreInv /\ SlotInv
  BY DEF IInv, TypeOK
<1>1. UNCHANGED <<store, active, yandex_generation, workers, history, bounds>>
  BY DEF PollDeferred, PollNothing, PollChoose, slot
<1>2. launched' = launched /\ dropped' = dropped /\ queue' = queue
      /\ active' = active /\ yandex_generation' = yandex_generation
  BY <1>1 DEF history, store
<1>3. StoreTyped' /\ StoreInv'
  BY <1>0, <1>1, <1>2, NoSaveKeeps
<1>4. WorkersTyped' /\ HistoryTyped'
  BY <1>0, <1>1 DEF WorkersTyped, HistoryTyped, workers, history, bounds
<1>5. \A k \in Jobs : Same(k)
  BY <1>2 DEF Same, State
<1>6. active # NoOwner => active.job \in Jobs
  BY ActiveIsRunning
<1>7. SlotInv' /\ SlotTyped'
  <2>1. CASE PollDeferred
    <3>1. /\ deferred_cache /\ deferred_cache' = FALSE /\ UNCHANGED question
          /\ reducer' = IF active = NoOwner THEN [step |-> "ready", job |-> 0]
                                            ELSE [step |-> "launch", job |-> active.job]
      BY <2>1 DEF PollDeferred, Resumable, Continue, Done
    <3>2. choosing' = choosing /\ choice' = choice /\ choosing = 0
      BY <1>0, <3>1 DEF question, SlotInv
    <3>3. SlotTyped'
      BY <1>0, <1>2, <1>6, <3>1, <3>2 DEF SlotTyped
    <3>4. SlotInv'
      BY <1>0, <1>2, <3>1, <3>2 DEF SlotInv, State
    <3> QED
      BY <3>3, <3>4
  <2>2. CASE PollNothing
    <3>1. reducer' = [step |-> "ready", job |-> 0] /\ UNCHANGED <<deferred_cache, question>>
      BY <2>2 DEF PollNothing, Continue, Done, slot
    <3>2. choosing' = choosing /\ choice' = choice /\ deferred_cache' = deferred_cache
          /\ reducer'.step = "ready"
      BY <3>1 DEF question
    <3>3. SlotInv'
      BY <1>0, <1>2, <1>5, <1>6, <3>2, ChosenIsQueued, SlotKeeps
    <3> QED
      BY <1>0, <1>2, <3>1, <3>2, <3>3 DEF SlotTyped
  <2>3. ASSUME NEW j \in Jobs, PollChoose(j)
        PROVE  SlotInv' /\ SlotTyped'
    <3>1. /\ ~Resumable /\ Startable /\ State(queue, j) = "queued"
          /\ queue.entry[j].media \notin Native
          /\ choosing' = j /\ choice' \in BOOLEAN /\ deferred_cache' = deferred_cache
          /\ reducer' \in {[step |-> "ready", job |-> 0], [step |-> "capture", job |-> j]}
      BY <1>0, <2>3, NotBlockedIsStored
         DEF PollChoose, FirstQueued, Startable, Continue, Done, slot, StoreInv, Clean
    <3>2. active = NoOwner /\ ~deferred_cache
      BY <1>0, <3>1 DEF Resumable, Startable, Busy, SlotTyped
    <3>3. SlotTyped'
      BY <1>0, <1>2, <3>1 DEF SlotTyped
    <3>4. reducer'.step \notin {"begin", "launch", "down"}
      BY <3>1
    <3>5. SlotInv'
      BY <1>0, <1>2, <3>1, <3>2, <3>4 DEF SlotInv, State
    <3> QED
      BY <3>3, <3>5
  <2> QED
    BY <2>1, <2>2, <2>3
<1> QED
  BY <1>3, <1>4, <1>7 DEF IInv, TypeOK

\* An attempt is numbered and saved: it has no worker yet.
LEMMA BeginAttemptKeeps ==
  ASSUME IInv, NEW j \in Jobs, BeginAttempt(j), UNCHANGED question,
         choosing = 0, ~deferred_cache, active = NoOwner,
         queue.entry[j].format # "none"
  PROVE  IInv'
<1> DEFINE next == Begun(j)
<1>0. /\ StoreTyped /\ SlotTyped /\ WorkersTyped /\ HistoryTyped /\ StoreInv /\ SlotInv
      /\ queue \in Queues
  BY DEF IInv, TypeOK, StoreTyped
<1>1. /\ State(queue, j) = "queued" /\ Save(next)
      /\ IF Confirmed
         THEN /\ active' = [job |-> j, attempt |-> next.entry[j].attempt]
              /\ reducer' = [step |-> "launch", job |-> j]
         ELSE active' = active /\ reducer' = [step |-> "ready", job |-> 0]
      /\ UNCHANGED <<deferred_cache, yandex_generation, workers, history, bounds>>
  BY DEF BeginAttempt, Continue, Done
<1>2. launched' = launched /\ dropped' = dropped /\ choosing' = choosing /\ choice' = choice
  BY <1>1 DEF history, question
<1>3. queue = memory /\ j \notin dropped
  BY <1>0, <1>1, QueueIsStored
<1>4. Legal(next)
  BY <1>0, <1>1, <1>3, BegunIsLegal
<1>5. /\ next \in Queues /\ next.entry[j].state = "running"
      /\ next.entry[j].attempt = queue.entry[j].attempt + 1
      /\ \A k \in Jobs : k # j => next.entry[k].state = queue.entry[k].state
  BY <1>0, BegunKeeps DEF State
<1>6. (Saved(next) \/ Refused(next)) /\ asked' \in Queues
  BY <1>1, <1>5 DEF Save
<1> HIDE DEF next
<1>7. Cancelled(next, dropped')
  BY <1>0, <1>2, <1>3, <1>5 DEF StoreInv, Cancelled, State
<1>8. /\ StoreTyped' /\ StoreInv'
      /\ Confirmed => queue' = next
      /\ ~Confirmed => queue' = queue
  BY <1>0, <1>2, <1>4, <1>6, <1>7, SaveKeeps
<1>9. next.entry[j].attempt \in Nat /\ launched[j] < next.entry[j].attempt
  BY <1>0, <1>3, <1>5 DEF StoreInv, HistoryTyped, Queues, Entries
<1>10. SlotInv' /\ SlotTyped'
  <2>1. CASE Confirmed
    <3>1. active' = [job |-> j, attempt |-> next.entry[j].attempt]
          /\ reducer' = [step |-> "launch", job |-> j] /\ queue' = next
      BY <1>1, <1>8, <2>1
    <3>2. SlotTyped'
      BY <1>0, <1>1, <1>2, <1>9, <3>1 DEF SlotTyped, Owners
    <3>3. SlotInv'
      BY <1>1, <1>2, <1>5, <1>9, <3>1 DEF SlotInv, State
    <3> QED
      BY <3>2, <3>3
  <2>2. CASE ~Confirmed
    <3>1. active' = active /\ reducer' = [step |-> "ready", job |-> 0] /\ queue' = queue
      BY <1>1, <1>8, <2>2
    <3>2. SlotTyped'
      BY <1>0, <1>1, <1>2, <3>1 DEF SlotTyped
    <3>3. SlotInv'
      BY <1>1, <1>2, <3>1 DEF SlotInv
    <3> QED
      BY <3>2, <3>3
  <2> QED
    BY <2>1, <2>2
<1>11. WorkersTyped' /\ HistoryTyped'
  BY <1>0, <1>1 DEF WorkersTyped, HistoryTyped, workers, history, bounds
<1> QED
  BY <1>8, <1>10, <1>11 DEF IInv, TypeOK

LEMMA BeginKeeps ==
  ASSUME IInv, BeginChosen \/ \E j \in Jobs : PollBegin(j)
  PROVE  IInv'
<1>1. CASE BeginChosen
  <2>1. reducer.step = "begin" /\ BeginAttempt(reducer.job) /\ UNCHANGED question
    BY <1>1 DEF BeginChosen
  <2>2. choosing = 0 /\ ~deferred_cache /\ active = NoOwner
        /\ reducer.job \in Jobs /\ queue.entry[reducer.job].format # "none"
    BY <2>1 DEF IInv, SlotInv
  <2> QED
    BY <2>1, <2>2, BeginAttemptKeeps
<1>2. ASSUME NEW j \in Jobs, PollBegin(j)
      PROVE  IInv'
  <2>1. /\ ~Resumable /\ Startable /\ queue.entry[j].format # "none" /\ BeginAttempt(j)
        /\ UNCHANGED question
    BY <1>2 DEF PollBegin
  <2>2. choosing = 0 /\ ~deferred_cache /\ active = NoOwner
    BY <2>1 DEF Resumable, Startable, Busy, IInv, TypeOK, SlotTyped
  <2> QED
    BY <2>1, <2>2, BeginAttemptKeeps
<1> QED
  BY <1>1, <1>2

LEMMA AnswerKeeps ==
  ASSUME IInv, ConfirmChoice \/ ChoiceFails
  PROVE  IInv'
<1>0. /\ StoreTyped /\ SlotTyped /\ WorkersTyped /\ HistoryTyped /\ StoreInv /\ SlotInv
      /\ queue \in Queues
  BY DEF IInv, TypeOK, StoreTyped
<1>1. /\ choosing # 0 /\ choice' = FALSE
      /\ UNCHANGED <<slot, workers, history, bounds>>
  BY DEF ConfirmChoice, ChoiceFails, Asking
<1>2. /\ choosing \in Jobs /\ State(queue, choosing) = "queued"
      /\ choosing \notin dropped /\ queue = memory
      /\ queue.entry[choosing].media \notin Native
      /\ active = NoOwner /\ ~deferred_cache
  BY <1>0, <1>1, ChosenIsQueued DEF SlotInv
<1>3. launched' = launched /\ dropped' = dropped /\ active' = active
      /\ deferred_cache' = deferred_cache /\ yandex_generation' = yandex_generation
  BY <1>1 DEF history, slot
<1>4. WorkersTyped' /\ HistoryTyped'
  BY <1>0, <1>1 DEF WorkersTyped, HistoryTyped, workers, history, bounds
<1>5. CASE ChoiceFails
  <2>1. /\ choosing' = 0 /\ reducer' = [step |-> "ready", job |-> 0]
        /\ Save(WithState(queue, choosing, "failed"))
    BY <1>5 DEF ChoiceFails, Done, Continue
  <2>2. "failed" \in States /\ "failed" \notin Started
    BY DEF States, Started
  <2>3. StoreTyped' /\ StoreInv'
    BY <1>2, <1>3, <2>1, <2>2, MoveKeeps
  <2>4. reducer'.step = "ready"
    BY <2>1
  <2>5. SlotInv'
    BY <1>0, <1>2, <1>3, <2>1, <2>4, SlotKeeps
  <2>6. SlotTyped'
    BY <1>0, <1>1, <1>3, <2>1 DEF SlotTyped
  <2> QED
    BY <1>4, <2>3, <2>5, <2>6 DEF IInv, TypeOK
<1>6. CASE ConfirmChoice
  <2> DEFINE next == [queue EXCEPT !.entry[choosing].format = "other"]
  <2>1. /\ Save(next)
        /\ choosing' = IF Confirmed THEN 0 ELSE choosing
        /\ reducer' = IF Confirmed /\ ~Busy THEN [step |-> "begin", job |-> choosing]
                                            ELSE [step |-> "ready", job |-> 0]
    BY <1>6 DEF ConfirmChoice, Done, Continue
  <2>2. Legal(next)
    BY <1>0, <1>2, FormatIsLegal
  <2>3. /\ next \in Queues /\ next.entry[choosing].format # "none"
        /\ \A k \in Jobs : /\ next.entry[k].state = queue.entry[k].state
                           /\ next.entry[k].media = queue.entry[k].media
    BY <1>0, <1>2, FormatKeeps DEF State
  <2>4. (Saved(next) \/ Refused(next)) /\ asked' \in Queues
    BY <2>1, <2>3 DEF Save
  <2> HIDE DEF next
  <2>5. Cancelled(next, dropped')
    BY <1>0, <1>2, <1>3, <2>3 DEF StoreInv, Cancelled, State
  <2>6. /\ StoreTyped' /\ StoreInv'
        /\ Confirmed => queue' = next
        /\ ~Confirmed => queue' = queue
    BY <1>0, <1>3, <2>2, <2>4, <2>5, SaveKeeps
  <2>7. SlotTyped'
    <3>1. choosing' \in Jobs \cup {0}
      BY <1>2, <2>1
    <3>2. reducer' \in [step : {"ready", "begin"}, job : Jobs \cup {0}]
      BY <1>2, <2>1
    <3> QED
      BY <1>0, <1>1, <1>3, <3>1, <3>2 DEF SlotTyped
  <2>8. SlotInv'
    <3>1. CASE Confirmed
      <4>1. /\ choosing' = 0 /\ queue' = next
            /\ reducer'.step \in {"ready", "begin"}
            /\ reducer'.step = "begin" => reducer'.job = choosing
        BY <2>1, <2>6, <3>1
      <4> QED
        BY <1>2, <1>3, <2>3, <4>1 DEF SlotInv
    <3>2. CASE ~Confirmed
      <4>1. choosing' = choosing /\ queue' = queue /\ reducer'.step = "ready"
        BY <2>1, <2>6, <3>2
      <4> QED
        BY <1>2, <1>3, <4>1 DEF SlotInv, State
    <3> QED
      BY <3>1, <3>2
  <2> QED
    BY <1>4, <2>6, <2>7, <2>8 DEF IInv, TypeOK
<1> QED
  BY <1>5, <1>6
\* A worker is started for the active attempt, once.
LEMMA LaunchKeeps ==
  ASSUME IInv, LaunchNative \/ LaunchCached \/ LaunchTransfer
  PROVE  IInv'
<1>0. StoreTyped /\ SlotTyped /\ WorkersTyped /\ HistoryTyped /\ StoreInv /\ SlotInv
  BY DEF IInv, TypeOK
<1>1. /\ reducer.step = "launch" /\ active # NoOwner
      /\ launched' = [launched EXCEPT ![active.job] = active.attempt]
      /\ reducer' = [step |-> "ready", job |-> 0]
      /\ UNCHANGED <<store, active, deferred_cache, question, fetched, dropped, closing, bounds>>
  BY DEF LaunchNative, LaunchCached, LaunchTransfer, Launching, Note, Done, Continue, slot
<1>2. /\ active.job \in Jobs /\ active.attempt \in Nat
      /\ State(queue, active.job) = "running" /\ queue = memory
      /\ queue.entry[active.job].attempt = active.attempt /\ ~deferred_cache
  BY <1>0, <1>1, OwnersAreJobs, ActiveIsRunning DEF SlotInv, SlotTyped
<1>3. choosing = 0
  BY <1>0, <1>1 DEF SlotInv
<1>4. UNCHANGED <<queue, pending_write, blocked, memory, disk, drifted, refused, asked, faults>>
      /\ choosing' = choosing /\ choice' = choice /\ dropped' = dropped
  BY <1>1 DEF store, question
<1>5. StoreTyped'
  BY <1>0, <1>4 DEF StoreTyped
<1>6. \A j \in Jobs : launched'[j] <= memory.entry[j].attempt
  BY <1>0, <1>1, <1>2 DEF StoreInv, HistoryTyped
<1>7. StoreInv'
  BY <1>0, <1>4, <1>6 DEF StoreInv
<1>8. SlotInv'
  BY <1>0, <1>1, <1>2, <1>3, <1>4 DEF SlotInv, State
<1>9. yandex_generation' \in Nat /\ WorkersTyped'
  <2>1. active \in Owners /\ generation \in Nat /\ yandex_generation \in Nat
    BY <1>0 DEF SlotTyped, WorkersTyped
  <2>2. CASE LaunchNative
    <3>1. /\ generation' = generation + 1 /\ yandex_generation' = generation'
          /\ native' = [generation |-> generation', cancelled |-> FALSE, done |-> FALSE,
                        owner |-> active]
          /\ UNCHANGED <<transfer, cached, gate, responses>>
      BY <2>2 DEF LaunchNative
    <3>2. native' \in Threads /\ generation' \in Nat
      BY <2>1, <3>1 DEF Threads
    <3> QED
      BY <1>0, <3>1, <3>2 DEF WorkersTyped
  <2>3. CASE LaunchCached
    <3>1. cached' = [owner |-> active, result |-> "none"] /\ gate' = TRUE
          /\ UNCHANGED <<yandex_generation, transfer, native, generation, responses>>
      BY <2>3 DEF LaunchCached, slot
    <3> QED
      BY <1>0, <2>1, <3>1 DEF WorkersTyped
  <2>4. CASE LaunchTransfer
    <3>1. transfer' = [owner |-> active, running |-> TRUE]
          /\ UNCHANGED <<yandex_generation, cached, gate, native, generation, responses>>
      BY <2>4 DEF LaunchTransfer, slot
    <3> QED
      BY <1>0, <2>1, <3>1 DEF WorkersTyped
  <2> QED
    BY <2>2, <2>3, <2>4
<1>10. SlotTyped'
  BY <1>0, <1>1, <1>4, <1>9 DEF SlotTyped
<1>11. HistoryTyped'
  BY <1>0, <1>1, <1>2 DEF HistoryTyped, bounds
<1> QED
  BY <1>5, <1>7, <1>8, <1>9, <1>10, <1>11 DEF IInv, TypeOK

LEMMA LaunchDeferredKeeps ==
  ASSUME IInv, LaunchDeferred
  PROVE  IInv'
<1>0. StoreTyped /\ SlotTyped /\ WorkersTyped /\ HistoryTyped /\ StoreInv /\ SlotInv
  BY DEF IInv, TypeOK
<1>1. /\ reducer.step = "launch" /\ active # NoOwner /\ deferred_cache' = TRUE
      /\ reducer' = [step |-> "ready", job |-> 0]
      /\ UNCHANGED <<store, active, yandex_generation, question, workers, history, bounds>>
  BY DEF LaunchDeferred, Launching, Done, Continue
<1>2. /\ launched' = launched /\ dropped' = dropped /\ choosing' = choosing
      /\ choice' = choice /\ queue' = queue
  BY <1>1 DEF history, question, store
<1>3. StoreTyped' /\ StoreInv'
  BY <1>0, <1>1, <1>2, NoSaveKeeps
<1>4. SlotTyped'
  BY <1>0, <1>1, <1>2 DEF SlotTyped
<1>5. SlotInv'
  BY <1>0, <1>1, <1>2 DEF SlotInv, State
<1>6. WorkersTyped' /\ HistoryTyped'
  BY <1>0, <1>1 DEF WorkersTyped, HistoryTyped, workers, history, bounds
<1> QED
  BY <1>3, <1>4, <1>5, <1>6 DEF IInv, TypeOK

-----------------------------------------------------------------------------
(* Workers and their outcomes *)

LEMMA WorkerEndsKeeps ==
  ASSUME IInv, WorkerEnds
  PROVE  IInv'
<1>0. StoreTyped /\ SlotTyped /\ WorkersTyped /\ HistoryTyped /\ StoreInv /\ SlotInv
  BY DEF IInv, TypeOK
<1>1. UNCHANGED <<store, slot, question, reducer, launched, dropped, closing, bounds>>
  BY DEF WorkerEnds, CopyEnds, NativeEnds, GateOpens, history
<1>2. StoreTyped' /\ StoreInv' /\ SlotTyped' /\ SlotInv'
  BY <1>0, <1>1, NoSaveKeeps, SlotUntouched
<1>3. WorkersTyped' /\ fetched' \subseteq Owners
  <2>1. ASSUME NEW r \in {"hit", "miss"}, CopyEnds(r)
        PROVE  WorkersTyped' /\ fetched' \subseteq Owners
    <3>1. cached' = [cached EXCEPT !.result = r] /\ fetched' = fetched
          /\ UNCHANGED <<transfer, gate, native, generation, responses>>
      BY <2>1 DEF CopyEnds, history
    <3> QED
      BY <1>0, <3>1 DEF WorkersTyped, HistoryTyped
  <2>2. ASSUME NEW s \in Outcomes, NativeEnds(s)
        PROVE  WorkersTyped' /\ fetched' \subseteq Owners
    <3>1. /\ native' = [native EXCEPT !.done = TRUE]
          /\ responses' = Append(responses, [generation |-> native.generation, state |-> s])
          /\ fetched' = (IF s # "failed" /\ native.owner # NoOwner
                         THEN fetched \cup {native.owner} ELSE fetched)
          /\ UNCHANGED <<transfer, cached, gate, generation>>
      BY <2>2 DEF NativeEnds, Fetched
    <3>2. native' \in Threads /\ native.owner \in Owners /\ native.generation \in Nat
      BY <1>0, <3>1 DEF WorkersTyped, Threads
    <3>3. [generation |-> native.generation, state |-> s] \in [generation : Nat, state : Outcomes]
      BY <3>2
    <3>4. responses' \in Seq([generation : Nat, state : Outcomes])
      BY <1>0, <3>1, <3>3 DEF WorkersTyped
    <3> QED
      BY <1>0, <3>1, <3>2, <3>4 DEF WorkersTyped, HistoryTyped
  <2>3. CASE GateOpens
    BY <1>0, <2>3 DEF GateOpens, WorkersTyped, HistoryTyped, history
  <2> QED
    BY <2>1, <2>2, <2>3 DEF WorkerEnds
<1>4. HistoryTyped'
  BY <1>0, <1>1, <1>3 DEF HistoryTyped, bounds
<1> QED
  BY <1>2, <1>3, <1>4 DEF IInv, TypeOK

\* Whatever an outcome is, it finishes the active attempt or leaves the slot alone.
LEMMA OutcomeKeeps ==
  ASSUME IInv,
         \/ \E owner : \E s \in TransferOutcomes : Finish(owner, s)
         \/ UNCHANGED <<store, active, yandex_generation>>,
         UNCHANGED <<deferred_cache, question, launched, dropped>>,
         reducer'.step \in {"ready", "poll"}, reducer' \in [step : {"ready", "poll"}, job : {0}],
         reducer.step # "down"
  PROVE  StoreTyped' /\ StoreInv' /\ SlotTyped' /\ SlotInv'
<1>0. StoreTyped /\ SlotTyped /\ HistoryTyped /\ StoreInv /\ SlotInv
  BY DEF IInv, TypeOK
<1>1. choosing' = choosing /\ choice' = choice
  BY DEF question
<1> DEFINE Freed == /\ active' = NoOwner /\ yandex_generation' = 0
                    /\ \A k \in Jobs : k # active.job => Same(k)
           Kept == UNCHANGED <<store, active, yandex_generation>>
<1>2. StoreTyped' /\ StoreInv' /\ (Freed \/ Kept)
  <2>1. ASSUME NEW owner, NEW s \in TransferOutcomes, Finish(owner, s)
        PROVE  StoreTyped' /\ StoreInv' /\ (Freed \/ Kept)
    BY <2>1, FinishKeeps
  <2>2. CASE Kept
    BY <1>0, <2>2, NoSaveKeeps
  <2> QED
    BY <2>1, <2>2
<1>3. choosing # 0 => choosing \in Jobs /\ choosing # active.job
  BY ChosenIsQueued, ConstantsAssumption DEF NoOwner, Jobs
<1>4. SlotInv'
  <2>1. CASE active' = NoOwner /\ \A k \in Jobs : k # active.job => Same(k)
    BY <1>0, <1>1, <1>3, <2>1, SlotKeeps
  <2>2. CASE UNCHANGED <<store, active, yandex_generation>>
    <3>1. \A k : Same(k)
      BY <2>2 DEF Same, State, store
    <3> QED
      BY <1>0, <1>1, <2>2, <3>1, SlotKeeps
  <2> QED
    BY <1>2, <2>1, <2>2
<1>5. SlotTyped'
  BY <1>0, <1>1, <1>2 DEF SlotTyped, Owners
<1> QED
  BY <1>2, <1>4, <1>5
\* What stands in the slot when nothing does.
LEMMA IdleTyped ==
  /\ NoOwner \in Owners /\ NoThread \in Threads
  /\ NoTransfer \in [owner : Owners, running : BOOLEAN]
  /\ NoCopy \in [owner : Owners, result : {"none", "hit", "miss"}]
<1>1. NoOwner \in Owners
  BY DEF Owners
<1>2. NoThread \in Threads
  BY <1>1 DEF NoThread, Threads
<1>3. NoTransfer \in [owner : Owners, running : BOOLEAN]
  BY <1>1 DEF NoTransfer
<1> QED
  BY <1>1, <1>2, <1>3 DEF NoCopy

LEMMA TailTyped ==
  ASSUME NEW S, NEW s \in Seq(S), s # <<>>
  PROVE  Head(s) \in S /\ Tail(s) \in Seq(S)
  OBVIOUS

LEMMA OutcomesKeep ==
  ASSUME IInv, Outcome \/ LaunchFails
  PROVE  IInv'
<1>0. StoreTyped /\ SlotTyped /\ WorkersTyped /\ HistoryTyped /\ StoreInv /\ SlotInv
  BY DEF IInv, TypeOK
<1>1. /\ UNCHANGED <<deferred_cache, question, launched, dropped, closing, bounds>>
      /\ reducer' \in [step : {"ready", "poll"}, job : {0}]
      /\ reducer.step # "down"
  BY DEF Outcome, LaunchFails, TransferOutcome, CopyOutcome, Respond, Reap, Launching, Idle,
         Done, Continue, slot, history
<1> DEFINE Ends == /\ \/ \E owner : \E s \in TransferOutcomes : Finish(owner, s)
                      \/ UNCHANGED <<store, active, yandex_generation>>
                   /\ WorkersTyped' /\ fetched' \subseteq Owners
<1>2. Ends
  <2>1. active \in Owners /\ {"completed", "failed"} \subseteq Outcomes
        /\ Outcomes \subseteq TransferOutcomes
    BY <1>0 DEF SlotTyped, Outcomes, TransferOutcomes
  <2>2. CASE LaunchFails
    <3>1. Finish(active, "failed") /\ UNCHANGED <<workers, fetched>>
      BY <2>2 DEF LaunchFails, history
    <3> QED
      BY <1>0, <2>1, <3>1 DEF WorkersTyped, HistoryTyped, workers
  <2>3. ASSUME NEW s \in TransferOutcomes, TransferOutcome(s)
        PROVE  Ends
    <3>1. /\ Finish(transfer.owner, s) /\ transfer' = NoTransfer
          /\ UNCHANGED <<cached, gate, native, generation, responses>>
          /\ fetched' = (IF s # "failed" /\ transfer.owner # NoOwner
                         THEN fetched \cup {transfer.owner} ELSE fetched)
      BY <2>3 DEF TransferOutcome, Fetched
    <3>2. fetched' \subseteq Owners
      BY <1>0, <3>1 DEF WorkersTyped, HistoryTyped
    <3>3. WorkersTyped'
      BY <1>0, <3>1 DEF WorkersTyped, NoTransfer, Owners
    <3> QED
      BY <3>1, <3>2, <3>3
  <2>4. CASE CopyOutcome
    <3>1. /\ cached' = NoCopy
          /\ UNCHANGED <<gate, native, generation, responses>>
          /\ transfer' = transfer \/ transfer' = [owner |-> active, running |-> TRUE]
          /\ fetched' \in {fetched, fetched \cup {active}}
          /\ \/ UNCHANGED <<store, active, yandex_generation>>
             \/ Finish(active, "completed") \/ Finish(active, "failed")
      BY <2>4 DEF CopyOutcome, Fetched
    <3>2. fetched' \subseteq Owners
      BY <1>0, <2>1, <3>1 DEF HistoryTyped
    <3>3. transfer' \in [owner : Owners, running : BOOLEAN]
      <4>1. CASE transfer' = transfer
        BY <1>0, <4>1 DEF WorkersTyped
      <4>2. CASE transfer' = [owner |-> active, running |-> TRUE]
        BY <2>1, <4>2
      <4> QED
        BY <3>1, <4>1, <4>2
    <3>4. cached' \in [owner : Owners, result : {"none", "hit", "miss"}]
      BY <3>1, IdleTyped
    <3>5. WorkersTyped'
      BY <1>0, <3>1, <3>3, <3>4 DEF WorkersTyped
    <3> QED
      BY <2>1, <3>1, <3>2, <3>5
  <2>5. CASE Respond
    <3>1. /\ responses # <<>> /\ responses' = Tail(responses)
          /\ UNCHANGED <<transfer, cached, gate, generation, fetched>>
          /\ native' = native \/ native' = NoThread
          /\ \/ UNCHANGED <<store, active, yandex_generation>>
             \/ Finish(active, Head(responses).state)
      BY <2>5 DEF Respond, history
    <3>2. /\ Head(responses) \in [generation : Nat, state : Outcomes]
          /\ responses' \in Seq([generation : Nat, state : Outcomes])
      <4>1. responses \in Seq([generation : Nat, state : Outcomes])
        BY <1>0 DEF WorkersTyped
      <4> QED
        BY <3>1, <4>1, TailTyped
    <3>3. Head(responses).state \in Outcomes
      BY <3>2
    <3>4. native' \in Threads
      BY <1>0, <3>1, IdleTyped DEF WorkersTyped
    <3>5. WorkersTyped' /\ fetched' \subseteq Owners
      BY <1>0, <3>1, <3>2, <3>4 DEF WorkersTyped, HistoryTyped
    <3> QED
      BY <2>1, <3>1, <3>3, <3>5
  <2>6. CASE Reap
    <3>1. native' = NoThread
          /\ UNCHANGED <<store, slot, transfer, cached, gate, generation, responses, fetched>>
      BY <2>6 DEF Reap, history
    <3> QED
      BY <1>0, <3>1 DEF WorkersTyped, HistoryTyped, NoThread, Threads, Owners, slot
  <2> QED
    BY <2>2, <2>3, <2>4, <2>5, <2>6 DEF Outcome
<1>3. StoreTyped' /\ StoreInv' /\ SlotTyped' /\ SlotInv'
  <2>1. reducer'.step \in {"ready", "poll"}
    BY <1>1
  <2> QED
    BY <1>1, <1>2, <2>1, OutcomeKeeps
<1>4. HistoryTyped'
  BY <1>0, <1>1, <1>2 DEF HistoryTyped, bounds
<1> QED
  BY <1>2, <1>3, <1>4 DEF IInv, TypeOK

-----------------------------------------------------------------------------
(* The end of the process, and the next one *)

LEMMA EmptySlotsKeep ==
  ASSUME SlotTyped, WorkersTyped, EmptySlots
  PROVE  SlotTyped' /\ WorkersTyped' /\ SlotInv'
<1>1. /\ active' = NoOwner /\ deferred_cache' = FALSE /\ yandex_generation' = 0
      /\ choosing' = 0 /\ choice' = FALSE
      /\ transfer' = NoTransfer /\ cached' = NoCopy /\ gate' = FALSE
      /\ native' = NoThread /\ generation' = 0 /\ responses' = <<>>
      /\ reducer' = [step |-> "down", job |-> 0]
  BY DEF EmptySlots, Continue
<1>2. SlotTyped'
  BY <1>1 DEF SlotTyped, Owners
<1>3. SlotInv'
  BY <1>1 DEF SlotInv
<1>4. WorkersTyped'
  <2>1. transfer' \in [owner : Owners, running : BOOLEAN]
    BY <1>1, IdleTyped
  <2>2. cached' \in [owner : Owners, result : {"none", "hit", "miss"}]
    BY <1>1, IdleTyped
  <2>3. native' \in Threads /\ generation' \in Nat
    BY <1>1, IdleTyped
  <2>4. responses' \in Seq([generation : Nat, state : Outcomes])
    BY <1>1
  <2>5. gate' \in BOOLEAN
    BY <1>1
  <2> QED
    BY <2>1, <2>2, <2>3, <2>4, <2>5 DEF WorkersTyped
<1> QED
  BY <1>2, <1>3, <1>4

LEMMA CrashKeeps ==
  ASSUME IInv, Crash
  PROVE  IInv'
<1>0. StoreTyped /\ SlotTyped /\ WorkersTyped /\ HistoryTyped /\ StoreInv
  BY DEF IInv, TypeOK
<1>1. /\ EmptySlots /\ restarts' = restarts + 1 /\ closing' = "crashed"
      /\ UNCHANGED <<store, launched, fetched, dropped, retries, extra>>
  BY DEF Crash
<1>2. StoreTyped' /\ StoreInv'
  BY <1>0, <1>1, NoSaveKeeps
<1>3. HistoryTyped'
  BY <1>0, <1>1 DEF HistoryTyped
<1> QED
  BY <1>0, <1>1, <1>2, <1>3, EmptySlotsKeep DEF IInv, TypeOK

LEMMA CloseKeeps ==
  ASSUME IInv, Close
  PROVE  IInv'
<1> DEFINE last == RecoverRunning(Latest)
<1>0. StoreTyped /\ SlotTyped /\ WorkersTyped /\ HistoryTyped /\ StoreInv
  BY DEF IInv, TypeOK
<1>1. /\ EmptySlots /\ restarts' = restarts + 1 /\ closing' \in {"saved", "failed"}
      /\ UNCHANGED <<launched, fetched, dropped, retries, extra>>
      /\ UNCHANGED store \/ ((Saved(last) \/ Refused(last)) /\ asked' = asked)
  BY DEF Close
<1>2. Legal(last) /\ Cancelled(last, dropped')
  BY <1>0, <1>1, LatestIsLegal
<1> HIDE DEF last
<1>3. StoreTyped' /\ StoreInv'
  <2>1. CASE UNCHANGED store
    BY <1>0, <1>1, <2>1, NoSaveKeeps
  <2>2. CASE (Saved(last) \/ Refused(last)) /\ asked' = asked
    <3>1. asked' \in Queues
      BY <1>0, <2>2 DEF StoreTyped
    <3> QED
      BY <1>0, <1>1, <1>2, <2>2, <3>1, SaveKeeps
  <2> QED
    BY <1>1, <2>1, <2>2
<1>4. HistoryTyped'
  BY <1>0, <1>1 DEF HistoryTyped
<1> QED
  BY <1>0, <1>1, <1>3, <1>4, EmptySlotsKeep DEF IInv, TypeOK

LEMMA StartKeeps ==
  ASSUME IInv, Start
  PROVE  IInv'
<1> DEFINE recovered == RecoverRunning(disk)
<1>0. /\ StoreTyped /\ SlotTyped /\ WorkersTyped /\ HistoryTyped /\ StoreInv /\ SlotInv
      /\ disk \in Queues
  BY DEF IInv, TypeOK, StoreTyped
<1>1. /\ reducer.step = "down" /\ reducer' = [step |-> "ready", job |-> 0]
      /\ asked' = recovered /\ closing' = "none"
      /\ UNCHANGED <<slot, question, workers, launched, fetched, dropped, bounds>>
      /\ Restored(recovered) \/ NotRestored(recovered)
  BY DEF Start, Done, Continue
<1>2. /\ recovered \in Queues /\ recovered.next = disk.next
      /\ \A k \in Jobs : /\ recovered.entry[k].attempt = disk.entry[k].attempt
                         /\ recovered.entry[k].format = disk.entry[k].format
                         /\ recovered.entry[k].media = disk.entry[k].media
                         /\ recovered.entry[k].state = IF disk.entry[k].state = "running"
                                                       THEN "queued" ELSE disk.entry[k].state
  BY <1>0, RecoverKeeps DEF State
<1> HIDE DEF recovered
<1>3. Orderly(disk) /\ Clean(disk) /\ Grows(memory, disk) /\ Cancelled(disk, dropped)
  BY <1>0 DEF StoreInv
<1>4. Orderly(recovered) /\ Clean(recovered) /\ Cancelled(recovered, dropped)
  BY <1>2, <1>3 DEF Orderly, Started, Clean, Cancelled, State
<1>5. /\ Grows(disk, recovered) /\ Grows(disk, disk) /\ Grows(recovered, recovered)
      /\ Replaces(disk, recovered) /\ recovered.next > 0
  BY <1>0, <1>2, <1>3 DEF Grows, Replaces, State, Orderly, Queues, Entries
<1>6. \A j \in Jobs : launched[j] <= disk.entry[j].attempt
  BY <1>0, <1>3 DEF StoreInv, Grows, StoreTyped, HistoryTyped, Queues, Entries
<1>7. dropped' = dropped /\ launched' = launched
  BY <1>1
<1>8. recovered # NoWrite
  BY <1>5 DEF NoWrite
<1>9. StoreTyped' /\ StoreInv'
  <2>1. CASE Restored(recovered)
    <3>1. /\ queue' = recovered /\ memory' = recovered /\ disk' = recovered
          /\ blocked' = FALSE /\ pending_write' = NoWrite
          /\ drifted' = FALSE /\ refused' = {} /\ faults' = faults
      BY <2>1 DEF Restored
    <3>2. StoreTyped'
      BY <1>0, <1>1, <1>2, <3>1, NoWriteTyped DEF StoreTyped
    <3>3. StoreInv'
      <4>1. \A j \in Jobs : launched'[j] <= memory'.entry[j].attempt
        BY <1>2, <1>6, <1>7, <3>1
      <4> QED
        BY <1>4, <1>5, <1>7, <3>1, <4>1, NoWriteTyped DEF StoreInv
    <3> QED
      BY <3>2, <3>3
  <2>2. CASE NotRestored(recovered)
    <3>1. /\ queue' = EmptyQueue /\ memory' = disk
          /\ blocked' = TRUE /\ pending_write' = recovered /\ refused' = {recovered}
          /\ disk' = disk \/ disk' = recovered
          /\ drifted' \in BOOLEAN
          /\ faults' = faults \/ faults' = faults + 1
          /\ faults' = faults => ~drifted' /\ ~(Valid(recovered) /\ Replaces(disk, recovered))
      <4>1. faults + 1 # faults
        BY <1>0 DEF StoreTyped
      <4> QED
        BY <2>2, <4>1 DEF NotRestored
    <3>2. StoreTyped'
      <4>1. queue' \in Queues /\ pending_write' \in Queues /\ memory' \in Queues
        BY <1>0, <1>2, <3>1, EmptyQueueTyped
      <4>2. disk' \in Queues /\ asked' \in Queues /\ refused' \subseteq Queues
        BY <1>0, <1>1, <1>2, <3>1
      <4>3. blocked' \in BOOLEAN
        BY <3>1
      <4>4. faults' \in Nat
        BY <1>0, <3>1 DEF StoreTyped
      <4> QED
        BY <3>1, <4>1, <4>2, <4>3, <4>4 DEF StoreTyped
    <3>3. faults' = 0 => ~drifted' /\ \A q \in refused' : ~WithinLimits(q)
      <4>1. faults' = 0 => faults' = faults
        BY <1>0, <3>1 DEF StoreTyped
      <4> QED
        BY <1>4, <1>5, <3>1, <4>1 DEF Valid
    <3>4. /\ Orderly(memory') /\ Clean(memory') /\ Orderly(disk') /\ Clean(disk')
          /\ Grows(memory', disk') /\ Cancelled(memory', dropped') /\ Cancelled(disk', dropped')
      BY <1>3, <1>4, <1>5, <1>7, <3>1
    <3>5. /\ Clean(pending_write') /\ Orderly(pending_write')
          /\ Grows(memory', pending_write') /\ Replaces(memory', pending_write')
          /\ Cancelled(pending_write', dropped')
      BY <1>4, <1>5, <1>7, <3>1
    <3>6. StoreInv'
      BY <1>6, <1>7, <1>8, <3>1, <3>3, <3>4, <3>5 DEF StoreInv
    <3> QED
      BY <3>2, <3>6
  <2> QED
    BY <1>1, <2>1, <2>2
<1>10. active' = active /\ choosing' = choosing /\ choice' = choice
       /\ deferred_cache' = deferred_cache /\ yandex_generation' = yandex_generation
  BY <1>1 DEF slot, question
<1>11. SlotInv' /\ SlotTyped'
  <2>1. SlotTyped'
    BY <1>0, <1>1, <1>10 DEF SlotTyped
  <2>2. choosing = 0 /\ active = NoOwner
    BY <1>0, <1>1 DEF SlotInv
  <2>3. SlotInv'
    BY <1>1, <1>10, <2>2 DEF SlotInv
  <2> QED
    BY <2>1, <2>3
<1>12. WorkersTyped' /\ HistoryTyped'
  BY <1>0, <1>1 DEF WorkersTyped, HistoryTyped, workers, bounds
<1> QED
  BY <1>9, <1>11, <1>12 DEF IInv, TypeOK

-----------------------------------------------------------------------------
(* The invariant *)

LEMMA InitInv == Init => IInv
<1> SUFFICES ASSUME Init PROVE IInv
  OBVIOUS
<1>1. /\ queue = EmptyQueue /\ memory = EmptyQueue /\ disk = EmptyQueue /\ asked = EmptyQueue
      /\ pending_write = NoWrite /\ blocked = FALSE /\ drifted = FALSE /\ refused = {}
      /\ launched = [j \in Jobs |-> 0] /\ fetched = {} /\ dropped = {} /\ closing = "none"
      /\ retries = 0 /\ extra = 0 /\ faults = 0 /\ restarts = 0
  BY DEF Init
<1>2. /\ active = NoOwner /\ deferred_cache = FALSE /\ yandex_generation = 0
      /\ choosing = 0 /\ choice = FALSE
      /\ transfer = NoTransfer /\ cached = NoCopy /\ gate = FALSE
      /\ native = NoThread /\ generation = 0 /\ responses = <<>>
      /\ reducer = [step |-> "ready", job |-> 0]
  BY DEF Init
<1>3. StoreTyped
  BY <1>1, EmptyQueueTyped, NoWriteTyped DEF StoreTyped
<1>4. SlotTyped
  BY <1>2, IdleTyped DEF SlotTyped
<1>5. WorkersTyped
  <2>1. transfer \in [owner : Owners, running : BOOLEAN]
    BY <1>2, IdleTyped
  <2>2. cached \in [owner : Owners, result : {"none", "hit", "miss"}]
    BY <1>2, IdleTyped
  <2>3. native \in Threads /\ generation \in Nat
    BY <1>2, IdleTyped
  <2>4. responses \in Seq([generation : Nat, state : Outcomes])
    BY <1>2
  <2>5. gate \in BOOLEAN
    BY <1>2
  <2> QED
    BY <2>1, <2>2, <2>3, <2>4, <2>5 DEF WorkersTyped
<1>6. HistoryTyped
  BY <1>1 DEF HistoryTyped
<1>7. StoreInv
  <2>1. \A j \in Jobs : EmptyQueue.entry[j].attempt = 0
    BY EmptyQueueTyped DEF Clean
  <2>2. Grows(EmptyQueue, EmptyQueue) /\ \A j \in Jobs : launched[j] <= EmptyQueue.entry[j].attempt
    BY <1>1, <2>1 DEF Grows
  <2> QED
    BY <1>1, <2>2, EmptyQueueTyped, NoWriteTyped DEF StoreInv, Cancelled
<1>8. SlotInv
  BY <1>2 DEF SlotInv
<1> QED
  BY <1>3, <1>4, <1>5, <1>6, <1>7, <1>8 DEF IInv, TypeOK

LEMMA StutterKeeps ==
  ASSUME IInv, UNCHANGED vars
  PROVE  IInv'
<1>0. StoreTyped /\ SlotTyped /\ WorkersTyped /\ HistoryTyped /\ StoreInv /\ SlotInv
  BY DEF IInv, TypeOK
<1>1. UNCHANGED <<store, slot, question, workers, reducer, launched, fetched, dropped, closing,
                  bounds>>
  BY DEF vars, history
<1>2. StoreTyped' /\ StoreInv'
  BY <1>0, <1>1, NoSaveKeeps
<1>3. SlotTyped' /\ SlotInv'
  BY <1>0, <1>1, SlotUntouched
<1>4. WorkersTyped' /\ HistoryTyped'
  BY <1>0, <1>1 DEF WorkersTyped, HistoryTyped, workers, bounds
<1> QED
  BY <1>2, <1>3, <1>4 DEF IInv, TypeOK

LEMMA CancelActiveKeeps ==
  ASSUME IInv, CancelActive
  PROVE  IInv'
  BY CancelRunningKeeps DEF CancelActive

LEMMA Inductive == IInv /\ [Next]_vars => IInv'
<1> SUFFICES ASSUME IInv, [Next]_vars PROVE IInv'
  OBVIOUS
<1>1. CASE Request
  <2>1. CASE \E batch \in Batches : Enqueue(batch)
    BY <2>1, EnqueueKeeps
  <2>2. CASE \E j \in Jobs : Retry(j)
    BY <2>2, RetryKeeps
  <2>3. CASE \E j \in Jobs : CancelJob(j)
    BY <2>3, CancelJobKeeps
  <2>4. CASE CancelActive
    BY <2>4, CancelActiveKeeps
  <2>5. CASE DismissChoice
    BY <2>5, DismissChoiceKeeps
  <2>6. CASE StartChannel \/ StartBatch
    BY <2>6, ForeignKeeps
  <2> QED
    BY <1>1, <2>1, <2>2, <2>3, <2>4, <2>5, <2>6 DEF Request
<1>2. CASE Poll
  <2>1. CASE PollDeferred \/ PollNothing \/ \E j \in Jobs : PollChoose(j)
    BY <2>1, PollKeeps
  <2>2. CASE \E j \in Jobs : PollBegin(j)
    BY <2>2, BeginKeeps
  <2> QED
    BY <1>2, <2>1, <2>2 DEF Poll
<1>3. CASE Answer
  BY <1>3, AnswerKeeps DEF Answer
<1>4. CASE Launch
  <2>1. CASE BeginChosen
    BY <2>1, BeginKeeps
  <2>2. CASE LaunchNative \/ LaunchCached \/ LaunchTransfer
    BY <2>2, LaunchKeeps
  <2>3. CASE LaunchDeferred
    BY <2>3, LaunchDeferredKeeps
  <2>4. CASE LaunchFails
    BY <2>4, OutcomesKeep
  <2> QED
    BY <1>4, <2>1, <2>2, <2>3, <2>4 DEF Launch
<1>5. CASE WorkerEnds
  BY <1>5, WorkerEndsKeeps
<1>6. CASE Outcome
  BY <1>6, OutcomesKeep
<1>7. CASE Restart
  BY <1>7, CrashKeeps, CloseKeeps, StartKeeps DEF Restart
<1>8. CASE UNCHANGED vars
  BY <1>8, StutterKeeps
<1> QED
  BY <1>1, <1>2, <1>3, <1>4, <1>5, <1>6, <1>7, <1>8 DEF Next

\* The inductive invariant holds in every behaviour.
THEOREM Invariant == Spec => []IInv
<1>1. Init => IInv
  BY InitInv
<1>2. IInv /\ [Next]_vars => IInv'
  BY Inductive
<1> QED
  BY <1>1, <1>2, PTL DEF Spec

\* Every variable keeps its type, for any number of media, jobs and troubles.
THEOREM Typed == Spec => []TypeOK
<1>1. IInv => TypeOK
  BY DEF IInv
<1> QED
  BY <1>1, Invariant, PTL

\* save_manual_download_queue blocks the queue for a failed write, or because what a
\* handler asked for is beyond the limits of validate; never because of its numbers,
\* sources, formats, attempts or of what it replaces.
THEOREM OnlyLimitsAndFaultsBlockAlways == Spec => []OnlyLimitsAndFaultsBlock
<1>1. IInv => OnlyLimitsAndFaultsBlock
  BY DEF IInv, StoreInv, OnlyLimitsAndFaultsBlock
<1> QED
  BY <1>1, Invariant, PTL

-----------------------------------------------------------------------------
(* Who starts a worker *)

\* Only a launch adds an owner: every other step keeps, moves or frees the owners.
LEMMA OwnersStay ==
  ASSUME IInv, Next, ~(LaunchNative \/ LaunchCached \/ LaunchTransfer)
  PROVE  Working' \subseteq Working
<1> DEFINE Moves == /\ native'.owner \in {native.owner, NoOwner}
                    /\ cached'.owner \in {cached.owner, NoOwner}
                    /\ transfer'.owner \in {transfer.owner, cached.owner, NoOwner}
<1>0. /\ native \in Threads /\ cached \in [owner : Owners, result : {"none", "hit", "miss"}]
      /\ transfer \in [owner : Owners, running : BOOLEAN]
  BY DEF IInv, TypeOK, WorkersTyped
<1>1. NoThread.owner = NoOwner /\ NoCopy.owner = NoOwner /\ NoTransfer.owner = NoOwner
  BY DEF NoThread, NoCopy, NoTransfer
<1>2. ASSUME UNCHANGED workers PROVE Moves
  BY <1>2 DEF workers
<1>3. ASSUME CancelNative \/ CancelCached \/ CancelTransfer PROVE Moves
  <2>1. CASE CancelNative
    <3>1. /\ transfer' = transfer /\ cached' = cached
          /\ native' = NoThread \/ native' = [native EXCEPT !.cancelled = TRUE]
      BY <2>1 DEF CancelNative
    <3> QED
      BY <1>0, <1>1, <3>1 DEF Threads
  <2>2. CASE CancelCached
    BY <1>1, <2>2 DEF CancelCached
  <2>3. CASE CancelTransfer
    BY <1>1, <2>3 DEF CancelTransfer
  <2> QED
    BY <1>3, <2>1, <2>2, <2>3
<1>4. ASSUME Request PROVE Moves
  <2>1. UNCHANGED workers \/ CancelNative \/ CancelCached \/ CancelTransfer
        \/ StartChannel \/ StartBatch
    BY <1>4 DEF Request, Enqueue, Retry, CancelJob, CancelActive, DismissChoice
  <2>2. CASE StartChannel
    <3>1. transfer' = [owner |-> NoOwner, running |-> TRUE] /\ UNCHANGED <<cached, native>>
      BY <2>2 DEF StartChannel
    <3> QED
      BY <3>1
  <2>3. CASE StartBatch
    <3>1. /\ native' = [NoThread EXCEPT !.generation = generation']
          /\ UNCHANGED <<cached, transfer>>
      BY <2>3 DEF StartBatch
    <3> QED
      BY <3>1 DEF NoThread
  <2> QED
    BY <1>2, <1>3, <2>1, <2>2, <2>3
<1>5. ASSUME Poll \/ Answer \/ BeginChosen \/ LaunchDeferred \/ LaunchFails PROVE Moves
  <2>1. UNCHANGED workers
    BY <1>5 DEF Poll, PollDeferred, PollNothing, PollChoose, PollBegin, BeginAttempt, Answer,
                ConfirmChoice, ChoiceFails, BeginChosen, LaunchDeferred, LaunchFails
  <2> QED
    BY <1>2, <2>1
<1>6. ASSUME WorkerEnds PROVE Moves
  <2>1. /\ transfer' = transfer
        /\ cached' = cached \/ \E r : cached' = [cached EXCEPT !.result = r]
        /\ native' = native \/ native' = [native EXCEPT !.done = TRUE]
    BY <1>6 DEF WorkerEnds, CopyEnds, NativeEnds, GateOpens
  <2> QED
    BY <1>0, <2>1 DEF Threads
<1>7. ASSUME Outcome PROVE Moves
  <2>1. CASE \E s \in TransferOutcomes : TransferOutcome(s)
    BY <1>1, <2>1 DEF TransferOutcome
  <2>2. CASE CopyOutcome
    <3>1. /\ cached' = NoCopy /\ native' = native
          /\ \/ transfer' = transfer
             \/ cached.owner = active /\ transfer' = [owner |-> active, running |-> TRUE]
      BY <2>2 DEF CopyOutcome
    <3> QED
      BY <1>1, <3>1
  <2>3. CASE Respond \/ Reap
    BY <1>1, <2>3 DEF Respond, Reap
  <2> QED
    BY <1>7, <2>1, <2>2, <2>3 DEF Outcome
<1>8. ASSUME Restart PROVE Moves
  <2>1. EmptySlots \/ UNCHANGED workers
    BY <1>8 DEF Restart, Crash, Close, Start
  <2>2. CASE EmptySlots
    BY <1>1, <2>2 DEF EmptySlots
  <2> QED
    BY <1>2, <2>1, <2>2
<1>9. Moves
  BY <1>4, <1>5, <1>6, <1>7, <1>8 DEF Next, Launch
<1> QED
  BY <1>9 DEF Working

\* A launch adds the active attempt, which had no worker and is not cancelled.
LEMMA LaunchAddsTheActive ==
  ASSUME IInv, LaunchNative \/ LaunchCached \/ LaunchTransfer
  PROVE  \A o \in Working' \ Working : o.attempt > launched[o.job] /\ o.job \notin dropped
<1>0. /\ SlotInv /\ native \in Threads
      /\ cached \in [owner : Owners, result : {"none", "hit", "miss"}]
      /\ transfer \in [owner : Owners, running : BOOLEAN]
      /\ active \in Owners /\ launched \in [Jobs -> Nat]
  BY DEF IInv, TypeOK, WorkersTyped, SlotTyped, HistoryTyped
<1>1. Launching
  BY DEF LaunchNative, LaunchCached, LaunchTransfer
<1>2. active.job \notin dropped /\ launched[active.job] < active.attempt
  BY <1>0, <1>1, ActiveIsRunning DEF Launching, SlotInv
<1>3. active.attempt > launched[active.job]
  BY <1>0, <1>1, <1>2, OwnersAreJobs DEF Launching
<1>4. /\ native'.owner \in {native.owner, active}
      /\ cached'.owner \in {cached.owner, active}
      /\ transfer'.owner \in {transfer.owner, active}
  <2>1. CASE LaunchNative
    BY <2>1 DEF LaunchNative
  <2>2. CASE LaunchCached
    BY <2>2 DEF LaunchCached
  <2>3. CASE LaunchTransfer
    BY <2>3 DEF LaunchTransfer
  <2> QED
    BY <2>1, <2>2, <2>3
<1>5. \A o \in Working' \ Working : o = active
  BY <1>4 DEF Working
<1> QED
  BY <1>2, <1>3, <1>5

LEMMA StartsAreFresh ==
  ASSUME IInv, [Next]_vars
  PROVE  \A o \in Working' \ Working : o.attempt > launched[o.job] /\ o.job \notin dropped
<1>1. CASE LaunchNative \/ LaunchCached \/ LaunchTransfer
  BY <1>1, LaunchAddsTheActive
<1>2. CASE Next /\ ~(LaunchNative \/ LaunchCached \/ LaunchTransfer)
  BY <1>2, OwnersStay
<1>3. CASE UNCHANGED vars
  BY <1>3 DEF vars, workers, Working
<1> QED
  BY <1>1, <1>2, <1>3

\* begin_manual_download_attempt saves the number of an attempt first, and no save,
\* failure or restart lets a number be used twice: no attempt gets two workers.
THEOREM AttemptsAreFreshAlways == Spec => AttemptsAreFresh
<1>1. IInv /\ [Next]_vars
        => [\A o \in Working' \ Working : o.attempt > launched[o.job]]_vars
  BY StartsAreFresh
<1> QED
  BY <1>1, Invariant, PTL DEF Spec, AttemptsAreFresh

\* A job whose cancellation was confirmed gets no worker before it is retried,
\* whatever fails and however often the process ends.
THEOREM CancelledIsLeftAloneAlways == Spec => CancelledIsLeftAlone
<1>1. IInv /\ [Next]_vars => [\A o \in Working' \ Working : o.job \notin dropped]_vars
  BY StartsAreFresh
<1> QED
  BY <1>1, Invariant, PTL DEF Spec, CancelledIsLeftAlone

-----------------------------------------------------------------------------
(* What the next process shows *)

\* What is on disk is, but for what was running, the queue shown or one that could
\* not be saved; what was asked last waits or is shown; and an end that reported
\* success left what was asked last.
RestartInv ==
  /\ \E q \in {queue} \cup refused : RecoverRunning(q) = RecoverRunning(disk)
  /\ ~drifted => disk = memory
  /\ reducer.step # "down" => closing = "none" /\ Latest = asked
  /\ closing = "saved" => RecoverRunning(disk) = RecoverRunning(asked)

LEMMA RecoverTwice ==
  ASSUME NEW q \in Queues
  PROVE  RecoverRunning(RecoverRunning(q)) = RecoverRunning(q)
<1> DEFINE once == RecoverRunning(q)
           Waiting(e) == [j \in Jobs |-> IF e[j].state = "running"
                                         THEN [e[j] EXCEPT !.state = "queued"] ELSE e[j]]
<1>1. once \in Queues /\ once.next = q.next
  BY RecoverKeeps
<1>2. \A p : RecoverRunning(p) = [p EXCEPT !.entry = Waiting(p.entry)]
  BY DEF RecoverRunning, State
<1>3. once.entry = Waiting(q.entry)
  BY <1>2 DEF Queues
<1>4. Waiting(once.entry) = once.entry
  <2>1. \A j \in Jobs : once.entry[j].state # "running"
    BY RecoverKeeps DEF State
  <2>2. Waiting(once.entry) = [j \in Jobs |-> once.entry[j]]
    BY <2>1
  <2>3. once.entry \in [Jobs -> Entries]
    BY <1>1 DEF Queues
  <2> QED
    BY <2>2, <2>3
<1>5. RecoverRunning(once) = [once EXCEPT !.entry = once.entry]
  BY <1>2, <1>4
<1> QED
  BY <1>1, <1>5 DEF Queues

\* No handler asks for the empty write.
LEMMA ChangesAreQueues ==
  ASSUME StoreTyped, StoreInv
  PROVE  /\ \A j, s : WithState(queue, j, s) # NoWrite
         /\ \A j : Begun(j) # NoWrite
         /\ \A j : [queue EXCEPT !.entry[j].format = "other"] # NoWrite
         /\ \A batch \in Batches : Appended(queue, batch) # NoWrite
<1>1. queue \in Queues /\ queue.next > 0
  BY DEF StoreTyped, StoreInv, Orderly, EmptyQueue
<1>2. NoWrite.next = 0
  BY DEF NoWrite
<1>3. \A j, s : WithState(queue, j, s) # NoWrite
  <2> TAKE j, s
  <2>1. WithState(queue, j, s).next = queue.next
    BY <1>1 DEF WithState, Queues
  <2> QED
    BY <1>1, <1>2, <2>1
<1>4. \A j : Begun(j) # NoWrite
  <2> TAKE j
  <2> DEFINE started == [queue EXCEPT !.entry[j].state = "running"]
  <2>1. started.next = queue.next /\ started = [queue EXCEPT !.entry = started.entry]
    BY <1>1 DEF Queues
  <2>2. Begun(j) = [started EXCEPT !.entry[j].attempt = started.entry[j].attempt + 1]
    BY DEF Begun
  <2>3. started \in [next : {queue.next}, entry : {started.entry}]
    BY <1>1, <2>1 DEF Queues
  <2> HIDE DEF started
  <2> QED
    BY <1>1, <1>2, <2>1, <2>2, <2>3
<1>5. \A j : [queue EXCEPT !.entry[j].format = "other"] # NoWrite
  <2> TAKE j
  <2> DEFINE answered == [queue EXCEPT !.entry[j].format = "other"]
  <2>1. answered.next = queue.next
    BY <1>1 DEF Queues
  <2> HIDE DEF answered
  <2>2. answered # NoWrite
    BY <1>1, <1>2, <2>1
  <2> QED
    BY <2>2 DEF answered
<1>6. \A batch \in Batches : Appended(queue, batch) # NoWrite
  <2> TAKE batch \in Batches
  <2>1. Appended(queue, batch).next = queue.next + Len(batch)
    BY DEF Appended
  <2> QED
    BY <1>1, <1>2, <2>1, BatchLength DEF Queues
<1> QED
  BY <1>3, <1>4, <1>5, <1>6

\* A step of a process that goes on saves one queue, or none.
LEMMA StepsSave ==
  ASSUME IInv, [Next]_vars, ~Crash, ~Close, ~Start
  PROVE  /\ closing' = closing /\ (reducer'.step = "down" <=> reducer.step = "down")
         /\ \/ UNCHANGED store
            \/ /\ reducer.step # "down"
               /\ \E next : next # NoWrite /\ Save(next)
<1> DEFINE Asks == \E next : next # NoWrite /\ Save(next)
           Goal == /\ closing' = closing /\ (reducer'.step = "down" <=> reducer.step = "down")
                   /\ UNCHANGED store \/ (reducer.step # "down" /\ Asks)
<1>1. /\ \A j, s : WithState(queue, j, s) # NoWrite
      /\ \A j : Begun(j) # NoWrite
      /\ \A j : [queue EXCEPT !.entry[j].format = "other"] # NoWrite
      /\ \A batch \in Batches : Appended(queue, batch) # NoWrite
  BY ChangesAreQueues DEF IInv, TypeOK
<1>2. ASSUME NEW owner, NEW s, Finish(owner, s) PROVE UNCHANGED store \/ Asks
  BY <1>1, <1>2 DEF Finish
<1>3. ASSUME NEW j, CancelEntry(j) PROVE Asks
  BY <1>1, <1>3 DEF CancelEntry
<1>4. ASSUME CancelNative \/ CancelCached \/ CancelTransfer PROVE UNCHANGED store \/ Asks
  <2>1. UNCHANGED store \/ CancelOwner
    BY <1>4 DEF CancelNative, CancelCached, CancelTransfer
  <2>2. CASE CancelOwner
    BY <1>3, <2>2 DEF CancelOwner
  <2> QED
    BY <2>1, <2>2
<1>5. ASSUME NEW j, BeginAttempt(j)
      PROVE  Asks /\ closing' = closing /\ reducer'.step # "down"
  <2>1. closing' = closing /\ reducer'.step \in {"launch", "ready"}
    BY <1>5 DEF BeginAttempt, Continue, Done, history
  <2> QED
    BY <1>1, <1>5, <2>1 DEF BeginAttempt
<1>6. ASSUME Request PROVE Goal
  <2>1. CASE \E batch \in Batches : Enqueue(batch)
    <3>1. PICK batch \in Batches : Enqueue(batch)
      BY <2>1
    <3>2. closing' = closing /\ reducer'.step \in {"poll", "ready"} /\ reducer.step = "ready"
      BY <3>1 DEF Enqueue, Continue, history, Idle
    <3>3. Save(Appended(queue, batch))
      BY <3>1 DEF Enqueue
    <3> QED
      BY <1>1, <3>2, <3>3
  <2>2. ASSUME NEW j \in Jobs, Retry(j) PROVE Goal
    <3>1. closing' = closing /\ reducer'.step = "poll" /\ reducer.step = "ready"
      BY <2>2 DEF Retry, Continue, Idle
    <3>2. Save(WithState(queue, j, "queued"))
      BY <2>2 DEF Retry
    <3> QED
      BY <1>1, <3>1, <3>2
  <2>3. ASSUME NEW j \in Jobs, CancelJob(j) PROVE Goal
    <3>1. closing' = closing /\ reducer' = reducer /\ reducer.step = "ready"
      BY <2>3 DEF CancelJob, Idle
    <3>2. \/ CancelNative \/ CancelCached \/ CancelTransfer
          \/ CancelEntry(j)
      BY <2>3 DEF CancelJob
    <3> QED
      BY <1>3, <1>4, <3>1, <3>2
  <2>4. CASE CancelActive
    <3>1. closing' = closing /\ reducer' = reducer /\ reducer.step = "ready"
      BY <2>4 DEF CancelActive, Idle
    <3> QED
      BY <1>4, <2>4, <3>1 DEF CancelActive
  <2>5. CASE DismissChoice
    <3>1. closing' = closing /\ reducer' = reducer /\ reducer.step = "ready"
      BY <2>5 DEF DismissChoice, Idle
    <3> QED
      BY <1>3, <2>5, <3>1 DEF DismissChoice
  <2>6. CASE StartChannel \/ StartBatch
    BY <2>6 DEF StartChannel, StartBatch, history
  <2> QED
    BY <1>6, <2>1, <2>2, <2>3, <2>4, <2>5, <2>6 DEF Request
<1>7. ASSUME Poll PROVE Goal
  <2>1. reducer.step # "down"
    BY <1>7 DEF Poll, PollDeferred, PollNothing, PollChoose, PollBegin, Tick
  <2>2. CASE PollDeferred \/ PollNothing \/ \E j \in Jobs : PollChoose(j)
    <3>1. UNCHANGED store /\ closing' = closing
      BY <2>2 DEF PollDeferred, PollNothing, PollChoose, history
    <3>2. reducer'.step \in {"ready", "launch", "capture"}
      BY <2>2 DEF PollDeferred, PollNothing, PollChoose, Done, Continue
    <3> QED
      BY <2>1, <3>1, <3>2
  <2>3. CASE \E j \in Jobs : PollBegin(j)
    BY <1>5, <2>1, <2>3 DEF PollBegin
  <2> QED
    BY <1>7, <2>2, <2>3 DEF Poll
<1>8. ASSUME Answer PROVE Goal
  <2>1. Asks
    BY <1>1, <1>8 DEF Answer, ConfirmChoice, ChoiceFails
  <2>2. closing' = closing /\ reducer'.step \in {"ready", "begin"}
    BY <1>8 DEF Answer, ConfirmChoice, ChoiceFails, Done, Continue, history
  <2>3. reducer.step # "down"
    BY <1>8 DEF Answer, ConfirmChoice, ChoiceFails, Asking, Idle
  <2> QED
    BY <2>1, <2>2, <2>3
<1>9. ASSUME Launch PROVE Goal
  <2>1. CASE BeginChosen
    BY <1>5, <2>1 DEF BeginChosen
  <2>2. CASE LaunchNative \/ LaunchCached \/ LaunchDeferred \/ LaunchTransfer
    <3>1. UNCHANGED store /\ closing' = closing
      BY <2>2 DEF LaunchNative, LaunchCached, LaunchDeferred, LaunchTransfer, history
    <3>2. Launching /\ Done
      BY <2>2 DEF LaunchNative, LaunchCached, LaunchDeferred, LaunchTransfer
    <3> QED
      BY <3>1, <3>2 DEF Launching, Done, Continue
  <2>3. CASE LaunchFails
    <3>1. /\ Finish(active, "failed") /\ closing' = closing
          /\ reducer.step = "launch" /\ reducer'.step = "ready"
      BY <2>3 DEF LaunchFails, Launching, Done, Continue, history
    <3> QED
      BY <1>2, <3>1
  <2> QED
    BY <1>9, <2>1, <2>2, <2>3 DEF Launch
<1>10. ASSUME WorkerEnds PROVE Goal
  BY <1>10 DEF WorkerEnds, CopyEnds, NativeEnds, GateOpens, history
<1>11. ASSUME Outcome PROVE Goal
  <2>1. closing' = closing /\ reducer.step = "ready" /\ reducer'.step = "poll"
    BY <1>11 DEF Outcome, TransferOutcome, CopyOutcome, Respond, Reap, Idle, Continue, history
  <2>2. UNCHANGED store \/ \E owner, s : Finish(owner, s)
    BY <1>11 DEF Outcome, TransferOutcome, CopyOutcome, Respond, Reap
  <2> QED
    BY <1>2, <2>1, <2>2
<1>12. CASE UNCHANGED vars
  BY <1>12 DEF vars, history
<1> QED
  BY <1>6, <1>7, <1>8, <1>9, <1>10, <1>11, <1>12 DEF Next, Restart

LEMMA RestartInvInductive == IInv /\ RestartInv /\ [Next]_vars => RestartInv'
<1> SUFFICES ASSUME IInv, RestartInv, [Next]_vars PROVE RestartInv'
  OBVIOUS
<1>0. StoreTyped /\ StoreInv
  BY DEF IInv, TypeOK
<1>1. CASE /\ UNCHANGED store
           /\ reducer'.step # "down" => reducer.step # "down" /\ closing' = closing
           /\ (closing' = "saved" => closing = "saved")
  <2>1. /\ queue' = queue /\ refused' = refused /\ disk' = disk /\ drifted' = drifted
        /\ memory' = memory /\ asked' = asked /\ Latest' = Latest
    BY <1>1 DEF store, Latest
  <2> QED
    BY <1>1, <2>1 DEF RestartInv
<1>2. ASSUME NEW next, next # NoWrite, Saved(next) \/ Refused(next)
      PROVE  /\ \E q \in {queue'} \cup refused' : RecoverRunning(q) = RecoverRunning(disk')
             /\ ~drifted' => disk' = memory'
             /\ Latest' = next
             /\ Confirmed => disk' = next
  <2>1. CASE Saved(next)
    BY <2>1 DEF Saved, Stored, Latest
  <2>2. CASE Refused(next)
    <3>1. /\ pending_write' = next /\ queue' = queue /\ memory' = memory
          /\ refused' = refused \cup {next}
          /\ \/ disk' = disk /\ drifted' = drifted
             \/ disk' = next /\ drifted' = TRUE
      BY <2>2 DEF Refused, NotStored
    <3> QED
      BY <1>2, <3>1 DEF RestartInv, Latest, Confirmed
  <2> QED
    BY <1>2, <2>1, <2>2
<1>3. CASE ~Crash /\ ~Close /\ ~Start
  <2>1. closing' = closing /\ (reducer'.step = "down" <=> reducer.step = "down")
    BY <1>3, StepsSave
  <2>2. ASSUME NEW next, next # NoWrite, Save(next), reducer.step # "down"
        PROVE  RestartInv'
    <3>1. (Saved(next) \/ Refused(next)) /\ asked' = next
      BY <2>2 DEF Save
    <3>2. closing' = "none"
      BY <2>1, <2>2 DEF RestartInv
    <3> QED
      BY <1>2, <2>2, <3>1, <3>2 DEF RestartInv
  <2> QED
    BY <1>1, <1>3, <2>1, <2>2, StepsSave
<1>4. CASE Crash
  <2>1. UNCHANGED store /\ closing' = "crashed" /\ reducer'.step = "down"
    BY <1>4 DEF Crash, EmptySlots, Continue
  <2> QED
    BY <1>1, <2>1
<1>5. CASE Close
  <2> DEFINE last == RecoverRunning(Latest)
  <2>1. reducer.step = "ready" /\ reducer'.step = "down"
    BY <1>5 DEF Close, Idle, EmptySlots, Continue
  <2>2. Latest = asked
    BY <2>1 DEF RestartInv
  <2>3. Latest \in Queues /\ last \in Queues /\ last.next > 0
    BY <1>0, RecoverKeeps DEF Latest, StoreTyped, StoreInv, Orderly, EmptyQueue
  <2>4. last # NoWrite
    BY <2>3 DEF NoWrite
  <2>5. RecoverRunning(last) = last
    BY <2>3, RecoverTwice
  <2>6. \/ /\ Saved(last) \/ Refused(last)
           /\ asked' = asked /\ (closing' = "saved" => Confirmed)
        \/ /\ UNCHANGED store /\ pending_write = NoWrite /\ last = Latest
           /\ closing' = "saved" => ~blocked
    BY <1>5 DEF Close
  <2> HIDE DEF last
  <2>7. CASE (Saved(last) \/ Refused(last)) /\ asked' = asked /\ (closing' = "saved" => Confirmed)
    <3>1. closing' = "saved" => RecoverRunning(disk') = RecoverRunning(asked')
      BY <1>2, <2>2, <2>4, <2>5, <2>7 DEF last
    <3> QED
      BY <1>2, <2>1, <2>4, <2>7, <3>1 DEF RestartInv
  <2>8. CASE /\ UNCHANGED store /\ pending_write = NoWrite /\ last = Latest
             /\ closing' = "saved" => ~blocked
    <3>1. /\ queue' = queue /\ refused' = refused /\ disk' = disk /\ drifted' = drifted
          /\ memory' = memory /\ asked' = asked
      BY <2>8 DEF store
    <3>2. ~blocked => disk = queue
      BY <1>0, NotBlockedIsStored DEF RestartInv, StoreInv
    <3>3. queue = asked
      BY <2>2, <2>8 DEF Latest
    <3> QED
      BY <2>1, <2>8, <3>1, <3>2, <3>3 DEF RestartInv
  <2> QED
    BY <2>6, <2>7, <2>8
<1>6. CASE Start
  <2> DEFINE recovered == RecoverRunning(disk)
  <2>1. /\ disk \in Queues
        /\ recovered \in Queues /\ recovered.next = disk.next /\ disk.next > 0
    BY <1>0, RecoverKeeps DEF StoreTyped, StoreInv, Orderly
  <2>2. recovered # NoWrite /\ RecoverRunning(recovered) = recovered
    BY <2>1, RecoverTwice DEF NoWrite
  <2>3. /\ closing' = "none" /\ asked' = recovered
        /\ \/ /\ queue' = recovered /\ memory' = recovered /\ disk' = recovered
              /\ pending_write' = NoWrite
           \/ /\ memory' = disk /\ pending_write' = recovered /\ refused' = {recovered}
              /\ \/ disk' = disk /\ drifted' = FALSE
                 \/ disk' = recovered /\ drifted' = TRUE
    BY <1>6 DEF Start, Restored, NotRestored
  <2>4. Latest' = recovered
    BY <2>2, <2>3 DEF Latest
  <2>5. \E q \in {queue'} \cup refused' : RecoverRunning(q) = RecoverRunning(disk')
    BY <2>2, <2>3
  <2> QED
    BY <2>3, <2>4, <2>5 DEF RestartInv
<1> QED
  BY <1>3, <1>4, <1>5, <1>6

\* A crash at any step, and saves that fail before or after the file changed, leave
\* the next process the queue the last one showed or had reported it could not save;
\* an orderly end that reported success leaves what was asked last.
THEOREM RestartKeepsTheQueueAlways == Spec => RestartKeepsTheQueue
<1> DEFINE Restarted ==
      reducer.step = "down" /\ reducer'.step # "down" /\ ~blocked' =>
        /\ queue' \in {RecoverRunning(q) : q \in {queue} \cup refused}
        /\ closing = "saved" => queue' = RecoverRunning(asked)
<1>1. Init => RestartInv
  BY DEF Init, RestartInv, Latest
<1>2. IInv /\ RestartInv /\ [Next]_vars => RestartInv'
  BY RestartInvInductive
<1>3. IInv /\ RestartInv /\ [Next]_vars => [Restarted]_vars
  <2> SUFFICES ASSUME IInv, RestartInv, Next,
                      reducer.step = "down", reducer'.step # "down", ~blocked'
               PROVE  /\ queue' \in {RecoverRunning(q) : q \in {queue} \cup refused}
                      /\ closing = "saved" => queue' = RecoverRunning(asked)
    OBVIOUS
  <2>1. Start
    <3>1. ~Crash /\ ~Close
      BY DEF Crash, Close, Idle
    <3> QED
      BY <3>1, StepsSave
  <2>2. queue' = RecoverRunning(disk)
    BY <2>1 DEF Start, Restored, NotRestored
  <2> QED
    BY <2>2 DEF RestartInv
<1> QED
  BY <1>1, <1>2, <1>3, Invariant, PTL DEF Spec, RestartKeepsTheQueue

-----------------------------------------------------------------------------
(* What completes a job *)

\* Every job that q holds as completed has its file, by the reports in F.
Reported(q, F) ==
  \A j \in Jobs : State(q, j) = "completed" => [job |-> j, attempt |-> q.entry[j].attempt] \in F

ReportInv ==
  /\ Reported(queue, fetched) /\ Reported(memory, fetched)
  /\ Reported(disk, fetched) /\ Reported(pending_write, fetched)

Answers == {responses[i] : i \in DOMAIN responses}

\* A thread of the generation the active attempt waits for is its own, and so is an
\* answer of that generation; no thread has generation 0.
GenerationInv ==
  /\ yandex_generation <= generation /\ (active = NoOwner => yandex_generation = 0)
  /\ native # NoThread => /\ native.generation \in 1..generation
                          /\ native.generation = yandex_generation => native.owner = active
  /\ \A r \in Answers :
       /\ r.generation \in 1..generation
       /\ r.generation = yandex_generation /\ r.state = "completed" => active \in fetched

LEMMA ReportedGrows ==
  ASSUME NEW q, NEW F, NEW G, F \subseteq G, Reported(q, F)
  PROVE  Reported(q, G)
  BY DEF Reported

\* Whatever is asked of the store reports as completed what was, and what is now.
LEMMA ChangesAreReported ==
  ASSUME queue \in Queues, NEW F, Reported(queue, F)
  PROVE  /\ \A j \in Jobs, s \in States :
              (s = "completed" => [job |-> j, attempt |-> queue.entry[j].attempt] \in F)
                => Reported(WithState(queue, j, s), F)
         /\ \A j \in Jobs : Reported(Begun(j), F)
         /\ \A j \in Jobs : Reported([queue EXCEPT !.entry[j].format = "other"], F)
         /\ \A batch \in Batches : Reported(Appended(queue, batch), F)
<1>1. ASSUME NEW j \in Jobs, NEW s \in States,
             s = "completed" => [job |-> j, attempt |-> queue.entry[j].attempt] \in F
      PROVE  Reported(WithState(queue, j, s), F)
  <2> DEFINE next == WithState(queue, j, s)
  <2>1. /\ State(next, j) = s
        /\ \A k \in Jobs : /\ next.entry[k].attempt = queue.entry[k].attempt
                           /\ k # j => State(next, k) = State(queue, k)
    BY WithStateKeeps
  <2> HIDE DEF next
  <2>2. Reported(next, F)
    BY <1>1, <2>1 DEF Reported
  <2> QED
    BY <2>2 DEF next
<1>2. ASSUME NEW j \in Jobs PROVE Reported(Begun(j), F)
  <2> DEFINE next == Begun(j)
  <2>1. /\ State(next, j) = "running"
        /\ \A k \in Jobs : k # j => /\ State(next, k) = State(queue, k)
                                    /\ next.entry[k].attempt = queue.entry[k].attempt
    BY BegunKeeps
  <2> HIDE DEF next
  <2>2. Reported(next, F)
    BY <2>1 DEF Reported
  <2> QED
    BY <2>2 DEF next
<1>3. ASSUME NEW j \in Jobs PROVE Reported([queue EXCEPT !.entry[j].format = "other"], F)
  <2> DEFINE next == [queue EXCEPT !.entry[j].format = "other"]
  <2>1. \A k \in Jobs : /\ State(next, k) = State(queue, k)
                        /\ next.entry[k].attempt = queue.entry[k].attempt
    BY FormatKeeps
  <2> HIDE DEF next
  <2>2. Reported(next, F)
    BY <2>1 DEF Reported
  <2> QED
    BY <2>2 DEF next
<1>4. ASSUME NEW batch \in Batches PROVE Reported(Appended(queue, batch), F)
  <2> DEFINE next == Appended(queue, batch)
  <2>1. \A k \in Jobs : State(next, k) = "queued" \/ next.entry[k] = queue.entry[k]
    BY AppendedAreQueued
  <2> HIDE DEF next
  <2>2. Reported(next, F)
    BY <2>1 DEF Reported, State
  <2> QED
    BY <2>2 DEF next
<1> QED
  BY <1>1, <1>2, <1>3, <1>4

LEMMA RecoveredIsReported ==
  ASSUME NEW q \in Queues, NEW F, Reported(q, F)
  PROVE  Reported(RecoverRunning(q), F)
<1> DEFINE next == RecoverRunning(q)
<1>1. \A k \in Jobs : /\ next.entry[k].attempt = q.entry[k].attempt
                      /\ State(next, k) = IF State(q, k) = "running" THEN "queued" ELSE State(q, k)
  BY RecoverKeeps
<1> HIDE DEF next
<1>2. Reported(next, F)
  BY <1>1 DEF Reported
<1> QED
  BY <1>2 DEF next

LEMMA NothingIsReported ==
  ASSUME NEW F
  PROVE  Reported(NoWrite, F) /\ Reported(EmptyQueue, F)
<1>1. \A j \in Jobs : State(NoWrite, j) = "none" /\ State(EmptyQueue, j) = "none"
  BY DEF NoWrite, EmptyQueue, NoEntries, NoEntry, State
<1> QED
  BY <1>1 DEF Reported

LEMMA SaveReports ==
  ASSUME ReportInv, fetched \subseteq fetched', NEW next, Saved(next) \/ Refused(next),
         Reported(next, fetched')
  PROVE  ReportInv'
<1>1. /\ Reported(queue, fetched') /\ Reported(memory, fetched')
      /\ Reported(disk, fetched') /\ Reported(pending_write, fetched')
  BY ReportedGrows DEF ReportInv
<1>2. /\ queue' \in {queue, next} /\ memory' \in {memory, next} /\ disk' \in {disk, next}
      /\ pending_write' \in {NoWrite, next}
  BY DEF Saved, Stored, Refused, NotStored
<1>3. /\ Reported(queue', fetched') /\ Reported(memory', fetched')
      /\ Reported(disk', fetched') /\ Reported(pending_write', fetched')
  BY <1>1, <1>2, NothingIsReported
<1> QED
  BY <1>3 DEF ReportInv

LEMMA ReportsStay ==
  ASSUME ReportInv, fetched \subseteq fetched', UNCHANGED store
  PROVE  ReportInv'
<1>1. queue' = queue /\ memory' = memory /\ disk' = disk /\ pending_write' = pending_write
  BY DEF store
<1> QED
  BY <1>1, ReportedGrows DEF ReportInv

\* A finished attempt is the active one; if it completed, it must have reported.
LEMMA FinishReports ==
  ASSUME IInv, ReportInv, fetched \subseteq fetched',
         NEW owner, NEW s \in TransferOutcomes, Finish(owner, s),
         s = "completed" /\ active # NoOwner /\ owner = active => active \in fetched'
  PROVE  ReportInv' /\ (yandex_generation' = 0 \/ UNCHANGED <<active, yandex_generation>>)
<1>1. CASE UNCHANGED <<store, active, yandex_generation>>
  BY <1>1, ReportsStay
<1>2. CASE /\ owner # NoOwner /\ active = owner
           /\ queue.entry[owner.job].attempt = owner.attempt
           /\ FreeSlot /\ Save(WithState(queue, owner.job, s))
  <2>1. active \in Owners /\ active.job \in Jobs
    BY <1>2, OwnersAreJobs DEF IInv, TypeOK, SlotTyped
  <2>2. active = [job |-> active.job, attempt |-> queue.entry[active.job].attempt]
    BY <1>2, <2>1 DEF Owners
  <2>3. queue \in Queues /\ s \in States /\ Reported(queue, fetched')
    BY ReportedGrows, OutcomesAreStates DEF IInv, TypeOK, StoreTyped, ReportInv
  <2>4. s = "completed" =>
          [job |-> active.job, attempt |-> queue.entry[active.job].attempt] \in fetched'
    BY <1>2, <2>2
  <2> DEFINE next == WithState(queue, active.job, s)
  <2>5. Reported(next, fetched')
    BY <2>1, <2>3, <2>4, ChangesAreReported
  <2>6. Saved(next) \/ Refused(next)
    BY <1>2 DEF Save
  <2> HIDE DEF next
  <2>7. ReportInv'
    BY <2>5, <2>6, SaveReports
  <2> QED
    BY <1>2, <2>7 DEF FreeSlot
<1> QED
  BY <1>1, <1>2 DEF Finish

\* Handlers that ask for no completion.
LEMMA CancelReports ==
  ASSUME IInv, ReportInv, fetched' = fetched, NEW j \in Jobs, CancelEntry(j)
  PROVE  ReportInv'
<1>1. Reported(WithState(queue, j, "cancelled"), fetched')
  BY ChangesAreReported DEF IInv, TypeOK, StoreTyped, States, ReportInv
<1> QED
  BY <1>1, SaveReports DEF CancelEntry, Save

LEMMA CancelOwnerReports ==
  ASSUME IInv, ReportInv, fetched' = fetched,
         CancelOwner \/ UNCHANGED <<store, slot, dropped>>
  PROVE  ReportInv' /\ (yandex_generation' = 0 \/ UNCHANGED <<active, yandex_generation>>)
<1>1. CASE UNCHANGED <<store, slot, dropped>>
  BY <1>1, ReportsStay DEF slot
<1>2. CASE CancelOwner
  <2>1. yandex_generation' = 0
    BY <1>2 DEF CancelOwner, FreeSlot
  <2>2. CASE active = NoOwner
    BY <1>2, <2>1, <2>2, ReportsStay DEF CancelOwner
  <2>3. CASE active # NoOwner
    <3>1. active.job \in Jobs
      BY <2>3, ActiveIsRunning
    <3> QED
      BY <1>2, <2>1, <2>3, <3>1, CancelReports DEF CancelOwner
  <2> QED
    BY <2>2, <2>3
<1> QED
  BY <1>1, <1>2

LEMMA TailAnswers ==
  ASSUME NEW S, NEW s \in Seq(S), s # <<>>
  PROVE  /\ Head(s) \in {s[i] : i \in DOMAIN s}
         /\ {Tail(s)[i] : i \in DOMAIN Tail(s)} \subseteq {s[i] : i \in DOMAIN s}
<1>1. Len(s) \in Nat /\ Len(s) > 0 /\ DOMAIN s = 1..Len(s)
  OBVIOUS
<1>2. DOMAIN Tail(s) = 1..(Len(s) - 1) /\ \A i \in 1..(Len(s) - 1) : Tail(s)[i] = s[i + 1]
  BY <1>1
<1>3. Head(s) = s[1] /\ 1 \in DOMAIN s
  BY <1>1
<1>4. \A i \in 1..(Len(s) - 1) : i + 1 \in 1..Len(s)
  BY <1>1
<1> QED
  BY <1>1, <1>2, <1>3, <1>4

LEMMA AppendAnswers ==
  ASSUME NEW S, NEW s \in Seq(S), NEW x \in S
  PROVE  {Append(s, x)[i] : i \in DOMAIN Append(s, x)} \subseteq {s[i] : i \in DOMAIN s} \cup {x}
<1>1. Len(s) \in Nat /\ DOMAIN s = 1..Len(s) /\ DOMAIN Append(s, x) = 1..(Len(s) + 1)
  OBVIOUS
<1>2. \A i \in 1..Len(s) : Append(s, x)[i] = s[i]
  OBVIOUS
<1>3. Append(s, x)[Len(s) + 1] = x
  OBVIOUS
<1>4. \A i \in 1..(Len(s) + 1) : i \in 1..Len(s) \/ i = Len(s) + 1
  BY <1>1
<1> QED
  BY <1>1, <1>2, <1>3, <1>4

\* A step that starts no thread and takes no answer in.
LEMMA GenerationsKeep ==
  ASSUME IInv, GenerationInv, fetched \subseteq fetched',
         generation' \in {generation, generation + 1},
         yandex_generation' = 0 \/ UNCHANGED <<active, yandex_generation>>,
         \/ native' \in {native, NoThread}
         \/ native # NoThread /\ native' = [native EXCEPT !.cancelled = TRUE],
         Answers' \subseteq Answers
  PROVE  GenerationInv'
<1>1. generation \in Nat /\ yandex_generation \in Nat /\ native \in Threads
  BY DEF IInv, TypeOK, WorkersTyped, SlotTyped
<1>2. /\ yandex_generation' <= generation' /\ generation' \in Nat /\ generation <= generation'
      /\ active' = NoOwner => yandex_generation' = 0
  BY <1>1 DEF GenerationInv
<1>3. native' # NoThread => native # NoThread /\ native'.generation = native.generation
                            /\ native'.owner = native.owner
  <2>1. CASE native # NoThread /\ native' = [native EXCEPT !.cancelled = TRUE]
    BY <1>1, <2>1 DEF Threads
  <2> QED
    BY <2>1
<1> QED
  BY <1>1, <1>2, <1>3 DEF GenerationInv

LEMMA GenerationsStay ==
  ASSUME IInv, GenerationInv, fetched \subseteq fetched',
         UNCHANGED <<generation, native, responses>>,
         yandex_generation' = 0 \/ UNCHANGED <<active, yandex_generation>>
  PROVE  GenerationInv'
<1>1. Answers' = Answers
  BY DEF Answers
<1> QED
  BY <1>1, GenerationsKeep

FetchInv == ReportInv /\ GenerationInv

\* A handler that saves a queue which reports no more than the one shown.
LEMMA SaveFetches ==
  ASSUME IInv, FetchInv, fetched' = fetched, UNCHANGED <<generation, native, responses>>,
         yandex_generation' = 0 \/ UNCHANGED <<active, yandex_generation>>,
         NEW next, Reported(next, fetched), Save(next)
  PROVE  FetchInv'
<1>1. Reported(next, fetched') /\ (Saved(next) \/ Refused(next))
  BY DEF Save
<1> QED
  BY <1>1, SaveReports, GenerationsStay DEF FetchInv

LEMMA RequestFetches ==
  ASSUME IInv, FetchInv, Request
  PROVE  FetchInv'
<1>0. queue \in Queues /\ Reported(queue, fetched)
  BY DEF IInv, TypeOK, StoreTyped, FetchInv, ReportInv
<1>1. ASSUME NEW batch \in Batches, Enqueue(batch) PROVE FetchInv'
  <2>1. Save(Appended(queue, batch)) /\ UNCHANGED <<slot, workers, fetched>>
    BY <1>1 DEF Enqueue, history
  <2>2. Reported(Appended(queue, batch), fetched)
    BY <1>0, ChangesAreReported
  <2> QED
    BY <2>1, <2>2, SaveFetches DEF slot, workers
<1>2. ASSUME NEW j \in Jobs, Retry(j) PROVE FetchInv'
  <2>1. Save(WithState(queue, j, "queued")) /\ UNCHANGED <<slot, workers, fetched>>
    BY <1>2 DEF Retry
  <2>2. Reported(WithState(queue, j, "queued"), fetched)
    BY <1>0, ChangesAreReported DEF States
  <2> QED
    BY <2>1, <2>2, SaveFetches DEF slot, workers
<1>3. ASSUME CancelNative \/ CancelCached \/ CancelTransfer, fetched' = fetched
      PROVE  FetchInv'
  <2>1. /\ CancelOwner \/ UNCHANGED <<store, slot, dropped>>
        /\ generation' \in {generation, generation + 1} /\ responses' = responses
        /\ \/ native' \in {native, NoThread}
           \/ native # NoThread /\ native' = [native EXCEPT !.cancelled = TRUE]
    BY <1>3 DEF CancelNative, CancelCached, CancelTransfer
  <2>2. ReportInv' /\ (yandex_generation' = 0 \/ UNCHANGED <<active, yandex_generation>>)
    BY <1>3, <2>1, CancelOwnerReports DEF FetchInv
  <2>3. Answers' = Answers
    BY <2>1 DEF Answers
  <2>4. GenerationInv'
    BY <1>3, <2>1, <2>2, <2>3, GenerationsKeep DEF FetchInv
  <2> QED
    BY <2>2, <2>4 DEF FetchInv
<1>4. ASSUME NEW j \in Jobs, CancelEntry(j), fetched' = fetched, UNCHANGED <<slot, workers>>
      PROVE  FetchInv'
  <2>1. Reported(WithState(queue, j, "cancelled"), fetched)
    BY <1>0, ChangesAreReported DEF States
  <2> QED
    BY <1>4, <2>1, SaveFetches DEF CancelEntry, slot, workers
<1>5. CASE \E j \in Jobs : CancelJob(j)
  <2>1. PICK j \in Jobs : CancelJob(j)
    BY <1>5
  <2>2. /\ fetched' = fetched
        /\ \/ CancelNative \/ CancelCached \/ CancelTransfer
           \/ CancelEntry(j) /\ UNCHANGED <<slot, workers>>
    BY <2>1 DEF CancelJob
  <2> QED
    BY <1>3, <1>4, <2>2
<1>6. CASE CancelActive
  BY <1>3, <1>6 DEF CancelActive
<1>7. CASE DismissChoice
  <2>1. /\ CancelEntry(choosing) /\ fetched' = fetched /\ UNCHANGED <<slot, workers>>
        /\ choosing # 0
    BY <1>7 DEF DismissChoice
  <2>2. choosing \in Jobs
    BY <2>1 DEF IInv, TypeOK, SlotTyped
  <2> QED
    BY <1>4, <2>1, <2>2
<1>8. CASE StartChannel
  <2>1. UNCHANGED <<store, slot, fetched, native, generation, responses>>
    BY <1>8 DEF StartChannel, history
  <2> QED
    BY <2>1, ReportsStay, GenerationsStay DEF FetchInv, slot
<1>9. CASE StartBatch
  <2>1. /\ active = NoOwner /\ UNCHANGED <<store, slot, fetched, responses>>
        /\ generation' = generation + 1
        /\ native' = [NoThread EXCEPT !.generation = generation']
    BY <1>9 DEF StartBatch, history
  <2>2. generation \in Nat /\ yandex_generation = 0 /\ yandex_generation' = 0
        /\ active' = active
    BY <2>1 DEF IInv, TypeOK, WorkersTyped, FetchInv, GenerationInv, slot
  <2>3. native'.generation = generation'
    BY <2>1 DEF NoThread
  <2>4. Answers' = Answers
    BY <2>1 DEF Answers
  <2>5. \A r \in Answers' : r.generation \in 1..generation' /\ r.generation # yandex_generation'
    BY <2>1, <2>2, <2>4 DEF FetchInv, GenerationInv
  <2>6. GenerationInv'
    BY <2>1, <2>2, <2>3, <2>5 DEF GenerationInv
  <2> QED
    BY <2>1, <2>6, ReportsStay DEF FetchInv
<1> QED
  BY <1>1, <1>2, <1>5, <1>6, <1>7, <1>8, <1>9 DEF Request

LEMMA BeginFetches ==
  ASSUME IInv, FetchInv, NEW j \in Jobs, BeginAttempt(j), active = NoOwner
  PROVE  FetchInv'
<1>1. /\ Save(Begun(j)) /\ fetched' = fetched
      /\ UNCHANGED <<yandex_generation, generation, native, responses>>
  BY DEF BeginAttempt, history, workers
<1>2. yandex_generation' = 0
  BY <1>1 DEF FetchInv, GenerationInv
<1>3. Reported(Begun(j), fetched)
  BY ChangesAreReported DEF IInv, TypeOK, StoreTyped, FetchInv, ReportInv
<1> QED
  BY <1>1, <1>2, <1>3, SaveFetches

LEMMA PollFetches ==
  ASSUME IInv, FetchInv, Poll \/ Answer \/ BeginChosen
  PROVE  FetchInv'
<1>1. CASE PollDeferred \/ PollNothing \/ \E j \in Jobs : PollChoose(j)
  <2>1. UNCHANGED <<store, active, yandex_generation, workers, fetched>>
    BY <1>1 DEF PollDeferred, PollNothing, PollChoose, slot, history
  <2> QED
    BY <2>1, ReportsStay, GenerationsStay DEF FetchInv, workers
<1>2. CASE \E j \in Jobs : PollBegin(j)
  BY <1>2, BeginFetches DEF PollBegin, Startable
<1>3. CASE BeginChosen
  <2>1. active = NoOwner /\ reducer.job \in Jobs
    BY <1>3 DEF BeginChosen, IInv, SlotInv
  <2> QED
    BY <1>3, <2>1, BeginFetches DEF BeginChosen
<1>4. CASE Answer
  <2>1. /\ choosing # 0
        /\ \/ Save([queue EXCEPT !.entry[choosing].format = "other"])
           \/ Save(WithState(queue, choosing, "failed"))
        /\ UNCHANGED <<slot, workers, fetched>>
    BY <1>4 DEF Answer, ConfirmChoice, ChoiceFails, Asking, history
  <2>2. choosing \in Jobs
    BY <2>1 DEF IInv, TypeOK, SlotTyped
  <2>3. /\ Reported([queue EXCEPT !.entry[choosing].format = "other"], fetched)
        /\ Reported(WithState(queue, choosing, "failed"), fetched)
    BY <2>2, ChangesAreReported DEF IInv, TypeOK, StoreTyped, FetchInv, ReportInv, States
  <2> QED
    BY <2>1, <2>3, SaveFetches DEF slot, workers
<1> QED
  BY <1>1, <1>2, <1>3, <1>4 DEF Poll

LEMMA LaunchFetches ==
  ASSUME IInv, FetchInv,
         LaunchNative \/ LaunchCached \/ LaunchDeferred \/ LaunchTransfer \/ LaunchFails
  PROVE  FetchInv'
<1>1. CASE LaunchCached \/ LaunchDeferred \/ LaunchTransfer
  <2>1. UNCHANGED <<store, active, yandex_generation, generation, native, responses, fetched>>
    BY <1>1 DEF LaunchCached, LaunchDeferred, LaunchTransfer, slot, workers, history
  <2> QED
    BY <2>1, ReportsStay, GenerationsStay DEF FetchInv
<1>2. CASE LaunchFails
  <2>1. Finish(active, "failed") /\ UNCHANGED <<generation, native, responses, fetched>>
    BY <1>2 DEF LaunchFails, workers, history
  <2>2. ReportInv' /\ (yandex_generation' = 0 \/ UNCHANGED <<active, yandex_generation>>)
    BY <2>1, FinishReports, OutcomesAreStates DEF FetchInv
  <2> QED
    BY <2>1, <2>2, GenerationsStay DEF FetchInv
<1>3. CASE LaunchNative
  <2>1. /\ active # NoOwner /\ UNCHANGED <<store, active, fetched, responses>>
        /\ generation' = generation + 1 /\ yandex_generation' = generation'
        /\ native'.generation = generation' /\ native'.owner = active
    BY <1>3 DEF LaunchNative, Launching
  <2>2. generation \in Nat
    BY DEF IInv, TypeOK, WorkersTyped
  <2>3. Answers' = Answers
    BY <2>1 DEF Answers
  <2>4. \A r \in Answers' : r.generation \in 1..generation' /\ r.generation # yandex_generation'
    BY <2>1, <2>2, <2>3 DEF FetchInv, GenerationInv
  <2>5. GenerationInv'
    BY <2>1, <2>2, <2>4 DEF GenerationInv
  <2> QED
    BY <2>1, <2>5, ReportsStay DEF FetchInv
<1> QED
  BY <1>1, <1>2, <1>3

LEMMA WorkerFetches ==
  ASSUME IInv, FetchInv, WorkerEnds
  PROVE  FetchInv'
<1>1. CASE GateOpens \/ \E r \in {"hit", "miss"} : CopyEnds(r)
  <2>1. UNCHANGED <<store, slot, generation, native, responses, fetched>>
    BY <1>1 DEF GateOpens, CopyEnds, history
  <2> QED
    BY <2>1, ReportsStay, GenerationsStay DEF FetchInv, slot
<1>2. CASE \E s \in Outcomes : NativeEnds(s)
  <2>1. PICK s \in Outcomes : NativeEnds(s)
    BY <1>2
  <2> DEFINE answer == [generation |-> native.generation, state |-> s]
  <2>2. /\ native # NoThread /\ native' = [native EXCEPT !.done = TRUE]
        /\ responses' = Append(responses, answer)
        /\ UNCHANGED <<store, active, yandex_generation, generation>>
        /\ fetched' = IF s # "failed" /\ native.owner # NoOwner
                      THEN fetched \cup {native.owner} ELSE fetched
    BY <2>1 DEF NativeEnds, Fetched, slot
  <2>3. /\ native \in Threads /\ generation \in Nat
        /\ responses \in Seq([generation : Nat, state : Outcomes])
        /\ answer \in [generation : Nat, state : Outcomes]
    BY DEF IInv, TypeOK, WorkersTyped, Threads
  <2>4. native'.generation = native.generation /\ native'.owner = native.owner
    BY <2>2, <2>3 DEF Threads
  <2>5. Answers' \subseteq Answers \cup {answer}
    BY <2>2, <2>3, AppendAnswers DEF Answers
  <2>6. native.generation = yandex_generation => native.owner = active /\ active # NoOwner
    BY <2>2 DEF FetchInv, GenerationInv
  <2>7. \A r \in Answers' :
          /\ r.generation \in 1..generation'
          /\ r.generation = yandex_generation' /\ r.state = "completed" => active' \in fetched'
    <3> TAKE r \in Answers'
    <3>1. CASE r \in Answers
      BY <2>2, <3>1 DEF FetchInv, GenerationInv
    <3>2. CASE r = answer
      BY <2>2, <2>6, <3>2 DEF FetchInv, GenerationInv
    <3> QED
      BY <2>5, <3>1, <3>2
  <2>8. GenerationInv'
    BY <2>2, <2>4, <2>7 DEF FetchInv, GenerationInv
  <2> QED
    BY <2>2, <2>8, ReportsStay DEF FetchInv
<1> QED
  BY <1>1, <1>2 DEF WorkerEnds

LEMMA OutcomeFetches ==
  ASSUME IInv, FetchInv, Outcome
  PROVE  FetchInv'
<1>1. CASE \E s \in TransferOutcomes : TransferOutcome(s)
  <2>1. PICK s \in TransferOutcomes : TransferOutcome(s)
    BY <1>1
  <2>2. /\ Finish(transfer.owner, s) /\ UNCHANGED <<generation, native, responses>>
        /\ fetched' = IF s # "failed" /\ transfer.owner # NoOwner
                      THEN fetched \cup {transfer.owner} ELSE fetched
    BY <2>1 DEF TransferOutcome, Fetched
  <2>3. ReportInv' /\ (yandex_generation' = 0 \/ UNCHANGED <<active, yandex_generation>>)
    BY <2>2, FinishReports, OutcomesAreStates DEF FetchInv
  <2> QED
    BY <2>2, <2>3, GenerationsStay DEF FetchInv
<1>2. CASE CopyOutcome
  <2>1. /\ UNCHANGED <<generation, native, responses>>
        /\ \/ UNCHANGED <<store, active, yandex_generation, fetched>>
           \/ Fetched(active, "completed") /\ Finish(active, "completed")
           \/ Finish(active, "failed") /\ fetched' = fetched
    BY <1>2 DEF CopyOutcome
  <2>2. fetched \subseteq fetched'
    BY <2>1 DEF Fetched
  <2>3. ReportInv' /\ (yandex_generation' = 0 \/ UNCHANGED <<active, yandex_generation>>)
    <3>1. CASE UNCHANGED <<store, active, yandex_generation, fetched>>
      BY <3>1, ReportsStay DEF FetchInv
    <3>2. CASE Fetched(active, "completed") /\ Finish(active, "completed")
      <4>1. active # NoOwner => active \in fetched'
        BY <3>2 DEF Fetched
      <4> QED
        BY <2>2, <3>2, <4>1, FinishReports, OutcomesAreStates DEF FetchInv
    <3>3. CASE Finish(active, "failed") /\ fetched' = fetched
      BY <3>3, FinishReports, OutcomesAreStates DEF FetchInv
    <3> QED
      BY <2>1, <3>1, <3>2, <3>3
  <2> QED
    BY <2>1, <2>2, <2>3, GenerationsStay DEF FetchInv
<1>3. CASE Respond
  <2> DEFINE answer == Head(responses)
  <2>1. /\ responses # <<>> /\ responses' = Tail(responses)
        /\ fetched' = fetched /\ generation' = generation /\ native' \in {native, NoThread}
        /\ \/ UNCHANGED <<store, active, yandex_generation>>
           \/ answer.generation = yandex_generation /\ Finish(active, answer.state)
    BY <1>3 DEF Respond, history
  <2>2. responses \in Seq([generation : Nat, state : Outcomes])
    BY DEF IInv, TypeOK, WorkersTyped
  <2>3. answer \in Answers /\ answer.state \in Outcomes /\ Answers' \subseteq Answers
    <3>1. answer \in [generation : Nat, state : Outcomes]
      BY <2>1, <2>2, TailTyped
    <3>2. /\ answer \in {responses[i] : i \in DOMAIN responses}
          /\ {Tail(responses)[i] : i \in DOMAIN Tail(responses)}
               \subseteq {responses[i] : i \in DOMAIN responses}
      BY <2>1, <2>2, TailAnswers
    <3> QED
      BY <2>1, <3>1, <3>2 DEF Answers
  <2>4. answer.generation = yandex_generation /\ answer.state = "completed" => active \in fetched'
    BY <2>1, <2>3 DEF FetchInv, GenerationInv
  <2> HIDE DEF answer
  <2>5. ReportInv' /\ (yandex_generation' = 0 \/ UNCHANGED <<active, yandex_generation>>)
    <3>1. CASE UNCHANGED <<store, active, yandex_generation>>
      BY <2>1, <3>1, ReportsStay DEF FetchInv
    <3>2. CASE answer.generation = yandex_generation /\ Finish(active, answer.state)
      BY <2>1, <2>3, <2>4, <3>2, FinishReports, OutcomesAreStates DEF FetchInv
    <3> QED
      BY <2>1, <3>1, <3>2
  <2>6. GenerationInv'
    BY <2>1, <2>3, <2>5, GenerationsKeep DEF FetchInv
  <2> QED
    BY <2>5, <2>6 DEF FetchInv
<1>4. CASE Reap
  <2>1. /\ UNCHANGED <<store, slot, fetched, generation, responses>> /\ native' = NoThread
    BY <1>4 DEF Reap, history
  <2>2. Answers' = Answers
    BY <2>1 DEF Answers
  <2>3. GenerationInv'
    BY <2>1, <2>2, GenerationsKeep DEF FetchInv, slot
  <2> QED
    BY <2>1, <2>3, ReportsStay DEF FetchInv
<1> QED
  BY <1>1, <1>2, <1>3, <1>4 DEF Outcome

LEMMA RestartFetches ==
  ASSUME IInv, FetchInv, Restart
  PROVE  FetchInv'
<1>0. queue \in Queues /\ disk \in Queues /\ pending_write \in Queues
  BY DEF IInv, TypeOK, StoreTyped
<1>1. ASSUME EmptySlots PROVE GenerationInv'
  <2>1. /\ active' = NoOwner /\ yandex_generation' = 0 /\ generation' = 0
        /\ native' = NoThread /\ responses' = <<>>
    BY <1>1 DEF EmptySlots
  <2>2. Answers' = {}
    BY <2>1 DEF Answers
  <2> QED
    BY <2>1, <2>2 DEF GenerationInv
<1>2. CASE Crash
  <2>1. EmptySlots /\ UNCHANGED <<store, fetched>>
    BY <1>2 DEF Crash
  <2> QED
    BY <1>1, <2>1, ReportsStay DEF FetchInv
<1>3. CASE Close
  <2> DEFINE last == RecoverRunning(Latest)
  <2>1. /\ EmptySlots /\ fetched' = fetched
        /\ UNCHANGED store \/ Saved(last) \/ Refused(last)
    BY <1>3 DEF Close
  <2>2. Latest \in Queues /\ Reported(Latest, fetched)
    BY <1>0 DEF Latest, FetchInv, ReportInv
  <2>3. Reported(last, fetched')
    BY <2>1, <2>2, RecoveredIsReported
  <2> HIDE DEF last
  <2>4. ReportInv'
    BY <2>1, <2>3, ReportsStay, SaveReports DEF FetchInv
  <2> QED
    BY <1>1, <2>1, <2>4 DEF FetchInv
<1>4. CASE Start
  <2> DEFINE recovered == RecoverRunning(disk)
  <2>1. /\ UNCHANGED <<slot, workers, fetched>>
        /\ queue' \in {recovered, EmptyQueue} /\ memory' \in {recovered, disk}
        /\ disk' \in {recovered, disk} /\ pending_write' \in {recovered, NoWrite}
    BY <1>4 DEF Start, Restored, NotRestored
  <2>2. Reported(disk, fetched) /\ Reported(recovered, fetched)
    BY <1>0, RecoveredIsReported DEF FetchInv, ReportInv
  <2> HIDE DEF recovered
  <2>3. /\ Reported(queue', fetched') /\ Reported(memory', fetched')
        /\ Reported(disk', fetched') /\ Reported(pending_write', fetched')
    BY <2>1, <2>2, NothingIsReported
  <2>4. ReportInv'
    BY <2>3 DEF ReportInv
  <2> QED
    BY <2>1, <2>4, GenerationsStay DEF FetchInv, slot, workers
<1> QED
  BY <1>2, <1>3, <1>4 DEF Restart

LEMMA FetchInvInit == Init => FetchInv
<1> SUFFICES ASSUME Init PROVE FetchInv
  OBVIOUS
<1>1. ReportInv
  BY NothingIsReported DEF Init, ReportInv
<1>2. Answers = {}
  BY DEF Init, Answers
<1>3. GenerationInv
  BY <1>2 DEF Init, GenerationInv
<1> QED
  BY <1>1, <1>3 DEF FetchInv

LEMMA FetchInvInductive == IInv /\ FetchInv /\ [Next]_vars => FetchInv'
<1> SUFFICES ASSUME IInv, FetchInv, [Next]_vars PROVE FetchInv'
  OBVIOUS
<1>1. CASE UNCHANGED vars
  <2>1. UNCHANGED <<store, slot, workers, fetched>>
    BY <1>1 DEF vars, history
  <2> QED
    BY <2>1, ReportsStay, GenerationsStay DEF FetchInv, slot, workers
<1> QED
  BY <1>1, RequestFetches, PollFetches, LaunchFetches, WorkerFetches, OutcomeFetches,
     RestartFetches DEF Next, Launch

\* finish_manual_download_for completes a job only by a file that its own, last
\* attempt reported, also after restarts and however late answers come.
THEOREM CompletedIsFetchedAlways == Spec => []CompletedIsFetched
<1>1. Init => FetchInv
  BY FetchInvInit
<1>2. IInv /\ FetchInv /\ [Next]_vars => FetchInv'
  BY FetchInvInductive
<1>3. FetchInv => CompletedIsFetched
  BY DEF FetchInv, ReportInv, Reported, CompletedIsFetched
<1> QED
  BY <1>1, <1>2, <1>3, Invariant, PTL DEF Spec

-----------------------------------------------------------------------------
(* Whose the slot is *)

\* Only the active job runs.
RunInv ==
  ~blocked /\ reducer.step # "down" =>
    \A j \in Jobs : State(queue, j) = "running" => j = active.job

\* A transfer, a copy and a thread that was not told to stop belong to the active
\* attempt, which has one of them at most, and none before its launch.
OwnerInv ==
  /\ {transfer.owner, cached.owner} \subseteq {active, NoOwner}
  /\ transfer.owner # NoOwner => transfer.running
  /\ active = NoOwner \/ transfer.owner = NoOwner \/ cached.owner = NoOwner
  /\ yandex_generation # 0 => transfer.owner = NoOwner /\ cached.owner = NoOwner
  /\ native.owner # NoOwner /\ ~native.cancelled =>
       native.owner = active /\ native.generation = generation /\ yandex_generation = generation
  /\ native.cancelled => native.generation < generation
  /\ (reducer.step = "launch" \/ deferred_cache) /\ active # NoOwner
       => yandex_generation = 0 /\ transfer.owner = NoOwner /\ cached.owner = NoOwner
  /\ reducer.step \in {"ready", "poll"} /\ active # NoOwner => Served(active)

\* What a saved queue holds as running is the active job, or was not running rightly.
LEMMA SaveRuns ==
  ASSUME RunInv, reducer.step # "down", NEW next, Saved(next) \/ Refused(next),
         Saved(next) => \A j \in Jobs : State(next, j) = "running" =>
                          j = active'.job \/ (State(queue, j) = "running" /\ j # active.job)
  PROVE  RunInv'
<1>1. CASE Saved(next)
  <2>1. queue' = next /\ blocked' = blocked
    BY <1>1 DEF Saved
  <2>2. ASSUME ~blocked, NEW j \in Jobs, State(next, j) = "running" PROVE j = active'.job
    BY <1>1, <2>2 DEF RunInv
  <2> QED
    BY <2>1, <2>2 DEF RunInv
<1>2. CASE Refused(next)
  <2>1. blocked'
    BY <1>2 DEF Refused
  <2> QED
    BY <2>1 DEF RunInv
<1> QED
  BY <1>1, <1>2

LEMMA RunsStay ==
  ASSUME RunInv, reducer.step # "down" \/ reducer'.step = "down", UNCHANGED <<store, active>>
  PROVE  RunInv'
<1>1. queue' = queue /\ blocked' = blocked /\ active' = active
  BY DEF store
<1> QED
  BY <1>1 DEF RunInv

\* A change of one job to another state than running, the slot kept or, with its
\* own job, freed.
LEMMA ChangeRuns ==
  ASSUME IInv, RunInv, reducer.step # "down", NEW j \in Jobs, NEW s \in States, s # "running",
         Save(WithState(queue, j, s)), active' = active \/ j = active.job
  PROVE  RunInv'
<1> DEFINE next == WithState(queue, j, s)
<1>1. State(next, j) = s /\ \A k \in Jobs : k # j => State(next, k) = State(queue, k)
  BY WithStateKeeps DEF IInv, TypeOK, StoreTyped
<1>2. Saved(next) \/ Refused(next)
  BY DEF Save
<1> HIDE DEF next
<1>3. \A k \in Jobs : State(next, k) = "running" =>
        k = active'.job \/ (State(queue, k) = "running" /\ k # active.job)
  BY <1>1
<1> QED
  BY <1>2, <1>3, SaveRuns

LEMMA FinishRuns ==
  ASSUME IInv, RunInv, reducer.step # "down",
         NEW owner, NEW s \in TransferOutcomes, Finish(owner, s)
  PROVE  /\ RunInv'
         /\ owner = active /\ active # NoOwner => active' = NoOwner /\ yandex_generation' = 0
         /\ owner # active \/ active = NoOwner => UNCHANGED <<active, yandex_generation>>
<1>1. CASE owner = active /\ active # NoOwner
  <2>1. active.job \in Jobs /\ State(queue, active.job) = "running"
        /\ queue.entry[active.job].attempt = active.attempt
    BY <1>1, ActiveIsRunning DEF IInv, SlotInv
  <2>2. FreeSlot /\ Save(WithState(queue, active.job, s))
    BY <1>1, <2>1 DEF Finish
  <2>3. s \in States /\ s # "running"
    BY OutcomesAreStates
  <2> QED
    BY <1>1, <2>1, <2>2, <2>3, ChangeRuns DEF FreeSlot
<1>2. CASE owner # active \/ active = NoOwner
  <2>1. UNCHANGED <<store, active, yandex_generation>>
    BY <1>2 DEF Finish
  <2> QED
    BY <1>2, <2>1, RunsStay
<1> QED
  BY <1>1, <1>2

LEMMA CancelRuns ==
  ASSUME IInv, RunInv, reducer.step # "down", CancelOwner
  PROVE  RunInv' /\ active' = NoOwner /\ yandex_generation' = 0 /\ ~deferred_cache'
<1>1. active' = NoOwner /\ yandex_generation' = 0 /\ ~deferred_cache'
  BY DEF CancelOwner, FreeSlot
<1>2. CASE active = NoOwner
  BY <1>1, <1>2, RunsStay DEF CancelOwner
<1>3. CASE active # NoOwner
  <2>1. active.job \in Jobs /\ Save(WithState(queue, active.job, "cancelled"))
    BY <1>3, ActiveIsRunning DEF CancelOwner, CancelEntry
  <2> QED
    BY <1>1, <2>1, ChangeRuns DEF States
<1> QED
  BY <1>1, <1>2, <1>3

LEMMA BeginRuns ==
  ASSUME IInv, RunInv, reducer.step # "down", NEW j \in Jobs, BeginAttempt(j), active = NoOwner
  PROVE  RunInv'
<1> DEFINE next == Begun(j)
<1>1. \A k \in Jobs : k # j => State(next, k) = State(queue, k)
  BY BegunKeeps DEF IInv, TypeOK, StoreTyped
<1>2. /\ Saved(next) \/ Refused(next)
      /\ Confirmed => active'.job = j
  BY DEF BeginAttempt, Save
<1>3. Saved(next) => Confirmed
  BY DEF Saved, Confirmed
<1> HIDE DEF next
<1>4. \A k \in Jobs : k # active.job
  BY ConstantsAssumption DEF NoOwner, Jobs
<1> QED
  BY <1>1, <1>2, <1>3, <1>4, SaveRuns

-----------------------------------------------------------------------------
(* The slot and its workers, step by step *)

\* Nothing of the queue's is left in the slot.
LEMMA OwnersFreed ==
  ASSUME active' = NoOwner, yandex_generation' = 0,
         transfer'.owner = NoOwner, cached'.owner = NoOwner,
         native'.owner # NoOwner => native'.cancelled,
         native'.cancelled => native'.generation < generation'
  PROVE  OwnerInv'
  BY DEF OwnerInv

\* A handler that leaves the slot and its workers alone.
LEMMA OwnersKept ==
  ASSUME OwnerInv, UNCHANGED <<slot, transfer, cached, native, generation>>,
         \/ reducer' = reducer
         \/ reducer'.step # "launch" /\ (reducer.step \in {"ready", "poll"} \/ active = NoOwner)
  PROVE  OwnerInv'
<1>1. /\ active' = active /\ yandex_generation' = yandex_generation
      /\ deferred_cache' = deferred_cache
      /\ transfer' = transfer /\ cached' = cached /\ native' = native /\ generation' = generation
  BY DEF slot
<1>2. Served(active)' <=> Served(active)
  BY <1>1 DEF Served
<1> QED
  BY <1>1, <1>2 DEF OwnerInv

SlotOwned == RunInv /\ OwnerInv

LEMMA SaveOwned ==
  ASSUME IInv, SlotOwned, reducer.step # "down", NEW j \in Jobs, NEW s \in States,
         s # "running", Save(WithState(queue, j, s)), UNCHANGED <<slot, workers>>,
         \/ reducer' = reducer
         \/ reducer'.step # "launch" /\ (reducer.step \in {"ready", "poll"} \/ active = NoOwner)
  PROVE  SlotOwned'
<1>1. OwnerInv'
  BY OwnersKept DEF SlotOwned, workers
<1>2. RunInv'
  BY ChangeRuns DEF SlotOwned, slot
<1> QED
  BY <1>1, <1>2 DEF SlotOwned

\* What the three ways to cancel what runs have in common: the slot is freed, or
\* what was cancelled is not the queue's.
LEMMA CancelRunningOwned ==
  ASSUME IInv, SlotOwned, GenerationInv, CancelNative \/ CancelCached \/ CancelTransfer,
         Idle, reducer' = reducer
  PROVE  SlotOwned'
<1>0. /\ native \in Threads /\ generation \in Nat /\ yandex_generation \in Nat
      /\ transfer \in [owner : Owners, running : BOOLEAN]
  BY DEF IInv, TypeOK, WorkersTyped, SlotTyped
<1>1. reducer.step = "ready"
  BY DEF Idle
<1>2. ASSUME UNCHANGED <<store, slot, dropped>> PROVE RunInv'
  BY <1>1, <1>2, RunsStay DEF SlotOwned, slot
<1>3. ASSUME CancelOwner
      PROVE  RunInv' /\ active' = NoOwner /\ yandex_generation' = 0
  BY <1>1, <1>3, CancelRuns DEF SlotOwned
<1>4. NoTransfer.owner = NoOwner /\ NoCopy.owner = NoOwner /\ NoThread.owner = NoOwner
      /\ NoThread.cancelled = FALSE
  BY DEF NoTransfer, NoCopy, NoThread
<1>5. CASE CancelNative
  <2>1. /\ native # NoThread /\ ~native.cancelled
        /\ generation' = generation + 1 /\ transfer' = transfer /\ cached' = cached
        /\ native' = IF native.done THEN NoThread ELSE [native EXCEPT !.cancelled = TRUE]
        /\ IF active # NoOwner /\ yandex_generation = generation THEN CancelOwner
                                                    ELSE UNCHANGED <<store, slot, dropped>>
    BY <1>5 DEF CancelNative
  <2>2. native.generation \in 1..generation
    BY <2>1 DEF GenerationInv
  <2>3. /\ native'.cancelled => native'.generation < generation' /\ native'.owner = native.owner
        /\ native'.owner # NoOwner => native'.cancelled
    BY <1>0, <1>4, <2>1, <2>2 DEF Threads
  <2>4. CASE active # NoOwner /\ yandex_generation = generation
    <3>1. transfer.owner = NoOwner /\ cached.owner = NoOwner
      BY <1>0, <2>2, <2>4 DEF SlotOwned, OwnerInv
    <3> QED
      BY <1>3, <2>1, <2>3, <2>4, <3>1, OwnersFreed DEF SlotOwned
  <2>5. CASE ~(active # NoOwner /\ yandex_generation = generation)
    <3>1. /\ UNCHANGED <<store, slot, dropped>> /\ active' = active
          /\ yandex_generation' = yandex_generation /\ deferred_cache' = deferred_cache
      BY <2>1, <2>5 DEF slot
    <3>2. active # NoOwner => Served(active)
      BY <1>1 DEF SlotOwned, OwnerInv
    <3>3. active' # NoOwner => Served(active)'
      BY <2>1, <2>5, <3>1, <3>2 DEF Served
    <3>4. native'.owner # NoOwner /\ ~native'.cancelled => FALSE
      BY <2>3
    <3>5. OwnerInv'
      BY <1>1, <2>1, <2>3, <3>1, <3>3, <3>4 DEF SlotOwned, OwnerInv
    <3> QED
      BY <1>2, <3>1, <3>5 DEF SlotOwned
  <2> QED
    BY <2>4, <2>5
<1>6. CASE CancelCached
  <2>1. /\ native = NoThread /\ cached' = NoCopy
        /\ transfer' = transfer /\ native' = native /\ generation' = generation
        /\ IF cached.owner # NoOwner /\ cached.owner = active THEN CancelOwner
                                                 ELSE UNCHANGED <<store, slot, dropped>>
    BY <1>6 DEF CancelCached
  <2>2. CASE cached.owner # NoOwner /\ cached.owner = active
    <3>1. transfer.owner = NoOwner
      BY <2>2 DEF SlotOwned, OwnerInv
    <3> QED
      BY <1>3, <1>4, <2>1, <2>2, <3>1, OwnersFreed DEF SlotOwned
  <2>3. CASE ~(cached.owner # NoOwner /\ cached.owner = active)
    <3>1. /\ UNCHANGED <<store, slot, dropped>> /\ active' = active
          /\ yandex_generation' = yandex_generation /\ deferred_cache' = deferred_cache
      BY <2>1, <2>3 DEF slot
    <3>2. cached.owner = NoOwner
      BY <2>3 DEF SlotOwned, OwnerInv
    <3>3. active # NoOwner => Served(active)' /\ Served(active)
      BY <1>1, <1>4, <2>1, <3>1, <3>2 DEF SlotOwned, OwnerInv, Served
    <3>4. OwnerInv'
      BY <1>1, <1>4, <2>1, <3>1, <3>2, <3>3 DEF SlotOwned, OwnerInv
    <3> QED
      BY <1>2, <3>1, <3>4 DEF SlotOwned
  <2> QED
    BY <2>2, <2>3
<1>7. CASE CancelTransfer
  <2>1. /\ native = NoThread /\ cached = NoCopy /\ transfer' = NoTransfer
        /\ cached' = cached /\ native' = native /\ generation' = generation /\ CancelOwner
    BY <1>7 DEF CancelTransfer
  <2> QED
    BY <1>3, <1>4, <2>1, OwnersFreed DEF SlotOwned
<1> QED
  BY <1>5, <1>6, <1>7

LEMMA RequestOwned ==
  ASSUME IInv, SlotOwned, GenerationInv, Request
  PROVE  SlotOwned'
<1>1. ASSUME NEW batch \in Batches, Enqueue(batch) PROVE SlotOwned'
  <2> DEFINE next == Appended(queue, batch)
  <2>1. /\ reducer.step = "ready" /\ reducer'.step \in {"poll", "ready"}
        /\ Saved(next) \/ Refused(next)
        /\ UNCHANGED <<slot, workers>>
    BY <1>1 DEF Enqueue, Idle, Continue, Save
  <2>2. \A k \in Jobs : State(next, k) = "queued" \/ State(next, k) = State(queue, k)
    BY AppendedAreQueued DEF IInv, TypeOK, StoreTyped, State
  <2> HIDE DEF next
  <2>3. active' = active
    BY <2>1 DEF slot
  <2>4. \A k \in Jobs : State(next, k) = "running" =>
          k = active'.job \/ (State(queue, k) = "running" /\ k # active.job)
    BY <2>2, <2>3
  <2>5. RunInv'
    BY <2>1, <2>4, SaveRuns DEF SlotOwned
  <2>6. OwnerInv'
    BY <2>1, OwnersKept DEF SlotOwned, workers
  <2> QED
    BY <2>5, <2>6 DEF SlotOwned
<1>2. ASSUME NEW j \in Jobs, Retry(j) PROVE SlotOwned'
  <2>1. /\ reducer.step = "ready" /\ reducer'.step = "poll"
        /\ Save(WithState(queue, j, "queued")) /\ UNCHANGED <<slot, workers>>
    BY <1>2 DEF Retry, Idle, Continue
  <2> QED
    BY <2>1, SaveOwned DEF States
<1>3. ASSUME NEW j \in Jobs, CancelEntry(j), Idle, reducer' = reducer,
             UNCHANGED <<slot, workers>>
      PROVE  SlotOwned'
  BY <1>3, SaveOwned DEF CancelEntry, Idle, States
<1>4. CASE \E j \in Jobs : CancelJob(j)
  <2>1. PICK j \in Jobs : CancelJob(j)
    BY <1>4
  <2>2. /\ Idle /\ reducer' = reducer
        /\ \/ CancelNative \/ CancelCached \/ CancelTransfer
           \/ CancelEntry(j) /\ UNCHANGED <<slot, workers>>
    BY <2>1 DEF CancelJob
  <2> QED
    BY <1>3, <2>2, CancelRunningOwned
<1>5. CASE CancelActive
  BY <1>5, CancelRunningOwned DEF CancelActive
<1>6. CASE DismissChoice
  <2>1. /\ Idle /\ reducer' = reducer /\ choosing # 0
        /\ CancelEntry(choosing) /\ UNCHANGED <<slot, workers>>
    BY <1>6 DEF DismissChoice
  <2> QED
    BY <1>3, <2>1, ChosenIsQueued
<1>7. CASE StartChannel
  <2>1. /\ reducer.step = "ready" /\ reducer' = reducer /\ UNCHANGED <<store, slot>>
        /\ ~transfer.running /\ transfer' = [owner |-> NoOwner, running |-> TRUE]
        /\ UNCHANGED <<cached, native, generation>>
    BY <1>7 DEF StartChannel, DownloadInProgress, Idle
  <2>2. /\ active' = active /\ yandex_generation' = yandex_generation
        /\ deferred_cache' = deferred_cache
    BY <2>1 DEF slot
  <2>3. transfer.owner = NoOwner
    BY <2>1 DEF SlotOwned, OwnerInv
  <2>4. active # NoOwner => Served(active) /\ Served(active)'
    BY <2>1, <2>2, <2>3 DEF SlotOwned, OwnerInv, Served
  <2>5. OwnerInv'
    BY <2>1, <2>2, <2>3, <2>4 DEF SlotOwned, OwnerInv
  <2>6. RunInv'
    BY <2>1, <2>2, RunsStay DEF SlotOwned
  <2> QED
    BY <2>5, <2>6 DEF SlotOwned
<1>8. CASE StartBatch
  <2>1. /\ reducer.step = "ready" /\ reducer' = reducer /\ UNCHANGED <<store, slot>>
        /\ active = NoOwner /\ generation' = generation + 1
        /\ native' = [NoThread EXCEPT !.generation = generation']
        /\ UNCHANGED <<transfer, cached>>
    BY <1>8 DEF StartBatch, Idle
  <2>2. /\ active' = active /\ yandex_generation' = yandex_generation
        /\ transfer'.owner = NoOwner /\ cached'.owner = NoOwner
        /\ native'.owner = NoOwner /\ native'.cancelled = FALSE
    BY <2>1 DEF slot, SlotOwned, OwnerInv, NoThread
  <2>3. yandex_generation' = 0
    BY <2>1, <2>2 DEF GenerationInv
  <2>4. OwnerInv'
    BY <2>1, <2>2, <2>3, OwnersFreed
  <2>5. RunInv'
    BY <2>1, <2>2, RunsStay DEF SlotOwned
  <2> QED
    BY <2>4, <2>5 DEF SlotOwned
<1> QED
  BY <1>1, <1>2, <1>4, <1>5, <1>6, <1>7, <1>8 DEF Request

LEMMA BeginOwned ==
  ASSUME IInv, SlotOwned, GenerationInv, NEW j \in Jobs, BeginAttempt(j), active = NoOwner,
         reducer.step # "down"
  PROVE  SlotOwned'
<1>1. /\ UNCHANGED <<deferred_cache, yandex_generation, transfer, cached, native, generation>>
      /\ \/ reducer'.step = "launch"
         \/ active' = active /\ reducer'.step = "ready"
  BY DEF BeginAttempt, Continue, Done, workers
<1>2. /\ yandex_generation' = 0 /\ transfer'.owner = NoOwner /\ cached'.owner = NoOwner
      /\ native'.owner # NoOwner => native'.cancelled
  BY <1>1 DEF GenerationInv, SlotOwned, OwnerInv
<1>3. native'.cancelled => native'.generation < generation'
  BY <1>1 DEF SlotOwned, OwnerInv
<1>4. OwnerInv'
  BY <1>1, <1>2, <1>3 DEF OwnerInv
<1>5. RunInv'
  BY BeginRuns DEF SlotOwned
<1> QED
  BY <1>4, <1>5 DEF SlotOwned

LEMMA PollOwned ==
  ASSUME IInv, SlotOwned, GenerationInv, Poll \/ Answer \/ BeginChosen
  PROVE  SlotOwned'
<1>1. CASE PollNothing \/ \E j \in Jobs : PollChoose(j)
  <2>1. reducer.step \in {"ready", "poll"} /\ UNCHANGED <<store, slot, workers>>
    BY <1>1 DEF PollNothing, PollChoose, Tick
  <2>2. reducer'.step \in {"ready", "capture"}
    BY <1>1 DEF PollNothing, PollChoose, Done, Continue
  <2>3. OwnerInv'
    BY <2>1, <2>2, OwnersKept DEF SlotOwned, workers
  <2>4. RunInv'
    BY <2>1, RunsStay DEF SlotOwned, slot
  <2> QED
    BY <2>3, <2>4 DEF SlotOwned
<1>2. CASE PollDeferred
  <2>1. /\ reducer.step \in {"ready", "poll"} /\ deferred_cache /\ deferred_cache' = FALSE
        /\ UNCHANGED <<store, active, yandex_generation, transfer, cached, native, generation>>
    BY <1>2 DEF PollDeferred, Tick, Resumable, workers
  <2>2. active # NoOwner => reducer'.step = "launch"
    BY <1>2 DEF PollDeferred, Continue
  <2>3. active # NoOwner => /\ yandex_generation = 0
                            /\ transfer.owner = NoOwner /\ cached.owner = NoOwner
    BY <2>1 DEF SlotOwned, OwnerInv
  <2>4. OwnerInv'
    BY <2>1, <2>2, <2>3 DEF SlotOwned, OwnerInv
  <2>5. RunInv'
    BY <2>1, RunsStay DEF SlotOwned
  <2> QED
    BY <2>4, <2>5 DEF SlotOwned
<1>3. CASE \E j \in Jobs : PollBegin(j)
  BY <1>3, BeginOwned DEF PollBegin, Startable, Tick
<1>4. CASE BeginChosen
  <2>1. active = NoOwner /\ reducer.job \in Jobs /\ reducer.step # "down"
    BY <1>4 DEF BeginChosen, IInv, SlotInv
  <2> QED
    BY <1>4, <2>1, BeginOwned DEF BeginChosen
<1>5. CASE Answer
  <2>1. /\ choosing # 0 /\ UNCHANGED <<slot, workers>>
        /\ \/ Save([queue EXCEPT !.entry[choosing].format = "other"])
           \/ Save(WithState(queue, choosing, "failed"))
    BY <1>5 DEF Answer, ConfirmChoice, ChoiceFails, Asking
  <2>2. reducer'.step \in {"ready", "begin"} /\ reducer.step # "down"
    BY <1>5 DEF Answer, ConfirmChoice, ChoiceFails, Asking, Done, Continue, Idle
  <2>3. choosing \in Jobs /\ active = NoOwner
    BY <2>1, ChosenIsQueued
  <2>4. CASE Save(WithState(queue, choosing, "failed"))
    BY <2>1, <2>2, <2>3, <2>4, SaveOwned DEF States
  <2>5. CASE Save([queue EXCEPT !.entry[choosing].format = "other"])
    <3> DEFINE next == [queue EXCEPT !.entry[choosing].format = "other"]
    <3>1. \A k \in Jobs : State(next, k) = State(queue, k)
      BY <2>3, FormatKeeps DEF IInv, TypeOK, StoreTyped
    <3>2. Saved(next) \/ Refused(next)
      BY <2>5 DEF Save
    <3> HIDE DEF next
    <3>3. active' = active
      BY <2>1 DEF slot
    <3>4. RunInv'
      BY <2>2, <3>1, <3>2, <3>3, SaveRuns DEF SlotOwned
    <3>5. OwnerInv'
      BY <2>1, <2>2, <2>3, OwnersKept DEF SlotOwned, workers
    <3> QED
      BY <3>4, <3>5 DEF SlotOwned
  <2> QED
    BY <2>1, <2>4, <2>5
<1> QED
  BY <1>1, <1>2, <1>3, <1>4, <1>5 DEF Poll

LEMMA LaunchOwned ==
  ASSUME IInv, SlotOwned, GenerationInv,
         LaunchNative \/ LaunchCached \/ LaunchDeferred \/ LaunchTransfer \/ LaunchFails
  PROVE  SlotOwned'
<1>0. /\ reducer.step = "launch" /\ reducer'.step = "ready" /\ active # NoOwner
  <2>1. Launching /\ Done
    BY DEF LaunchNative, LaunchCached, LaunchDeferred, LaunchTransfer, LaunchFails
  <2> QED
    BY <2>1 DEF Launching, Done, Continue
<1>1. yandex_generation = 0 /\ transfer.owner = NoOwner /\ cached.owner = NoOwner
      /\ ~deferred_cache /\ generation \in Nat
  BY <1>0 DEF SlotOwned, OwnerInv, IInv, SlotInv, TypeOK, WorkersTyped
<1>2. NoThread.cancelled = FALSE /\ NoThread.owner = NoOwner
  BY DEF NoThread
<1>3. ASSUME UNCHANGED <<store, active>> PROVE RunInv'
  BY <1>0, <1>3, RunsStay DEF SlotOwned
<1>4. CASE LaunchNative
  <2>1. /\ UNCHANGED <<store, active, deferred_cache, transfer, cached>>
        /\ generation' = generation + 1 /\ yandex_generation' = generation'
        /\ native'.generation = generation' /\ native'.owner = active
        /\ native'.cancelled = FALSE
    BY <1>4 DEF LaunchNative
  <2>2. Served(active)'
    BY <2>1 DEF Served
  <2>3. OwnerInv'
    BY <1>0, <1>1, <2>1, <2>2 DEF OwnerInv
  <2> QED
    BY <1>3, <2>1, <2>3 DEF SlotOwned
<1>5. CASE LaunchCached
  <2>1. /\ UNCHANGED <<store, slot, transfer, native, generation>>
        /\ cached'.owner = active /\ native = NoThread
    BY <1>5 DEF LaunchCached, Busy
  <2>2. active' = active /\ yandex_generation' = 0 /\ ~deferred_cache'
    BY <1>1, <2>1 DEF slot
  <2>3. Served(active)'
    BY <2>1, <2>2 DEF Served
  <2>4. OwnerInv'
    BY <1>0, <1>1, <1>2, <2>1, <2>2, <2>3 DEF OwnerInv
  <2> QED
    BY <1>3, <2>1, <2>2, <2>4 DEF SlotOwned
<1>6. CASE LaunchDeferred
  <2>1. /\ UNCHANGED <<store, active, yandex_generation, transfer, cached, native, generation>>
        /\ deferred_cache' = TRUE /\ native = NoThread
    BY <1>6 DEF LaunchDeferred, Busy, workers
  <2>2. Served(active)'
    BY <2>1 DEF Served
  <2>3. OwnerInv'
    BY <1>0, <1>1, <1>2, <2>1, <2>2 DEF OwnerInv
  <2> QED
    BY <1>3, <2>1, <2>3 DEF SlotOwned
<1>7. CASE LaunchTransfer
  <2>1. /\ UNCHANGED <<store, slot, cached, native, generation>>
        /\ transfer'.owner = active /\ transfer'.running = TRUE /\ native = NoThread
    BY <1>7 DEF LaunchTransfer, Busy
  <2>2. active' = active /\ yandex_generation' = 0 /\ ~deferred_cache'
    BY <1>1, <2>1 DEF slot
  <2>3. Served(active)'
    BY <2>1, <2>2 DEF Served
  <2>4. OwnerInv'
    BY <1>0, <1>1, <1>2, <2>1, <2>2, <2>3 DEF OwnerInv
  <2> QED
    BY <1>3, <2>1, <2>2, <2>4 DEF SlotOwned
<1>8. CASE LaunchFails
  <2>1. Finish(active, "failed") /\ UNCHANGED <<transfer, cached, native, generation>>
    BY <1>8 DEF LaunchFails, workers
  <2>2. RunInv' /\ active' = NoOwner /\ yandex_generation' = 0
    BY <1>0, <2>1, FinishRuns, OutcomesAreStates DEF SlotOwned
  <2>3. native.owner # NoOwner => native.cancelled
    BY <1>1, <1>2 DEF SlotOwned, OwnerInv, GenerationInv
  <2>4. native.cancelled => native.generation < generation
    BY DEF SlotOwned, OwnerInv
  <2>5. OwnerInv'
    BY <1>1, <2>1, <2>2, <2>3, <2>4, OwnersFreed
  <2> QED
    BY <2>2, <2>5 DEF SlotOwned
<1> QED
  BY <1>4, <1>5, <1>6, <1>7, <1>8

LEMMA WorkerOwned ==
  ASSUME IInv, SlotOwned, WorkerEnds
  PROVE  SlotOwned'
<1>0. /\ native \in Threads
      /\ cached \in [owner : Owners, result : {"none", "hit", "miss"}]
  BY DEF IInv, TypeOK, WorkersTyped
<1>1. /\ UNCHANGED <<store, slot, transfer, generation, reducer>>
      /\ cached' = cached \/ \E r : cached' = [cached EXCEPT !.result = r]
      /\ native' = native \/ native' = [native EXCEPT !.done = TRUE]
  BY DEF WorkerEnds, CopyEnds, NativeEnds, GateOpens
<1>2. /\ cached'.owner = cached.owner /\ native'.owner = native.owner
      /\ native'.generation = native.generation /\ native'.cancelled = native.cancelled
  BY <1>0, <1>1 DEF Threads
<1>3. active' = active /\ yandex_generation' = yandex_generation
      /\ deferred_cache' = deferred_cache
  BY <1>1 DEF slot
<1>4. Served(active)' <=> Served(active)
  BY <1>1, <1>2, <1>3 DEF Served
<1>5. OwnerInv'
  BY <1>1, <1>2, <1>3, <1>4 DEF SlotOwned, OwnerInv
<1>6. RunInv'
  BY <1>1, <1>3, RunsStay DEF SlotOwned, RunInv, store
<1> QED
  BY <1>5, <1>6 DEF SlotOwned

LEMMA OutcomeOwned ==
  ASSUME IInv, SlotOwned, GenerationInv, Outcome
  PROVE  SlotOwned'
<1>0. /\ reducer.step = "ready" /\ reducer'.step = "poll" /\ deferred_cache' = deferred_cache
      /\ generation' = generation
  BY DEF Outcome, TransferOutcome, CopyOutcome, Respond, Reap, Idle, Continue, slot
<1>1. NoTransfer.owner = NoOwner /\ NoCopy.owner = NoOwner /\ NoThread.owner = NoOwner
      /\ NoThread.cancelled = FALSE
  BY DEF NoTransfer, NoCopy, NoThread
<1>2. active # NoOwner => Served(active)
  BY <1>0 DEF SlotOwned, OwnerInv
<1>3. ASSUME UNCHANGED <<store, active>> PROVE RunInv'
  BY <1>0, <1>3, RunsStay DEF SlotOwned
<1>4. ASSUME NEW s \in TransferOutcomes, TransferOutcome(s) PROVE SlotOwned'
  <2>1. /\ Finish(transfer.owner, s) /\ transfer' = NoTransfer
        /\ UNCHANGED <<cached, native>>
    BY <1>4 DEF TransferOutcome
  <2>2. CASE transfer.owner = active /\ active # NoOwner
    <3>1. RunInv' /\ active' = NoOwner /\ yandex_generation' = 0
      BY <1>0, <2>1, <2>2, FinishRuns, OutcomesAreStates DEF SlotOwned
    <3>2. cached.owner = NoOwner /\ yandex_generation = 0
      BY <2>2 DEF SlotOwned, OwnerInv
    <3>3. native.owner # NoOwner => native.cancelled
      BY <3>2 DEF SlotOwned, OwnerInv, GenerationInv, NoThread
    <3>4. native.cancelled => native.generation < generation
      BY DEF SlotOwned, OwnerInv
    <3>5. OwnerInv'
      BY <1>0, <1>1, <2>1, <3>1, <3>2, <3>3, <3>4, OwnersFreed
    <3> QED
      BY <3>1, <3>5 DEF SlotOwned
  <2>3. CASE transfer.owner # active \/ active = NoOwner
    <3>1. RunInv' /\ active' = active /\ yandex_generation' = yandex_generation
      BY <1>0, <2>1, <2>3, FinishRuns, OutcomesAreStates DEF SlotOwned
    <3>2. transfer.owner = NoOwner
      BY <2>3 DEF SlotOwned, OwnerInv
    <3>3. active # NoOwner => Served(active)'
      BY <1>0, <1>1, <1>2, <2>1, <3>1, <3>2 DEF Served
    <3>4. OwnerInv'
      BY <1>0, <1>1, <2>1, <3>1, <3>2, <3>3 DEF SlotOwned, OwnerInv
    <3> QED
      BY <3>1, <3>4 DEF SlotOwned
  <2> QED
    BY <2>2, <2>3
<1>5. CASE CopyOutcome
  <2>1. cached' = NoCopy /\ native' = native
    BY <1>5 DEF CopyOutcome
  <2>2. CASE cached.owner # active
    <3>1. UNCHANGED <<store, active, yandex_generation, transfer>>
      BY <1>5, <2>2 DEF CopyOutcome
    <3>2. cached.owner = NoOwner
      BY <2>2 DEF SlotOwned, OwnerInv
    <3>3. active # NoOwner => Served(active)'
      BY <1>0, <1>1, <1>2, <2>1, <3>1, <3>2 DEF Served
    <3>4. OwnerInv'
      BY <1>0, <1>1, <2>1, <3>1, <3>2, <3>3 DEF SlotOwned, OwnerInv
    <3> QED
      BY <1>3, <3>1, <3>4 DEF SlotOwned
  <2>3. CASE cached.owner = active
    <3>1. \/ \E s \in Outcomes : Finish(active, s) /\ transfer' = transfer
          \/ /\ transfer'.owner = active /\ transfer'.running = TRUE
             /\ UNCHANGED <<store, active, yandex_generation>>
      BY <1>5, <2>3 DEF CopyOutcome, Outcomes
    <3>2. active # NoOwner => transfer.owner = NoOwner /\ yandex_generation = 0
      BY <2>3 DEF SlotOwned, OwnerInv
    <3>3. active = NoOwner => transfer.owner = NoOwner /\ yandex_generation = 0
      BY DEF SlotOwned, OwnerInv, GenerationInv
    <3>4. native.owner # NoOwner => native.cancelled
      BY <3>2, <3>3 DEF SlotOwned, OwnerInv, GenerationInv, NoThread
    <3>5. native.cancelled => native.generation < generation
      BY DEF SlotOwned, OwnerInv
    <3>6. ASSUME NEW s \in Outcomes, Finish(active, s), transfer' = transfer PROVE SlotOwned'
      <4>1. RunInv' /\ active' = NoOwner /\ yandex_generation' = 0
        BY <1>0, <3>3, <3>6, FinishRuns, OutcomesAreStates DEF SlotOwned
      <4>2. OwnerInv'
        BY <1>0, <1>1, <2>1, <3>2, <3>3, <3>4, <3>5, <3>6, <4>1, OwnersFreed
      <4> QED
        BY <4>1, <4>2 DEF SlotOwned
    <3>7. CASE /\ transfer'.owner = active /\ transfer'.running = TRUE
               /\ UNCHANGED <<store, active, yandex_generation>>
      <4>1. Served(active)'
        BY <3>7 DEF Served
      <4>2. ~(deferred_cache /\ active # NoOwner)
        BY <2>3 DEF SlotOwned, OwnerInv
      <4>3. OwnerInv'
        BY <1>0, <1>1, <2>1, <3>2, <3>3, <3>4, <3>5, <3>7, <4>1, <4>2 DEF OwnerInv
      <4> QED
        BY <1>3, <3>7, <4>3 DEF SlotOwned
    <3> QED
      BY <3>1, <3>6, <3>7
  <2> QED
    BY <2>2, <2>3
<1>6. CASE Respond
  <2> DEFINE answer == Head(responses)
  <2>1. /\ UNCHANGED <<transfer, cached>>
        /\ \/ UNCHANGED <<native, store, active, yandex_generation>>
           \/ /\ native' = NoThread /\ ~(active # NoOwner /\ yandex_generation = generation)
              /\ UNCHANGED <<store, active, yandex_generation>>
           \/ /\ native' = NoThread /\ active # NoOwner /\ yandex_generation = generation
              /\ Finish(active, answer.state)
    BY <1>6 DEF Respond
  <2>2. answer.state \in Outcomes
    <3>1. responses \in Seq([generation : Nat, state : Outcomes]) /\ responses # <<>>
      BY <1>6 DEF Respond, IInv, TypeOK, WorkersTyped
    <3>2. answer \in [generation : Nat, state : Outcomes]
      BY <3>1, TailTyped
    <3> QED
      BY <3>2
  <2> HIDE DEF answer
  <2>3. CASE UNCHANGED <<native, store, active, yandex_generation>>
    <3>1. active # NoOwner => Served(active)'
      BY <1>0, <1>2, <2>1, <2>3 DEF Served
    <3>2. OwnerInv'
      BY <1>0, <2>1, <2>3, <3>1 DEF SlotOwned, OwnerInv
    <3> QED
      BY <1>3, <2>3, <3>2 DEF SlotOwned
  <2>4. CASE /\ native' = NoThread /\ ~(active # NoOwner /\ yandex_generation = generation)
             /\ UNCHANGED <<store, active, yandex_generation>>
    <3>1. active # NoOwner => Served(active)'
      BY <1>0, <1>2, <2>1, <2>4 DEF Served
    <3>2. OwnerInv'
      BY <1>0, <1>1, <2>1, <2>4, <3>1 DEF SlotOwned, OwnerInv
    <3> QED
      BY <1>3, <2>4, <3>2 DEF SlotOwned
  <2>5. CASE /\ native' = NoThread /\ active # NoOwner /\ yandex_generation = generation
             /\ Finish(active, answer.state)
    <3>1. RunInv' /\ active' = NoOwner /\ yandex_generation' = 0
      BY <1>0, <2>2, <2>5, FinishRuns, OutcomesAreStates DEF SlotOwned
    <3>2. generation # 0
      BY <1>6, <2>5 DEF Respond, SlotOwned, GenerationInv, Answers, IInv, TypeOK, WorkersTyped
    <3>3. transfer.owner = NoOwner /\ cached.owner = NoOwner
      BY <2>5, <3>2 DEF SlotOwned, OwnerInv
    <3>4. OwnerInv'
      BY <1>1, <2>1, <2>5, <3>1, <3>3, OwnersFreed
    <3> QED
      BY <3>1, <3>4 DEF SlotOwned
  <2> QED
    BY <2>1, <2>3, <2>4, <2>5
<1>7. CASE Reap
  <2>1. /\ UNCHANGED <<store, slot, transfer, cached>>
        /\ native.cancelled /\ native' = NoThread
    BY <1>7 DEF Reap
  <2>2. active' = active /\ yandex_generation' = yandex_generation
    BY <2>1 DEF slot
  <2>3. native.generation # generation
    BY <2>1 DEF SlotOwned, OwnerInv, IInv, TypeOK, WorkersTyped, Threads
  <2>4. active # NoOwner => Served(active)'
    BY <1>0, <1>2, <2>1, <2>2, <2>3 DEF Served
  <2>5. OwnerInv'
    BY <1>0, <1>1, <2>1, <2>2, <2>4 DEF SlotOwned, OwnerInv
  <2> QED
    BY <1>3, <2>1, <2>2, <2>5 DEF SlotOwned
<1> QED
  BY <1>4, <1>5, <1>6, <1>7 DEF Outcome

LEMMA SlotOwnedInductive == IInv /\ FetchInv /\ SlotOwned /\ [Next]_vars => SlotOwned'
<1> SUFFICES ASSUME IInv, FetchInv, SlotOwned, [Next]_vars PROVE SlotOwned'
  OBVIOUS
<1>0. GenerationInv
  BY DEF FetchInv
<1>1. CASE Crash \/ Close
  <2>1. EmptySlots
    BY <1>1 DEF Crash, Close
  <2>2. /\ active' = NoOwner /\ yandex_generation' = 0 /\ reducer'.step = "down"
        /\ transfer' = NoTransfer /\ cached' = NoCopy /\ native' = NoThread
    BY <2>1 DEF EmptySlots, Continue
  <2>3. OwnerInv'
    BY <2>2, OwnersFreed DEF NoTransfer, NoCopy, NoThread
  <2> QED
    BY <2>2, <2>3 DEF SlotOwned, RunInv
<1>2. CASE Start
  <2>1. /\ reducer.step = "down" /\ UNCHANGED <<slot, workers>>
        /\ blocked' \/ queue' = RecoverRunning(disk)
    BY <1>2 DEF Start, Restored, NotRestored
  <2>2. active = NoOwner /\ reducer'.step = "ready"
    BY <1>2, <2>1 DEF IInv, SlotInv, Start, Done, Continue
  <2>3. OwnerInv'
    BY <2>1, <2>2, OwnersKept DEF SlotOwned, workers
  <2>4. \A j \in Jobs : State(RecoverRunning(disk), j) # "running"
    BY RecoverKeeps DEF IInv, TypeOK, StoreTyped
  <2>5. RunInv'
    BY <2>1, <2>4 DEF RunInv
  <2> QED
    BY <2>3, <2>5 DEF SlotOwned
<1>3. CASE UNCHANGED vars
  <2>1. UNCHANGED <<store, slot, workers, reducer>>
    BY <1>3 DEF vars
  <2>2. OwnerInv'
    BY <2>1, OwnersKept DEF SlotOwned, workers
  <2>3. RunInv'
    BY <2>1 DEF SlotOwned, RunInv, store, slot
  <2> QED
    BY <2>2, <2>3 DEF SlotOwned
<1> QED
  BY <1>0, <1>1, <1>2, <1>3, RequestOwned, PollOwned, LaunchOwned, WorkerOwned, OutcomeOwned
     DEF Next, Launch, Restart

\* While the queue can be saved, what it shows as running is the active attempt and
\* has its worker or waits for the gate; and no other attempt of the queue has a
\* worker that was not told to stop.
THEOREM SlotIsOwnedAlways == Spec => []SlotIsOwned
<1>1. Init => FetchInv
  BY FetchInvInit
<1>2. Init => SlotOwned
  <2> SUFFICES ASSUME Init PROVE SlotOwned
    OBVIOUS
  <2>1. RunInv
    BY EmptyQueueTyped DEF Init, RunInv
  <2>2. OwnerInv
    BY DEF Init, OwnerInv, NoTransfer, NoCopy, NoThread
  <2> QED
    BY <2>1, <2>2 DEF SlotOwned
<1>3. IInv /\ FetchInv /\ SlotOwned /\ [Next]_vars => SlotOwned'
  BY SlotOwnedInductive
<1>4. IInv /\ FetchInv /\ [Next]_vars => FetchInv'
  BY FetchInvInductive
<1>5. IInv /\ SlotOwned => SlotIsOwned
  <2> SUFFICES ASSUME IInv, SlotOwned PROVE SlotIsOwned
    OBVIOUS
  <2>1. ASSUME ~blocked, reducer.step \in {"ready", "poll"}, NEW j \in Jobs,
               State(queue, j) = "running"
        PROVE  active = [job |-> j, attempt |-> queue.entry[j].attempt] /\ Served(active)
    <3>1. j = active.job
      BY <2>1 DEF SlotOwned, RunInv
    <3>2. active # NoOwner
      BY <3>1, ConstantsAssumption DEF NoOwner, Jobs
    <3>3. queue.entry[j].attempt = active.attempt /\ active \in Owners
      BY <3>1, <3>2 DEF IInv, SlotInv, TypeOK, SlotTyped
    <3>4. active = [job |-> j, attempt |-> queue.entry[j].attempt]
      BY <3>1, <3>2, <3>3 DEF Owners
    <3> QED
      BY <2>1, <3>2, <3>4 DEF SlotOwned, OwnerInv
  <2> QED
    BY <2>1 DEF SlotOwned, OwnerInv, SlotIsOwned
<1> QED
  BY <1>1, <1>2, <1>3, <1>4, <1>5, Invariant, PTL DEF Spec
=============================================================================
