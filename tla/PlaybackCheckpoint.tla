------------------------- MODULE PlaybackCheckpoint -------------------------
(***************************************************************************)
(* Saving where playback is and how long it lasted.  Every periodic save   *)
(* replaces one small checkpoint document; a boundary of the playback, a   *)
(* change of item or source, and the next start publish it into the        *)
(* progress and statistics documents and clear it last.  The process may   *)
(* stop between any two writes, a write may fail before or after it took   *)
(* effect, and a document may be edited behind the store.                  *)
(***************************************************************************)
EXTENDS Integers, FiniteSets, FiniteSetsExt

CONSTANTS
  Items,           \* media identities
  Sources,         \* where media come from: the unit of listening totals
  SourceOf,        \* the source of every item
  Live,            \* live radio: no position is kept
  Nobody,          \* no item, no source
  Positions,       \* bound: playback positions
  MaxClock,        \* bound: seconds of the wall clock
  MaxHeard,        \* bound: seconds played
  LateErrors,      \* a write may report an error after its rename took effect
  MaxFaults,       \* bound: failed writes and edits behind the store
  MaxCrashes       \* bound: crashes and exits

Rows == [at : 0..MaxClock, pos : Positions]
\* No row: older than every row.
NoRow == [at |-> -1, pos |-> 0]

ASSUME ConstantsAssumption ==
  /\ SourceOf \in [Items -> Sources] /\ Live \subseteq Items
  /\ Nobody \notin Items /\ Nobody \notin Sources
  /\ LateErrors \in BOOLEAN
  /\ MaxClock \in Nat /\ MaxHeard \in Nat /\ MaxFaults \in Nat /\ MaxCrashes \in Nat
  /\ IsFiniteSet(Sources)

Docs == {"progress", "statistics", "pending"}

NoPending == [item |-> Nobody, row |-> NoRow, source |-> Nobody, total |-> 0]

VARIABLES
  disk, mem,   \* the published documents and the store's copies of them
  stale,       \* documents whose recorded file generation no longer matches
  phase,       \* the process: up, down, or closed by an exit that saved everything
  current,     \* current_media
  playing,     \* the playback phase of current is Playing
  begun,       \* when playback of current was requested
  unflushed,   \* unflushed_listen_time, in whole seconds
  op,          \* the call in progress
  clock,       \* unix_time()
  heard,       \* history: the seconds played, by source
  lost,        \* history: the seconds of processes that ended before saving them
  acked, tried, \* history: each item's last saved row, and the failed saves since
  faults, crashes

store == <<disk, mem, stale, faults>>
player == <<current, playing, begun>>
history == <<heard, lost, acked, tried>>
vars == <<store, phase, player, unflushed, op, clock, history, crashes>>

-----------------------------------------------------------------------------
(* Reads: what the documents say, the pending checkpoint included *)

Later(a, b) == IF a >= b THEN a ELSE b

\* FileStateStore::progress
Progress(docs, i) ==
  IF docs.pending.item = i /\ docs.pending.row.at >= docs.progress[i].at
  THEN docs.pending.row ELSE docs.progress[i]

\* FileStateStore::listened_seconds
Listened(docs, s) ==
  IF docs.pending.source = s THEN Later(docs.pending.total, docs.statistics[s])
                             ELSE docs.statistics[s]

\* merge_playback_checkpoint: the latest row wins, and the total is absolute.
MergedProgress(docs) == [i \in Items |-> Progress(docs, i)]
MergedStatistics_Adding(docs) ==     \* mutant: the pending total is a delta
  [s \in Sources |-> IF docs.pending.source = s
                     THEN docs.statistics[s] + docs.pending.total ELSE docs.statistics[s]]
MergedStatistics(docs) == [s \in Sources |-> Listened(docs, s)]

-----------------------------------------------------------------------------
(* The store *)

Fault == faults < MaxFaults /\ faults' = faults + 1

\* persist_document: refused when the file changed behind the store; an error
\* leaves the old file, or the new one under a generation that was not recorded.
Written(doc, new) ==
  /\ doc \notin stale
  /\ disk' = [disk EXCEPT ![doc] = new]
  /\ UNCHANGED <<stale, faults>>

NotWritten(doc, new) ==
  \/ doc \in stale /\ UNCHANGED <<disk, stale, faults>>
  \/ /\ doc \notin stale
     /\ Fault
     /\ \/ UNCHANGED <<disk, stale>>
        \/ LateErrors /\ disk' = [disk EXCEPT ![doc] = new] /\ stale' = stale \cup {doc}

\* The store's memory follows a write that succeeded.
Persist(doc, new) == Written(doc, new) /\ mem' = [mem EXCEPT ![doc] = new]

-----------------------------------------------------------------------------
(* Calls.  op.why says what a flush is part of: the save of a position, its  *)
(* publication, or the recovery of a new process; op.then what the           *)
(* controller does when the call returns.                                    *)

IdleOp == [step |-> "idle", why |-> "none", item |-> Nobody, row |-> NoRow,
           target |-> 0, seconds |-> 0, publish |-> FALSE, then |-> "none",
           next |-> Nobody]

FirstFlush_ClearingFirst(docs) == "clear"     \* mutant: nothing is published before
FirstFlush(docs) ==
  CASE MergedProgress(docs) # docs.progress -> "progress"
    [] OTHER -> IF MergedStatistics(docs) # docs.statistics THEN "statistics" ELSE "clear"

Saving_OneDocument(i, row, seconds, publish, then, next) ==
  \* mutant: the checkpoint of another item or source is overwritten
  [step |-> IF i \in Live /\ seconds = 0 THEN "saved" ELSE "save",
   why |-> "save", item |-> i, row |-> row,
   target |-> Listened(mem, SourceOf[i]) + seconds, seconds |-> seconds,
   publish |-> publish, then |-> then, next |-> next]
\* The save of a row, and of the seconds listened under it: a pending
\* checkpoint of another item or source is published first.  The target is
\* computed from what is known before that.
Saving(i, row, seconds, publish, then, next) ==
  LET s == SourceOf[i]
      changes == \/ i \notin Live /\ mem.pending.item \notin {Nobody, i}
                 \/ seconds > 0 /\ mem.pending.source \notin {Nobody, s} IN
  [step |-> IF i \in Live /\ seconds = 0 THEN "saved"
            ELSE IF changes THEN FirstFlush(mem) ELSE "save",
   why |-> "save", item |-> i, row |-> row,
   target |-> Listened(mem, s) + seconds, seconds |-> seconds,
   publish |-> publish, then |-> then, next |-> next]

\* The row a save of the current item records, at a position of the player.
RowNow_Rounded(pos) == [at |-> clock + 1, pos |-> pos]     \* mutant: rounded up
RowNow(pos) == [at |-> clock, pos |-> pos]

\* persist_position: a checkpoint, published at once; nothing to do without media.
PersistPosition(pos, seconds, then, next) ==
  op' = IF current = Nobody THEN [IdleOp EXCEPT !.step = "return", !.then = then]
        ELSE Saving(current, RowNow(pos), seconds, TRUE, then, next)

Return_WithoutPublishing(ok) ==      \* mutant: the exit publishes nothing of its own
  /\ CASE op.then = "play" -> /\ current' = op.next /\ playing' = FALSE
                              /\ begun' = clock /\ op' = IdleOp /\ UNCHANGED phase
       [] op.then = "stop" -> /\ current' = Nobody /\ playing' = FALSE /\ op' = IdleOp
                              /\ UNCHANGED <<begun, phase>>
       [] op.then = "eof"  -> /\ \E pos \in Positions : PersistPosition(pos, unflushed, "stop", Nobody)
                              /\ UNCHANGED <<player, phase>>
       [] op.then = "exit" -> /\ phase' = IF ok THEN "closed" ELSE "down"
                              /\ op' = IdleOp /\ UNCHANGED player
       [] OTHER -> op' = IdleOp /\ UNCHANGED <<player, phase>>
\* What the caller does next; ok says whether the call succeeded.
Return(ok) ==
  /\ CASE op.then = "play" -> /\ current' = op.next /\ playing' = FALSE
                              /\ begun' = clock /\ op' = IdleOp /\ UNCHANGED phase
       [] op.then = "stop" -> /\ current' = Nobody /\ playing' = FALSE /\ op' = IdleOp
                              /\ UNCHANGED <<begun, phase>>
       [] op.then = "eof"  -> /\ \E pos \in Positions : PersistPosition(pos, unflushed, "stop", Nobody)
                              /\ UNCHANGED <<player, phase>>
       [] op.then = "exit" -> /\ IF ~ok THEN phase' = "down" /\ op' = IdleOp
                                 ELSE IF mem.pending = NoPending
                                 THEN phase' = "closed" /\ op' = IdleOp
                                 ELSE /\ op' = [IdleOp EXCEPT !.step = FirstFlush(mem),
                                                              !.why = "publish",
                                                              !.then = "exit"]
                                      /\ UNCHANGED phase
                              /\ UNCHANGED player
       [] OTHER -> op' = IdleOp /\ UNCHANGED <<player, phase>>

FlushFailed ==
  IF op.why = "start"
  THEN phase' = "down" /\ op' = IdleOp /\ UNCHANGED player
  ELSE Return(FALSE)

Failed_InMemory(doc, new) ==      \* mutant: the memory is changed before the write
  /\ NotWritten(doc, new)
  /\ FlushFailed
  /\ mem' = [mem EXCEPT ![doc] = new]
  /\ UNCHANGED unflushed
Failed(doc, new) ==
  /\ NotWritten(doc, new)
  /\ FlushFailed
  /\ UNCHANGED <<mem, unflushed>>

FlushProgress ==
  /\ op.step = "progress"
  /\ LET new == MergedProgress(mem) IN
     \/ /\ Persist("progress", new)
        /\ op' = [op EXCEPT !.step = IF MergedStatistics(mem) # mem.statistics
                                     THEN "statistics" ELSE "clear"]
        /\ UNCHANGED <<phase, player, unflushed>>
     \/ Failed("progress", new)
  /\ UNCHANGED <<clock, history, crashes>>

FlushStatistics ==
  /\ op.step = "statistics"
  /\ LET new == MergedStatistics(mem) IN
     \/ /\ Persist("statistics", new)
        /\ op' = [op EXCEPT !.step = "clear"]
        /\ UNCHANGED <<phase, player, unflushed>>
     \/ Failed("statistics", new)
  /\ UNCHANGED <<clock, history, crashes>>

\* The checkpoint is cleared last.
FlushClear ==
  /\ op.step = "clear"
  /\ \/ /\ Persist("pending", NoPending)
        /\ op' = CASE op.why = "save" -> [op EXCEPT !.step = "save"]
                   [] op.why = "publish" -> [op EXCEPT !.step = "return"]
                   [] OTHER -> IdleOp
        /\ UNCHANGED <<phase, player, unflushed>>
     \/ Failed("pending", NoPending)
  /\ UNCHANGED <<clock, history, crashes>>

Checkpoint_SameSecond ==      \* mutant: a row of the same second is dropped
  LET i == op.item
      keeps == i \in Live \/ (mem.pending.item # Nobody /\ op.row.at <= mem.pending.row.at)
      row == IF keeps THEN mem.pending
             ELSE [mem.pending EXCEPT !.item = i, !.row = op.row] IN
  IF op.seconds = 0 THEN row
  ELSE [row EXCEPT !.source = SourceOf[i], !.total = op.target]
\* The checkpoint of a save: a row only replaces an older one of its item.
Checkpoint ==
  LET i == op.item
      keeps == i \in Live \/ (mem.pending.item # Nobody /\ op.row.at < mem.pending.row.at)
      row == IF keeps THEN mem.pending
             ELSE [mem.pending EXCEPT !.item = i, !.row = op.row] IN
  IF op.seconds = 0 THEN row
  ELSE [row EXCEPT !.source = SourceOf[i], !.total = op.target]

\* Only a save that succeeded consumes the seconds it records.
SaveCheckpoint ==
  /\ op.step = "save"
  /\ LET i == op.item IN
     \/ /\ Persist("pending", Checkpoint)
        /\ unflushed' = unflushed - op.seconds
        /\ op' = [op EXCEPT !.step = "saved"]
        /\ IF i \in Live THEN UNCHANGED <<acked, tried>>
           ELSE acked' = [acked EXCEPT ![i] = op.row] /\ tried' = [tried EXCEPT ![i] = {}]
        /\ UNCHANGED <<phase, player>>
     \/ /\ Failed("pending", Checkpoint)
        /\ tried' = IF i \in Live THEN tried ELSE [tried EXCEPT ![i] = @ \cup {op.row}]
        /\ UNCHANGED acked
  /\ UNCHANGED <<clock, heard, lost, crashes>>

\* The checkpoint returned: persist_position publishes it.
Saved ==
  /\ op.step = "saved"
  /\ IF op.publish /\ mem.pending # NoPending
     THEN /\ op' = [op EXCEPT !.step = FirstFlush(mem), !.why = "publish"]
          /\ UNCHANGED <<phase, player>>
     ELSE Return(TRUE)
  /\ UNCHANGED <<store, unflushed, clock, history, crashes>>

Returned ==
  /\ op.step = "return"
  /\ Return(TRUE)
  /\ UNCHANGED <<store, unflushed, clock, history, crashes>>

-----------------------------------------------------------------------------
(* The controller *)

Ready == phase = "up" /\ op.step = "idle"

\* play_queue_item: other media that is playing is saved first.
Play(i) ==
  /\ Ready
  /\ IF playing /\ current # i
     THEN /\ \E pos \in Positions : PersistPosition(pos, unflushed, "play", i)
          /\ UNCHANGED player
     ELSE current' = i /\ playing' = FALSE /\ begun' = clock /\ UNCHANGED op
  /\ UNCHANGED <<store, phase, unflushed, clock, history, crashes>>

\* checkpoint_playback_started: the row made when playback was requested.
Started ==
  /\ Ready
  /\ current # Nobody /\ ~playing
  /\ playing' = TRUE
  /\ IF current \in Live THEN UNCHANGED op
     ELSE \E pos \in Positions :
            op' = Saving(current, [at |-> begun, pos |-> pos], 0, FALSE, "none", Nobody)
  /\ UNCHANGED <<store, phase, current, begun, unflushed, clock, history, crashes>>

\* account_listen_time: the time since the last tick, in seconds.
Account(seconds) ==
  LET s == SourceOf[current] IN
  /\ heard[s] + seconds <= MaxHeard
  /\ heard' = [heard EXCEPT ![s] = @ + seconds]
  /\ unflushed' = unflushed + seconds

\* A tick while playing accounts the elapsed time; periodically it saves.
Tick ==
  /\ Ready
  /\ current # Nobody /\ playing
  /\ Account(1)
  /\ \/ UNCHANGED op
     \/ \E pos \in Positions :
          op' = Saving(current, RowNow(pos), unflushed', FALSE, "none", Nobody)
  /\ UNCHANGED <<store, phase, player, clock, lost, acked, tried, crashes>>

\* The end of playback: the position is saved, at the end of file once more at
\* the end; an item that never started is only cleared.
Stop(eof) ==
  /\ Ready
  /\ current # Nobody
  /\ IF playing
     THEN /\ \E seconds \in 0..1 : Account(seconds)
          /\ \E pos \in Positions :
               PersistPosition(pos, unflushed', IF eof THEN "eof" ELSE "stop", Nobody)
          /\ UNCHANGED player
     ELSE /\ current' = Nobody
          /\ UNCHANGED <<playing, begun, op, unflushed, heard>>
  /\ UNCHANGED <<store, phase, clock, lost, acked, tried, crashes>>

\* shutdown: the position is saved whatever the playback phase.
Exit ==
  /\ Ready
  /\ crashes < MaxCrashes /\ crashes' = crashes + 1
  /\ \E pos \in Positions : PersistPosition(pos, unflushed, "exit", Nobody)
  /\ UNCHANGED <<store, phase, player, unflushed, clock, history>>

-----------------------------------------------------------------------------
(* Crashes, restarts, the clock, and people editing documents *)

Crash ==
  /\ phase = "up"
  /\ crashes < MaxCrashes /\ crashes' = crashes + 1
  /\ phase' = "down"
  /\ UNCHANGED <<store, player, unflushed, op, clock, history>>

TotalListened(docs) == MapThenSumSet(LAMBDA s : Listened(docs, s), Sources)
TotalHeard == MapThenSumSet(LAMBDA s : heard[s], Sources)

\* A new process recovers the checkpoint before it serves anything.
Start ==
  /\ phase \in {"down", "closed"}
  /\ phase' = "up"
  /\ mem' = disk /\ stale' = {}
  /\ current' = Nobody /\ playing' = FALSE /\ UNCHANGED begun
  /\ unflushed' = 0
  /\ lost' = TotalHeard - TotalListened(disk)
  /\ acked' = [i \in Items |-> Progress(disk, i)]
  /\ tried' = [i \in Items |-> {}]
  /\ op' = IF disk.pending = NoPending THEN IdleOp
           ELSE [IdleOp EXCEPT !.step = FirstFlush(disk), !.why = "start"]
  /\ UNCHANGED <<disk, faults, clock, heard, crashes>>

TimePasses ==
  /\ clock' \in (clock + 1)..MaxClock
  /\ UNCHANGED <<store, phase, player, unflushed, op, history, crashes>>

\* A document is edited, without changing what it says, while Youta runs; the
\* recovery of a new process compares no generations.
Edit(doc) ==
  /\ phase = "up" /\ op.why # "start" /\ doc \notin stale
  /\ Fault
  /\ stale' = stale \cup {doc}
  /\ UNCHANGED <<disk, mem, phase, player, unflushed, op, clock, history, crashes>>

-----------------------------------------------------------------------------
Empty == [progress |-> [i \in Items |-> NoRow], statistics |-> [s \in Sources |-> 0],
          pending |-> NoPending]

Init ==
  /\ disk = Empty /\ mem = Empty /\ stale = {}
  /\ phase = "up" /\ current = Nobody /\ playing = FALSE /\ begun = 0
  /\ unflushed = 0 /\ op = IdleOp /\ clock = 0
  /\ heard = [s \in Sources |-> 0] /\ lost = 0
  /\ acked = [i \in Items |-> NoRow] /\ tried = [i \in Items |-> {}]
  /\ faults = 0 /\ crashes = 0

StoreStep ==
  phase = "up" /\ (FlushProgress \/ FlushStatistics \/ FlushClear \/ SaveCheckpoint
                     \/ Saved \/ Returned)

Next ==
  \/ StoreStep
  \/ \E i \in Items : Play(i)
  \/ Started \/ Tick \/ Exit
  \/ \E eof \in BOOLEAN : Stop(eof)
  \/ Crash \/ Start \/ TimePasses
  \/ \E doc \in Docs : Edit(doc)

Spec == Init /\ [][Next]_vars

-----------------------------------------------------------------------------
Documents == [progress : [Items -> Rows \cup {NoRow}], statistics : [Sources -> Nat],
              pending : [item : Items \cup {Nobody}, row : Rows \cup {NoRow},
                         source : Sources \cup {Nobody}, total : Nat]]

\* Every variable keeps its shape.
TypeOK ==
  /\ disk \in Documents /\ mem \in Documents /\ stale \subseteq Docs
  /\ phase \in {"up", "down", "closed"}
  /\ current \in Items \cup {Nobody} /\ playing \in BOOLEAN /\ begun \in 0..MaxClock
  /\ unflushed \in Nat /\ clock \in 0..MaxClock
  /\ op \in [step : {"idle", "progress", "statistics", "clear", "save", "saved", "return"},
             why : {"none", "save", "publish", "start"}, item : Items \cup {Nobody},
             row : Rows \cup {NoRow}, target : Nat, seconds : Nat, publish : BOOLEAN,
             then : {"none", "play", "stop", "eof", "exit"}, next : Items \cup {Nobody}]
  /\ heard \in [Sources -> Nat] /\ lost \in Int
  /\ acked \in [Items -> Rows \cup {NoRow}] /\ tried \in [Items -> SUBSET Rows]
  /\ faults \in 0..MaxFaults /\ crashes \in 0..MaxCrashes

-----------------------------------------------------------------------------
(* What must hold *)

\* At every moment, so at every crash, the documents on disk still tell the last
\* saved position of every item, or one whose save was tried after it.
SavesSurvive ==
  \A i \in Items : Progress(disk, i) \in {acked[i]} \cup tried[i] \cup
     (IF op.item = i /\ op.step \in {"save", "saved"} THEN {op.row} ELSE {})

\* Between calls a read returns what was saved last.
SavesAreRead == Ready => \A i \in Items : Progress(mem, i) = acked[i]

\* Seconds are neither counted twice nor dropped: what the store counts and what
\* still waits in memory are the seconds played, less those of ended processes.
EverySecondOnce ==
  phase = "up" => /\ TotalListened(mem) + unflushed + lost = TotalHeard
                  /\ lost >= 0

\* The disk never counts less than the running process has acknowledged, nor
\* more seconds than were played.
CountIsDurable ==
  /\ phase = "up" => \A s \in Sources : Listened(disk, s) >= Listened(mem, s)
  /\ TotalListened(disk) <= TotalHeard

\* An exit that reports success has published every checkpoint it acknowledged:
\* only one whose save reported an error can still be waiting on disk.
ClosedIsPublished ==
  phase = "closed" => /\ mem.pending = NoPending
                      /\ disk.pending # NoPending => "pending" \in stale

\* All of it is a ledger whose every save is one step.
Ledger == INSTANCE ListeningLedger WITH
  row <- MergedProgress(disk), credited <- MergedStatistics(disk)

SavesAreAtomic == Ledger!Spec
=============================================================================
