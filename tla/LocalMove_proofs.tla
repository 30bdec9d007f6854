-------------------------- MODULE LocalMove_proofs --------------------------
(***************************************************************************)
(* Theorems of LocalMove for every value of its constants, that is for any *)
(* number of files, paths, moves, faults and crashes, with and without     *)
(* slow moves and late write errors, and (the last theorem apart) with     *)
(* and without renames and dying workers.                                  *)
(***************************************************************************)
EXTENDS LocalMove, TLAPS

-----------------------------------------------------------------------------
(* Type correctness *)

\* What may be written into a document.
Content(doc) == IF doc = "journal" THEN SUBSET Mappings ELSE SUBSET Rows

LEMMA IdleOpType == IdleOp \in Ops
BY DEF IdleOp, Ops, Steps

LEMMA MappingPaths ==
  ASSUME NEW m \in Mappings
  PROVE  m.source \in Paths /\ m.target \in Paths /\ m.source # m.target
BY ConstantsAssumption

\* A mapped path is a path again, and so a remapped row is a row.
LEMMA RemapPathType ==
  ASSUME NEW p \in Paths, NEW ms \in SUBSET Mappings
  PROVE  RemapPath(p, ms) \in Paths
<1>1. CASE p \in Sources(ms)
  <2> DEFINE m == CHOOSE m \in ms : m.source = p
  <2>1. m \in ms BY <1>1 DEF Sources
  <2>2. m \in Mappings BY <2>1
  <2>3. m.target \in Paths BY <2>2, MappingPaths
  <2> QED BY <1>1, <2>3 DEF RemapPath
<1>2. CASE p \notin Sources(ms) BY <1>2 DEF RemapPath
<1> QED BY <1>1, <1>2

LEMMA RemapType ==
  ASSUME NEW rows \in SUBSET Rows, NEW ms \in SUBSET Mappings
  PROVE  Remap(rows, ms) \in SUBSET Rows
<1> SUFFICES ASSUME NEW r \in rows PROVE RemapRow(r, ms) \in Rows
  BY DEF Remap
<1>1. r.path \in Paths /\ r.file \in Files BY DEF Rows
<1>2. RemapPath(r.path, ms) \in Paths BY <1>1, RemapPathType
<1> QED BY <1>2 DEF RemapRow, Rows

LEMMA PersistType ==
  ASSUME TypeOK, NEW doc \in Docs, NEW new \in Content(doc), NEW outcome,
         Persist(doc, new, outcome)
  PROVE  /\ disk' \in Documents /\ stale' \in SUBSET Docs
         /\ faults' \in 0..MaxFaults
<1> USE DEF TypeOK, Content
<1>1. [disk EXCEPT ![doc] = new] \in Documents
  <2>1. CASE doc = "progress" BY <2>1 DEF Documents
  <2>2. CASE doc = "history" BY <2>2 DEF Documents
  <2>3. CASE doc = "checkpoint" BY <2>3 DEF Documents
  <2>4. CASE doc = "journal" BY <2>4 DEF Documents
  <2> QED BY <2>1, <2>2, <2>3, <2>4 DEF Docs, Identities, Remapped
<1>2. disk' \in Documents BY <1>1 DEF Persist
<1>3. stale' \in SUBSET Docs BY DEF Persist
<1>4. faults' \in 0..MaxFaults BY ConstantsAssumption DEF Persist, Fault
<1> QED BY <1>2, <1>3, <1>4

LEMMA CallType ==
  ASSUME NEW explicit \in BOOLEAN, NEW then,
         then \in {"none", "reconcile", "begin", "quit", "exit", "start", "checkpoint",
                   "publish"}
  PROVE  /\ CallPersist(explicit, then) => op' \in Ops
         /\ CallReconcile(explicit, then) => op' \in Ops
BY DEF CallPersist, CallReconcile, IdleOp, Ops, Steps

LEMMA ReturnType ==
  ASSUME TypeOK, NEW ok \in BOOLEAN, Return(ok)
  PROVE  op' \in Ops /\ phase' \in {"up", "exiting", "down"} /\ selection' \in SUBSET Paths
<1>1. op' \in Ops BY CallType, IdleOpType DEF Return
<1>2. phase' \in {"up", "exiting", "down"} BY DEF Return, TypeOK
<1>3. Sources(Mappings) \in SUBSET Paths BY MappingPaths DEF Sources
<1>4. selection' \in SUBSET Paths BY <1>3 DEF Return, TypeOK
<1> QED BY <1>1, <1>2, <1>4

LEMMA RemapFailedType ==
  ASSUME TypeOK, RemapFailed
  PROVE  /\ blocked' \in BOOLEAN /\ queue' \in SUBSET Mappings /\ pending' \in BOOLEAN
         /\ failure' \in BOOLEAN /\ mem' \in Documents
         /\ op' \in Ops /\ phase' \in {"up", "exiting", "down"} /\ selection' \in SUBSET Paths
<1>1. op' \in Ops /\ phase' \in {"up", "exiting", "down"} /\ selection' \in SUBSET Paths
  BY ReturnType DEF RemapFailed
<1>2. /\ blocked' \in BOOLEAN /\ queue' \in SUBSET Mappings /\ pending' \in BOOLEAN
      /\ failure' \in BOOLEAN /\ mem' \in Documents
  BY DEF RemapFailed, TypeOK, Ops, Published
<1> QED BY <1>1, <1>2

LEMMA ReconciledType ==
  ASSUME TypeOK, NEW unresolved \in BOOLEAN, Reconciled(unresolved)
  PROVE  /\ pending' \in BOOLEAN /\ failure' \in BOOLEAN
         /\ op' \in Ops /\ phase' \in {"up", "exiting", "down"} /\ selection' \in SUBSET Paths
BY ReturnType DEF Reconciled

\* A flush that failed is a failed remap, or ends its own call.
LEMMA FlushFailedType ==
  ASSUME TypeOK, FlushFailed
  PROVE  /\ blocked' \in BOOLEAN /\ queue' \in SUBSET Mappings /\ pending' \in BOOLEAN
         /\ failure' \in BOOLEAN /\ mem' \in Documents
         /\ op' \in Ops /\ phase' \in {"up", "exiting", "down"} /\ selection' \in SUBSET Paths
<1>1. CASE op.batch # {} BY <1>1, RemapFailedType DEF FlushFailed
<1>2. CASE op.batch = {}
  <2>1. op' \in Ops BY <1>2, IdleOpType DEF FlushFailed
  <2> QED BY <1>2, <2>1 DEF FlushFailed, TypeOK
<1> QED BY <1>1, <1>2

LEMMA ApplyCompletedType ==
  ASSUME TypeOK, NEW ms \in SUBSET Mappings, ApplyCompleted(ms)
  PROVE  /\ queue' \in SUBSET Mappings /\ playing' \in Rows \cup {Nothing}
         /\ starting' \in Rows \cup {Nothing}
<1>1. queue' \in SUBSET Mappings BY DEF ApplyCompleted, TypeOK
<1>2. playing' \in Rows \cup {Nothing}
  <2>1. CASE playing.path \notin Sources(ms) BY <2>1 DEF ApplyCompleted, TypeOK
  <2>2. CASE playing.path \in Sources(ms)
    <3>1. playing.path \in Paths BY <2>2, MappingPaths DEF Sources
    <3>2. playing # Nothing BY <3>1, ConstantsAssumption DEF Nothing
    <3>3. playing \in Rows BY <3>2 DEF TypeOK
    <3>4. RemapRow(playing, ms) \in Rows
      BY <3>3, RemapPathType DEF RemapRow, Rows
    <3> QED BY <2>2, <3>4 DEF ApplyCompleted
  <2> QED BY <2>1, <2>2
<1>3. starting' \in Rows \cup {Nothing} BY DEF ApplyCompleted, TypeOK
<1> QED BY <1>1, <1>2, <1>3

\* The store's part of an action: everything but the documents is typed
\* separately.
LEMMA MergeType ==
  ASSUME NEW rows \in SUBSET Rows, NEW checkpoint \in SUBSET Rows
  PROVE  Merge(rows, checkpoint) \in SUBSET Rows
BY DEF Merge

LEMMA TypePersistPending ==
  ASSUME TypeOK, PersistPending PROVE TypeOK'
<1> USE DEF PersistPending, TypeOK
<1>1. CASE queue = {} /\ CallReconcile(op.explicit, op.then)
           /\ UNCHANGED <<queue, phase, selection>>
  BY <1>1, CallType DEF Ops
<1>2. CASE Return(FALSE) /\ UNCHANGED queue
  <2>1. op' \in Ops /\ phase' \in {"up", "exiting", "down"} /\ selection' \in SUBSET Paths
    BY <1>2, ReturnType
  <2> QED BY <1>2, <2>1
<1>3. CASE op' = [op EXCEPT !.step = FirstStep, !.batch = queue] /\ queue' = {}
           /\ UNCHANGED <<phase, selection>>
  BY <1>3 DEF Ops, FirstStep, Steps
<1> QED BY <1>1, <1>2, <1>3

LEMMA TypeReconcile ==
  ASSUME TypeOK, Reconcile PROVE TypeOK'
<1>1. CASE /\ \E ok \in BOOLEAN : Return(ok)
           /\ UNCHANGED <<pending, failure>>
  <2>1. op' \in Ops /\ phase' \in {"up", "exiting", "down"} /\ selection' \in SUBSET Paths
    BY <1>1, ReturnType
  <2> QED BY <1>1, <2>1 DEF TypeOK, Reconcile
<1>2. CASE \E unresolved \in BOOLEAN : Reconciled(unresolved)
  <2>1. /\ pending' \in BOOLEAN /\ failure' \in BOOLEAN /\ op' \in Ops
        /\ phase' \in {"up", "exiting", "down"} /\ selection' \in SUBSET Paths
    BY <1>2, ReconciledType
  <2> QED BY <2>1 DEF TypeOK, Reconcile
<1>3. CASE /\ op' = [op EXCEPT !.step = IF Completed(mem.journal) # {}
                                       THEN FirstStep ELSE "discard",
                              !.batch = Completed(mem.journal), !.scan = TRUE,
                              !.untouched = Untouched(mem.journal),
                              !.unresolved = (Unresolved(mem.journal) # {})]
           /\ UNCHANGED <<pending, failure, phase, selection>>
  <2>1. /\ Completed(mem.journal) \in SUBSET Mappings
        /\ Untouched(mem.journal) \in SUBSET Mappings
    BY DEF TypeOK, Documents, Completed, Untouched
  <2>2. op' \in Ops BY <1>3, <2>1 DEF TypeOK, Ops, FirstStep, Steps
  <2> QED BY <1>3, <2>2 DEF TypeOK, Reconcile
<1> QED BY <1>1, <1>2, <1>3 DEF Reconcile

LEMMA TypeRemapIdentities ==
  ASSUME TypeOK, RemapIdentities PROVE TypeOK'
<1>1. CASE RemapFailed /\ UNCHANGED <<disk, stale, faults>>
  BY <1>1, RemapFailedType DEF RemapIdentities, TypeOK
<1>2. CASE \E outcome \in {"ok", "error"} :
             Persist(op.step, Remap(mem[op.step], op.batch), outcome)
  <2>1. op.batch \in SUBSET Mappings /\ op.step \in Remapped
    BY DEF TypeOK, Ops, RemapIdentities
  <2>2. mem[op.step] \in SUBSET Rows
    BY <2>1 DEF TypeOK, Documents, Remapped
  <2>3. Remap(mem[op.step], op.batch) \in Content(op.step)
    BY <2>1, <2>2, RemapType DEF Content, Remapped
  <2>4. op.step \in Docs BY <2>1 DEF Docs, Identities
  <2>5. disk' \in Documents /\ stale' \in SUBSET Docs /\ faults' \in 0..MaxFaults
    BY <1>2, <2>3, <2>4, PersistType
  <2>6. CASE RemapFailed BY <2>5, <2>6, RemapFailedType DEF RemapIdentities, TypeOK
  <2>7. CASE /\ op' = [op EXCEPT !.step = NextStep(@)]
             /\ UNCHANGED <<mem, blocked, queue, pending, failure, phase, selection>>
    <3>1. NextStep(op.step) \in Steps BY <2>1 DEF NextStep, Remapped, Steps
    <3>2. op' \in Ops BY <2>7, <3>1 DEF TypeOK, Ops
    <3> QED BY <2>5, <2>7, <3>2 DEF RemapIdentities, TypeOK
  <2> QED BY <2>6, <2>7 DEF RemapIdentities
<1> QED BY <1>1, <1>2 DEF RemapIdentities

LEMMA TypeRemapJournal ==
  ASSUME TypeOK, RemapJournal PROVE TypeOK'
<1> DEFINE intents == mem.journal \ op.batch
<1>1. intents \in Content("journal") /\ "journal" \in Docs /\ op.batch \in SUBSET Mappings
  BY DEF TypeOK, Documents, Content, Docs, Ops
<1>2. \E outcome \in {"ok", "error"} : Persist("journal", intents, outcome)
  BY DEF RemapJournal
<1>3. disk' \in Documents /\ stale' \in SUBSET Docs /\ faults' \in 0..MaxFaults
  BY <1>1, <1>2, PersistType
<1>4. CASE RemapFailed BY <1>3, <1>4, RemapFailedType DEF RemapJournal, TypeOK
<1>5. CASE /\ mem' = [mem EXCEPT !.progress = Remap(@, op.batch),
                                 !.history = Remap(@, op.batch), !.journal = intents]
           /\ IF ~op.scan
              THEN failure' = FALSE /\ pending' = (intents # {}) /\ Return(TRUE)
              ELSE IF op.untouched # {}
              THEN /\ op' = [op EXCEPT !.step = "discard", !.batch = {}]
                   /\ UNCHANGED <<failure, pending, phase, selection>>
              ELSE Reconciled(op.unresolved)
           /\ UNCHANGED <<queue, blocked>>
  <2>1. Remap(mem.progress, op.batch) \in SUBSET Rows
        /\ Remap(mem.history, op.batch) \in SUBSET Rows
    BY <1>1, RemapType DEF TypeOK, Documents
  <2>2. mem' \in Documents BY <1>1, <1>5, <2>1 DEF TypeOK, Documents, Content
  <2>3. CASE failure' = FALSE /\ pending' = (intents # {}) /\ Return(TRUE)
    BY <1>3, <1>5, <2>2, <2>3, ReturnType DEF RemapJournal, TypeOK
  <2>4. CASE /\ op' = [op EXCEPT !.step = "discard", !.batch = {}]
             /\ UNCHANGED <<failure, pending, phase, selection>>
    <3>1. op' \in Ops BY <2>4 DEF TypeOK, Ops, Steps
    <3> QED BY <1>3, <1>5, <2>2, <2>4, <3>1 DEF RemapJournal, TypeOK
  <2>5. CASE Reconciled(op.unresolved)
    <3>1. op.unresolved \in BOOLEAN BY DEF TypeOK, Ops
    <3> QED BY <1>3, <1>5, <2>2, <2>5, <3>1, ReconciledType DEF RemapJournal, TypeOK
  <2> QED BY <1>5, <2>3, <2>4, <2>5
<1> QED BY <1>4, <1>5 DEF RemapJournal

LEMMA TypeFlushProgress ==
  ASSUME TypeOK, FlushProgress PROVE TypeOK'
<1> DEFINE rows == Merge(mem.progress, mem.checkpoint)
<1>1. rows \in Content("progress") /\ "progress" \in Docs
  BY MergeType DEF TypeOK, Documents, Content, Docs, Identities, Remapped
<1> HIDE DEF rows
<1>2. disk' \in Documents /\ stale' \in SUBSET Docs /\ faults' \in 0..MaxFaults
  <2>1. CASE UNCHANGED <<disk, stale, faults>> BY <2>1 DEF TypeOK
  <2>2. CASE \E outcome \in {"ok", "error"} : Persist("progress", rows, outcome)
    BY <2>2, <1>1, PersistType
  <2> QED BY <2>1, <2>2 DEF FlushProgress, rows
<1>3. CASE /\ mem' = [mem EXCEPT !.progress = rows]
           /\ op' = [op EXCEPT !.step = "clear"]
           /\ UNCHANGED <<blocked, queue, pending, failure, phase, selection>>
  <2>1. mem' \in Documents BY <1>1, <1>3 DEF TypeOK, Documents, Content
  <2>2. op' \in Ops BY <1>3 DEF TypeOK, Ops, Steps
  <2> QED BY <1>2, <1>3, <2>1, <2>2 DEF FlushProgress, TypeOK
<1>4. CASE FlushFailed BY <1>2, <1>4, FlushFailedType DEF FlushProgress, TypeOK
<1> QED BY <1>3, <1>4 DEF FlushProgress, rows

LEMMA TypeFlushClear ==
  ASSUME TypeOK, FlushClear PROVE TypeOK'
<1>1. {} \in Content("checkpoint") /\ "checkpoint" \in Docs
  BY DEF Content, Docs, Identities
<1>2. disk' \in Documents /\ stale' \in SUBSET Docs /\ faults' \in 0..MaxFaults
  BY <1>1, PersistType DEF FlushClear
<1>3. CASE /\ mem' = [mem EXCEPT !.checkpoint = {}]
           /\ CASE op.batch # {} -> op' = [op EXCEPT !.step = "progress"]
                [] op.then = "start" -> CallReconcile(TRUE, "none")
                [] op.then \in {"checkpoint", "publish"} -> op' = [op EXCEPT !.step = "note"]
                [] OTHER -> op' = IdleOp
           /\ UNCHANGED <<blocked, queue, pending, failure, phase, selection>>
  <2>1. mem' \in Documents BY <1>3 DEF TypeOK, Documents
  <2>2. \/ op' = [op EXCEPT !.step = "progress"]
        \/ CallReconcile(TRUE, "none")
        \/ op' = [op EXCEPT !.step = "note"]
        \/ op' = IdleOp
    BY <1>3
  <2>3. op' \in Ops BY <2>2, CallType, IdleOpType DEF TypeOK, Ops, Steps
  <2> QED BY <1>2, <1>3, <2>1, <2>3 DEF FlushClear, TypeOK
<1>4. CASE FlushFailed BY <1>2, <1>4, FlushFailedType DEF FlushClear, TypeOK
<1> QED BY <1>3, <1>4 DEF FlushClear

LEMMA TypeDiscardUntouched ==
  ASSUME TypeOK, DiscardUntouched PROVE TypeOK'
<1> DEFINE intents == mem.journal \ op.untouched
<1>1. intents \in Content("journal") /\ "journal" \in Docs
  BY DEF TypeOK, Documents, Content, Docs
<1>2. disk' \in Documents /\ stale' \in SUBSET Docs /\ faults' \in 0..MaxFaults
  BY <1>1, PersistType DEF DiscardUntouched
<1>3. CASE mem' = [mem EXCEPT !.journal = intents] /\ Reconciled(op.unresolved)
  <2>1. mem' \in Documents BY <1>1, <1>3 DEF TypeOK, Documents, Content
  <2>2. op.unresolved \in BOOLEAN BY DEF TypeOK, Ops
  <2> QED BY <1>2, <1>3, <2>1, <2>2, ReconciledType DEF DiscardUntouched, TypeOK
<1>4. CASE pending' = TRUE /\ failure' = TRUE /\ Return(FALSE) /\ UNCHANGED mem
  BY <1>2, <1>4, ReturnType DEF DiscardUntouched, TypeOK
<1> QED BY <1>3, <1>4 DEF DiscardUntouched

LEMMA TypeUndoIntent ==
  ASSUME TypeOK, UndoIntent PROVE TypeOK'
<1> DEFINE intents == mem.journal \ op.batch
<1>1. intents \in Content("journal") /\ "journal" \in Docs
  BY DEF TypeOK, Documents, Content, Docs
<1>2. disk' \in Documents /\ stale' \in SUBSET Docs /\ faults' \in 0..MaxFaults
  BY <1>1, PersistType DEF UndoIntent
<1>3. mem' \in Documents /\ pending' \in BOOLEAN
  BY <1>1 DEF UndoIntent, TypeOK, Documents, Content
<1>4. op' \in Ops BY IdleOpType DEF UndoIntent
<1> QED BY <1>2, <1>3, <1>4 DEF UndoIntent, TypeOK

LEMMA TypeNotePosition ==
  ASSUME TypeOK, NotePosition, op.row # Nothing PROVE TypeOK'
<1>1. {op.row} \in Content("checkpoint") /\ "checkpoint" \in Docs
  BY DEF TypeOK, Ops, Content, Docs, Identities
<1>2. disk' \in Documents /\ stale' \in SUBSET Docs /\ faults' \in 0..MaxFaults
  BY <1>1, PersistType DEF NotePosition
<1>3. mem' \in Documents
  BY <1>1 DEF NotePosition, TypeOK, Documents, Content
<1>4. op' \in Ops BY IdleOpType DEF NotePosition, IdleOp, Ops, Steps
<1> QED BY <1>2, <1>3, <1>4 DEF NotePosition, TypeOK

LEMMA SaveStepType == \A row : SaveStep(row) \in {"flush", "note"}
BY DEF SaveStep

LEMMA TypeInsertHistory ==
  ASSUME TypeOK, InsertHistory, playing # Nothing PROVE TypeOK'
<1> DEFINE rows == mem.history \cup {playing}
<1>1. rows \in Content("history") /\ "history" \in Docs
  BY DEF TypeOK, Documents, Content, Docs, Identities, Remapped
<1>2. disk' \in Documents /\ stale' \in SUBSET Docs /\ faults' \in 0..MaxFaults
  <2>1. CASE UNCHANGED <<disk, mem, stale, faults>> BY <2>1 DEF TypeOK
  <2>2. CASE \E outcome \in {"ok", "error"} : Persist("history", rows, outcome)
    BY <2>2, <1>1, PersistType
  <2> QED BY <2>1, <2>2 DEF InsertHistory
<1>3. mem' \in Documents
  BY <1>1 DEF InsertHistory, TypeOK, Documents, Content
<1>4. op' \in Ops BY SaveStepType DEF InsertHistory, TypeOK, Ops, Steps
<1> QED BY <1>2, <1>3, <1>4 DEF InsertHistory, TypeOK

LEMMA JournalIntentType ==
  ASSUME TypeOK, NEW ms \in SUBSET Mappings, NEW outcome, JournalIntent(ms, outcome)
  PROVE  /\ disk' \in Documents /\ mem' \in Documents /\ stale' \in SUBSET Docs
         /\ faults' \in 0..MaxFaults
<1>1. mem.journal \cup ms \in Content("journal") /\ "journal" \in Docs
  BY DEF TypeOK, Documents, Content, Docs
<1>2. disk' \in Documents /\ stale' \in SUBSET Docs /\ faults' \in 0..MaxFaults
  BY <1>1, PersistType DEF JournalIntent
<1>3. mem' \in Documents BY <1>1 DEF JournalIntent, TypeOK, Documents, Content
<1> QED BY <1>2, <1>3

LEMMA TypeConfirmMove ==
  ASSUME TypeOK, NEW plan \in SUBSET Mappings, ConfirmMove(plan) PROVE TypeOK'
<1>1. /\ disk' \in Documents /\ mem' \in Documents /\ stale' \in SUBSET Docs
      /\ faults' \in 0..MaxFaults
  BY JournalIntentType DEF ConfirmMove
<1>2. CASE op' = [IdleOp EXCEPT !.step = "undo", !.batch = plan] /\ pending' = TRUE
           /\ UNCHANGED <<exec, worker>>
  <2>1. op' \in Ops BY <1>2 DEF IdleOp, Ops, Steps
  <2> QED BY <1>1, <1>2, <2>1 DEF ConfirmMove, TypeOK
<1>3. CASE /\ exec' = TRUE /\ pending' = TRUE /\ UNCHANGED op
           /\ worker' = [worker EXCEPT !.step = "queued", !.plan = plan, !.done = {}]
  <2>1. worker' \in Workers BY <1>3 DEF TypeOK, Workers, Busy
  <2> QED BY <1>1, <1>3, <2>1 DEF ConfirmMove, TypeOK
<1>4. CASE UNCHANGED <<pending, exec, worker, op>>
  BY <1>1, <1>4 DEF ConfirmMove, TypeOK
<1> QED BY <1>2, <1>3, <1>4 DEF ConfirmMove

LEMMA TypeSubmitRename ==
  ASSUME TypeOK, NEW m \in Mappings, SubmitRename(m) PROVE TypeOK'
<1>1. /\ disk' \in Documents /\ mem' \in Documents /\ stale' \in SUBSET Docs
      /\ faults' \in 0..MaxFaults
  BY JournalIntentType DEF SubmitRename
<1>2. pending' \in BOOLEAN BY DEF SubmitRename, TypeOK
<1>3. op' \in Ops
  <2>1. CASE op' = [IdleOp EXCEPT !.step = "rename", !.batch = {m}]
    BY <2>1 DEF IdleOp, Ops, Steps
  <2>2. CASE UNCHANGED op BY <2>2 DEF TypeOK
  <2> QED BY <2>1, <2>2 DEF SubmitRename
<1> QED BY <1>1, <1>2, <1>3 DEF SubmitRename, TypeOK

LEMMA FaultType ==
  ASSUME TypeOK
  PROVE  Fault \/ UNCHANGED faults => faults' \in 0..MaxFaults
BY ConstantsAssumption DEF TypeOK, Fault

LEMMA TypeLinkTarget ==
  ASSUME TypeOK, NEW m \in Mappings, LinkTarget(m) PROVE TypeOK'
<1>1. m.source \in Paths /\ m.target \in Paths BY MappingPaths
<1>2. fs' \in [Paths -> Files \cup {NoFile}] BY <1>1 DEF LinkTarget, TypeOK
<1>3. faults' \in 0..MaxFaults BY FaultType DEF LinkTarget
<1>4. op' \in Ops BY DEF LinkTarget, TypeOK, Ops, Steps
<1> QED BY <1>2, <1>3, <1>4 DEF LinkTarget, TypeOK

LEMMA TypeUnlinkSource ==
  ASSUME TypeOK, NEW m \in Mappings, UnlinkSource(m) PROVE TypeOK'
<1>1. m.source \in Paths /\ m.target \in Paths BY MappingPaths
<1>2. fs' \in [Paths -> Files \cup {NoFile}] BY <1>1 DEF UnlinkSource, TypeOK
<1>3. faults' \in 0..MaxFaults BY FaultType DEF UnlinkSource
<1>4. CASE ApplyCompleted({m}) /\ CallPersist(FALSE, "none")
  <2>1. op' \in Ops BY <1>4, CallType
  <2>2. /\ queue' \in SUBSET Mappings /\ playing' \in Rows \cup {Nothing}
        /\ starting' \in Rows \cup {Nothing}
    BY <1>4, ApplyCompletedType
  <2> QED BY <1>2, <1>3, <2>1, <2>2 DEF UnlinkSource, TypeOK
<1>5. CASE op' = [op EXCEPT !.step = "undo"] /\ UNCHANGED <<queue, playing, starting>>
  <2>1. op' \in Ops BY <1>5 DEF TypeOK, Ops, Steps
  <2> QED BY <1>2, <1>3, <1>5, <2>1 DEF UnlinkSource, TypeOK
<1> QED BY <1>4, <1>5 DEF UnlinkSource

LEMMA IdleWorkerType == IdleWorker \in Workers
BY DEF IdleWorker, Workers, Busy

LEMMA TypeHandleResponse ==
  ASSUME TypeOK, HandleResponse PROVE TypeOK'
<1>1. worker.done \in SUBSET Mappings BY DEF TypeOK, Workers
<1>2. /\ queue' \in SUBSET Mappings /\ playing' \in Rows \cup {Nothing}
      /\ starting' \in Rows \cup {Nothing}
  BY <1>1, ApplyCompletedType DEF HandleResponse
<1>3. op' \in Ops BY CallType DEF HandleResponse
<1>4. selection' \in SUBSET Paths BY DEF HandleResponse, TypeOK
<1> QED BY <1>2, <1>3, <1>4, IdleWorkerType DEF HandleResponse, TypeOK

LEMMA TypeControllerStep ==
  ASSUME TypeOK, op.step = "note" => op.row # Nothing,
         op.step = "insert" => playing # Nothing, ControllerStep PROVE TypeOK'
<1>1. CASE NotePosition BY <1>1, TypeNotePosition DEF NotePosition
<1>4. CASE InsertHistory BY <1>4, TypeInsertHistory DEF InsertHistory
<1>2. CASE HandleDisconnect BY <1>2 DEF HandleDisconnect, TypeOK
<1>3. CASE Shutdown BY <1>3, CallType DEF Shutdown, TypeOK
<1> QED BY <1>1, <1>2, <1>3, <1>4, TypePersistPending, TypeReconcile, TypeRemapIdentities,
           TypeRemapJournal, TypeFlushProgress, TypeFlushClear, TypeDiscardUntouched,
           TypeUndoIntent, TypeLinkTarget, TypeUnlinkSource, TypeHandleResponse
           DEF ControllerStep

LEMMA TypeUserStep ==
  ASSUME TypeOK, UserStep PROVE TypeOK'
<1>1. CASE BeginMove BY <1>1, CallType DEF BeginMove, TypeOK
<1>2. CASE DismissMove BY <1>2 DEF DismissMove, TypeOK
<1>3. CASE Quit BY <1>3, CallType DEF Quit, TypeOK
<1>4. ASSUME NEW p \in Playable, Play(p) PROVE TypeOK'
  <2>1. p \in Paths /\ fs[p] \in Files
    BY <1>4, ConstantsAssumption DEF Play, Present, TypeOK
  <2>2. playing' \in Rows BY <1>4, <2>1 DEF Play, Rows
  <2> QED BY <1>4, <2>2 DEF Play, TypeOK
<1> QED BY <1>1, <1>2, <1>3, <1>4, TypeConfirmMove, TypeSubmitRename DEF UserStep

LEMMA TypeWorkerStep ==
  ASSUME TypeOK, WorkerStep PROVE TypeOK'
<1> USE DEF WorkerFrame, TypeOK
<1>1. StopMove => worker' \in Workers BY DEF StopMove, Workers, Busy
<1>2. ASSUME NEW m \in Mappings, FinishEntry(m) PROVE worker' \in Workers
  <2>1. (IF Remaining = {m} THEN "reported" ELSE "entry") \in Busy \cup {"idle", "reported", "lost"}
    BY DEF Busy
  <2>2. worker.done \cup {m} \in SUBSET Mappings BY DEF Workers
  <2> QED BY <1>2, <2>1, <2>2 DEF FinishEntry, Workers
<1>3. Fault => faults' \in 0..MaxFaults BY ConstantsAssumption DEF Fault
<1>4. CASE StartPlan
  <2>1. worker' \in Workers BY <1>1, <1>4 DEF StartPlan, Workers, Busy
  <2> QED BY <1>3, <1>4, <2>1 DEF StartPlan
<1>5. ASSUME NEW m \in Mappings, MoveEntry(m) PROVE TypeOK'
  <2>1. [worker EXCEPT !.step = "staged", !.entry = {m}] \in Workers
    BY DEF Workers, Busy
  <2>2. worker' \in Workers BY <1>1, <1>2, <1>5, <2>1 DEF MoveEntry
  <2>3. fs' \in [Paths -> Files \cup {NoFile}]
    BY <1>5, MappingPaths DEF MoveEntry, Renamed
  <2> QED BY <1>3, <1>5, <2>2, <2>3 DEF MoveEntry
<1>6. ASSUME NEW m \in Mappings, PublishEntry(m) PROVE TypeOK'
  <2>1. worker' \in Workers BY <1>1, <1>6 DEF PublishEntry, Workers, Busy
  <2>2. fs' \in [Paths -> Files \cup {NoFile}] BY <1>6, MappingPaths DEF PublishEntry
  <2> QED BY <1>3, <1>6, <2>1, <2>2 DEF PublishEntry
<1>7. ASSUME NEW m \in Mappings, DetachSource(m) PROVE TypeOK'
  <2>1. worker' \in Workers BY <1>1, <1>2, <1>7 DEF DetachSource
  <2>2. fs' \in [Paths -> Files \cup {NoFile}] BY <1>7 DEF DetachSource
  <2> QED BY <1>3, <1>7, <2>1, <2>2 DEF DetachSource
<1> QED BY <1>4, <1>5, <1>6, <1>7 DEF WorkerStep

LEMMA TypeEnvironment ==
  ASSUME TypeOK, Environment PROVE TypeOK'
<1> USE DEF TypeOK
<1>1. CASE ExternalExit BY <1>1, ConstantsAssumption DEF ExternalExit, Ready
<1>2. CASE Crash BY <1>2, ConstantsAssumption DEF Crash
<1>3. CASE WorkerPanic
  <2>1. worker' \in Workers BY <1>3 DEF WorkerPanic, Workers
  <2>2. faults' \in 0..MaxFaults BY <1>3, ConstantsAssumption DEF WorkerPanic, Fault
  <2> QED BY <1>3, <2>1, <2>2 DEF WorkerPanic, WorkerFrame
<1>4. ASSUME NEW p \in Paths, NEW f \in Files, Intrude(p, f) PROVE TypeOK'
  BY <1>4 DEF Intrude
<1>5. ASSUME NEW m \in Mappings, Repair(m) PROVE TypeOK'
  BY <1>5 DEF Repair
<1> QED BY <1>1, <1>2, <1>3, <1>4, <1>5 DEF Environment

LEMMA TypeStart ==
  ASSUME TypeOK, Start PROVE TypeOK'
<1>1. op' \in Ops
  <2>1. CASE CallReconcile(TRUE, "none") BY <2>1, CallType
  <2>2. CASE op' = [IdleOp EXCEPT !.step = "flush", !.then = "start"]
    BY <2>2 DEF IdleOp, Ops, Steps
  <2> QED BY <2>1, <2>2 DEF Start
<1> QED BY <1>1, IdleWorkerType DEF Start, TypeOK

LEMMA TypeSavePosition ==
  ASSUME TypeOK, NEW publish \in BOOLEAN, SavePosition(publish) PROVE TypeOK'
<1>1. op' \in Ops BY SaveStepType DEF SavePosition, IdleOp, Ops, Steps, TypeOK
<1> QED BY <1>1 DEF SavePosition, TypeOK

LEMMA TypePlaybackStarted ==
  ASSUME TypeOK, PlaybackStarted PROVE TypeOK'
<1>1. op' \in Ops BY DEF PlaybackStarted, IdleOp, Ops, Steps, TypeOK
<1> QED BY <1>1 DEF PlaybackStarted, TypeOK

-----------------------------------------------------------------------------
(* TypeOK is not inductive as it stands: a position is only saved while       *)
(* something plays, and a call that saves one has it in hand.                 *)

Saving(o) == o.step \in {"insert", "note"} \/ o.then \in {"checkpoint", "publish"}

PositionHeld ==
  /\ Saving(op) => playing # Nothing /\ op.row # Nothing
  /\ op.step \in {"persist", "reconcile"} => ~Saving(op)
  /\ starting # Nothing => playing # Nothing

TypeInv == TypeOK /\ PositionHeld

LEMMA TypeInit == Init => TypeInv
<1> SUFFICES ASSUME Init PROVE TypeInv OBVIOUS
<1>1. disk \in Documents BY ConstantsAssumption DEF Init, Documents
<1>2. 0 \in 0..MaxFaults /\ 0 \in 0..MaxCrashes BY ConstantsAssumption
<1>3. TypeOK
  BY <1>1, <1>2, ConstantsAssumption, IdleOpType, IdleWorkerType DEF Init, TypeOK
<1>4. PositionHeld BY DEF Init, PositionHeld, Saving, IdleOp
<1> QED BY <1>3, <1>4 DEF TypeInv

LEMMA TypeNext == TypeInv /\ [Next]_vars => TypeOK'
<1> SUFFICES ASSUME TypeInv, [Next]_vars PROVE TypeOK' OBVIOUS
<1> USE DEF TypeInv
<1>1. CASE ControllerStep BY <1>1, TypeControllerStep DEF PositionHeld, Saving
<1>2. CASE UserStep BY <1>2, TypeUserStep
<1>3. CASE WorkerStep BY <1>3, TypeWorkerStep
<1>4. CASE Autosave BY <1>4, CallType DEF Autosave, TypeOK
<1>5. ASSUME NEW publish \in BOOLEAN, SavePosition(publish) PROVE TypeOK'
  BY <1>5, TypeSavePosition
<1>6. CASE Start BY <1>6, TypeStart
<1>7. CASE Environment BY <1>7, TypeEnvironment
<1>8. CASE UNCHANGED vars BY <1>8 DEF vars, TypeOK
<1>9. CASE PlaybackStarted BY <1>9, TypePlaybackStarted
<1> QED BY <1>1, <1>2, <1>3, <1>4, <1>5, <1>6, <1>7, <1>8, <1>9 DEF Next

\* What plays goes on playing when its file moves.
LEMMA StillPlaying ==
  ASSUME TypeOK, NEW ms \in SUBSET Mappings, ApplyCompleted(ms), playing # Nothing
  PROVE  playing' # Nothing
<1>1. playing \in Rows /\ playing.path \in Paths BY DEF TypeOK, Rows
<1>2. RemapPath(playing.path, ms) \in Paths BY <1>1, RemapPathType
<1>3. playing'.path \in Paths BY <1>1, <1>2 DEF ApplyCompleted, RemapRow, Rows
<1> QED BY <1>3, ConstantsAssumption DEF Nothing

\* While something plays, something goes on playing until the process starts anew.
LEMMA PlayingLasts ==
  TypeInv /\ [Next]_vars => (starting' # Nothing => playing' # Nothing)
<1> DEFINE Lasts == starting' # Nothing => playing' # Nothing
<1> SUFFICES ASSUME TypeInv, [Next]_vars PROVE Lasts OBVIOUS
<1> USE DEF PositionHeld, TypeInv
<1>1. CASE UNCHANGED <<playing, starting>> BY <1>1
<1>2. ASSUME NEW ms \in SUBSET Mappings, ApplyCompleted(ms) PROVE Lasts
  BY <1>2, StillPlaying DEF ApplyCompleted
<1>3. CASE HandleResponse BY <1>2, <1>3 DEF HandleResponse, TypeOK, Workers
<1>4. ASSUME NEW m \in Mappings, UnlinkSource(m) PROVE Lasts
  BY <1>1, <1>2, <1>4 DEF UnlinkSource
<1>5. CASE ControllerStep
  BY <1>1, <1>3, <1>4, <1>5
     DEF ControllerStep, PersistPending, Reconcile, RemapIdentities, RemapJournal,
         FlushProgress, FlushClear, InsertHistory, NotePosition, DiscardUntouched,
         UndoIntent, LinkTarget, HandleDisconnect, Shutdown
<1>6. CASE UserStep
  <2>1. ASSUME NEW p \in Playable, Play(p) PROVE Lasts
    <3>1. playing'.path = p /\ p # "nothing" BY <2>1, ConstantsAssumption DEF Play
    <3> QED BY <3>1 DEF Nothing
  <2> QED BY <1>1, <1>6, <2>1
      DEF UserStep, BeginMove, DismissMove, Quit, ConfirmMove, SubmitRename
<1>7. CASE WorkerStep
  BY <1>1, <1>7 DEF WorkerStep, StartPlan, MoveEntry, PublishEntry, DetachSource, WorkerFrame
<1>8. CASE Autosave BY <1>1, <1>8 DEF Autosave
<1>9. ASSUME NEW publish \in BOOLEAN, SavePosition(publish) PROVE Lasts
  BY <1>9 DEF SavePosition, MaySave
<1>10. CASE PlaybackStarted \/ Start BY <1>10 DEF PlaybackStarted, Start
<1>11. CASE Environment
  BY <1>1, <1>11 DEF Environment, ExternalExit, Crash, WorkerPanic, Intrude, Repair, WorkerFrame
<1>12. CASE UNCHANGED vars BY <1>1, <1>12 DEF vars
<1> QED BY <1>5, <1>6, <1>7, <1>8, <1>9, <1>10, <1>11, <1>12 DEF Next

\* A step goes on with a position in hand, takes up that of what plays or that of a
\* start, has something else play between two calls, or saves none.
Carried == /\ Saving(op) /\ op'.row = op.row /\ UNCHANGED playing
           /\ op'.step \notin {"persist", "reconcile"}
Taken == /\ playing # Nothing /\ op'.row = playing /\ UNCHANGED playing
         /\ op'.step \notin {"persist", "reconcile"}
Chosen == op.step = "idle" /\ UNCHANGED op /\ playing' # Nothing

LEMMA SavesGoOn ==
  TypeInv /\ [Next]_vars => ~Saving(op') \/ Carried \/ Taken \/ Chosen \/ PlaybackStarted
<1> SUFFICES ASSUME TypeInv, [Next]_vars
             PROVE  ~Saving(op') \/ Carried \/ Taken \/ Chosen \/ PlaybackStarted
  OBVIOUS
<1> USE DEF PositionHeld, TypeInv
<1> DEFINE Quiet == ~Saving(op')
           Same(steps) == op'.step \in steps => op.step \in steps
           Kept  == /\ op'.then = op.then /\ op'.row = op.row /\ UNCHANGED playing
                    /\ Same({"insert", "note"}) /\ Same({"persist", "reconcile"})
           Goal == Quiet \/ Carried \/ Taken \/ Chosen \/ PlaybackStarted
<1> SUFFICES Goal OBVIOUS
<1>0. ASSUME NEW e \in BOOLEAN,
             NEW t \in {"none", "reconcile", "begin", "quit", "exit", "start"},
             CallPersist(e, t) \/ CallReconcile(e, t)
      PROVE  Quiet
  BY <1>0 DEF CallPersist, CallReconcile, IdleOp, Saving
<1>1. ~Saving(IdleOp) BY DEF IdleOp, Saving
<1>2. \A ok : Return(ok) => Quiet BY <1>0, <1>1 DEF Return
<1>3. \A u : Reconciled(u) => Quiet BY <1>2 DEF Reconciled
<1>4. RemapFailed => Quiet BY <1>2 DEF RemapFailed
<1>5. FlushFailed => Quiet BY <1>1, <1>4 DEF FlushFailed
<1>6. Quiet \/ Kept => Goal BY DEF Carried, Saving
<1> HIDE DEF Goal, PositionHeld
<1>7. CASE ControllerStep
  <2>1. CASE PersistPending
    <3>1. op' = [op EXCEPT !.step = FirstStep, !.batch = queue] => Kept
      BY <2>1 DEF PersistPending, FirstStep, TypeOK, Ops
    <3>2. CallReconcile(op.explicit, op.then) => Quiet
      BY <2>1 DEF PersistPending, CallReconcile, IdleOp, Saving, PositionHeld
    <3> QED BY <1>2, <1>6, <2>1, <3>1, <3>2 DEF PersistPending
  <2>2. CASE Reconcile
    <3>1. op' = [op EXCEPT !.step = IF Completed(mem.journal) # {}
                                    THEN FirstStep ELSE "discard",
                           !.batch = Completed(mem.journal), !.scan = TRUE,
                           !.untouched = Untouched(mem.journal),
                           !.unresolved = (Unresolved(mem.journal) # {})] => Kept
      BY <2>2 DEF Reconcile, FirstStep, TypeOK, Ops
    <3> QED BY <1>2, <1>3, <1>6, <2>2, <3>1 DEF Reconcile
  <2>3. CASE RemapIdentities
    <3>1. op' = [op EXCEPT !.step = NextStep(@)] => Kept
      BY <2>3 DEF RemapIdentities, Remapped, NextStep, TypeOK, Ops
    <3> QED BY <1>4, <1>6, <2>3, <3>1 DEF RemapIdentities
  <2>4. CASE RemapJournal
    <3>1. op' = [op EXCEPT !.step = "discard", !.batch = {}] => Kept
      BY <2>4 DEF RemapJournal, TypeOK, Ops
    <3> QED BY <1>2, <1>3, <1>4, <1>6, <2>4, <3>1 DEF RemapJournal
  <2>5. CASE FlushProgress
    <3>1. op' = [op EXCEPT !.step = "clear"] => Kept
      BY <2>5 DEF FlushProgress, TypeOK, Ops
    <3> QED BY <1>5, <1>6, <2>5, <3>1 DEF FlushProgress
  <2>6. CASE FlushClear
    <3>1. op' = [op EXCEPT !.step = "progress"] => Kept
      BY <2>6 DEF FlushClear, TypeOK, Ops
    <3>2. op' = [op EXCEPT !.step = "note"] /\ op.then \in {"checkpoint", "publish"}
            => Goal
      <4> SUFFICES ASSUME op' = [op EXCEPT !.step = "note"],
                          op.then \in {"checkpoint", "publish"}
                   PROVE  Goal
        OBVIOUS
      <4>1. op'.step = "note" /\ op'.row = op.row BY DEF TypeOK, Ops
      <4>2. Saving(op) /\ UNCHANGED playing BY <2>6 DEF FlushClear, Saving
      <4> QED BY <4>1, <4>2 DEF Goal, Carried
    <3>3. CallReconcile(TRUE, "none") => Quiet BY <1>0
    <3>4. op' = IdleOp => Quiet BY <1>1
    <3> QED BY <1>5, <1>6, <2>6, <3>1, <3>2, <3>3, <3>4 DEF FlushClear
  <2>7. CASE NotePosition
    <3>1. ~Saving([IdleOp EXCEPT !.step = "flush"]) BY DEF IdleOp, Saving
    <3> QED BY <1>1, <1>6, <2>7, <3>1 DEF NotePosition
  <2>8. CASE DiscardUntouched BY <1>2, <1>3, <1>6, <2>8 DEF DiscardUntouched
  <2>9. CASE UndoIntent BY <1>1, <1>6, <2>9 DEF UndoIntent
  <2>10. ASSUME NEW m \in Mappings, LinkTarget(m) PROVE Goal
    <3>1. Kept BY <2>10 DEF LinkTarget, TypeOK, Ops
    <3> QED BY <1>6, <3>1
  <2>11. ASSUME NEW m \in Mappings, UnlinkSource(m) PROVE Goal
    <3>1. op' = [op EXCEPT !.step = "undo"] /\ UNCHANGED <<queue, playing, starting>> => Kept
      BY DEF TypeOK, Ops
    <3> QED BY <1>0, <1>6, <2>11, <3>1 DEF UnlinkSource
  <2>12. CASE HandleResponse BY <1>0, <1>6, <2>12 DEF HandleResponse
  <2>13. CASE HandleDisconnect BY <1>6, <2>13 DEF HandleDisconnect
  <2>14. CASE Shutdown BY <1>0, <1>6, <2>14 DEF Shutdown
  <2>15. CASE InsertHistory
    <3>1. op'.step \in {"flush", "note"} /\ op'.then = op.then /\ op'.row = op.row
      BY <2>15, SaveStepType DEF InsertHistory, TypeOK, Ops
    <3>2. Kept BY <2>15, <3>1 DEF InsertHistory
    <3> QED BY <1>6, <3>2
  <2> QED BY <1>7, <2>1, <2>2, <2>3, <2>4, <2>5, <2>6, <2>7, <2>8, <2>9, <2>10, <2>11,
             <2>12, <2>13, <2>14, <2>15 DEF ControllerStep
<1>8. CASE UserStep
  <2>1. BeginMove \/ Quit => Quiet BY <1>0 DEF BeginMove, Quit
  <2>2. DismissMove => Kept BY DEF DismissMove
  <2>3. ASSUME NEW p \in Playable, Play(p) PROVE Goal
    <3>1. op.step = "idle" /\ UNCHANGED op BY <2>3 DEF Play, Dispatching, Ready
    <3>2. playing'.path = p /\ p # "nothing" BY <2>3, ConstantsAssumption DEF Play
    <3>3. playing' # Nothing BY <3>2 DEF Nothing
    <3> QED BY <3>1, <3>3 DEF Goal, Chosen
  <2>4. ASSUME NEW m, op' = [IdleOp EXCEPT !.step = "rename", !.batch = {m}] PROVE Quiet
    BY <2>4 DEF IdleOp, Saving
  <2>5. ASSUME NEW plan, op' = [IdleOp EXCEPT !.step = "undo", !.batch = plan] PROVE Quiet
    BY <2>5 DEF IdleOp, Saving
  <2>6. ASSUME NEW m \in Mappings, SubmitRename(m) PROVE Goal
    BY <1>6, <2>4, <2>6 DEF SubmitRename
  <2>7. ASSUME NEW plan \in SUBSET Mappings, ConfirmMove(plan) PROVE Goal
    BY <1>6, <2>5, <2>7 DEF ConfirmMove
  <2> QED BY <1>6, <1>8, <2>1, <2>2, <2>3, <2>6, <2>7 DEF UserStep
<1>9. CASE WorkerStep
  <2>1. Kept
    BY <1>9 DEF WorkerStep, StartPlan, MoveEntry, PublishEntry, DetachSource, WorkerFrame
  <2> QED BY <1>6, <2>1
<1>10. CASE Autosave BY <1>0, <1>6, <1>10 DEF Autosave
<1>11. ASSUME NEW publish \in BOOLEAN, SavePosition(publish) PROVE Goal
  <2>1. op'.step \in {"flush", "note"} /\ op'.row = playing
    BY <1>11, SaveStepType DEF SavePosition, IdleOp
  <2>2. playing # Nothing /\ UNCHANGED playing BY <1>11 DEF SavePosition, MaySave
  <2> QED BY <2>1, <2>2 DEF Goal, Taken
<1>12. CASE PlaybackStarted BY <1>12 DEF Goal
<1>13. CASE Start
  <2>1. ~Saving([IdleOp EXCEPT !.step = "flush", !.then = "start"]) BY DEF IdleOp, Saving
  <2> QED BY <1>0, <1>6, <1>13, <2>1 DEF Start
<1>14. CASE Environment
  <2>1. Kept
    BY <1>14 DEF Environment, ExternalExit, Crash, WorkerPanic, Intrude, Repair, WorkerFrame
  <2> QED BY <1>6, <2>1
<1>15. CASE UNCHANGED vars BY <1>6, <1>15 DEF vars
<1> QED BY <1>7, <1>8, <1>9, <1>10, <1>11, <1>12, <1>13, <1>14, <1>15 DEF Next

LEMMA PositionNext == TypeInv /\ [Next]_vars => PositionHeld'
<1> SUFFICES ASSUME TypeInv, [Next]_vars PROVE PositionHeld' OBVIOUS
<1> USE DEF TypeInv
<1>1. starting' # Nothing => playing' # Nothing BY PlayingLasts
<1>2. CASE ~Saving(op') BY <1>1, <1>2 DEF PositionHeld
<1>3. CASE Carried BY <1>1, <1>3 DEF Carried, PositionHeld
<1>4. CASE Taken BY <1>1, <1>4 DEF Taken, PositionHeld
<1>5. CASE Chosen BY <1>1, <1>5 DEF Chosen, PositionHeld
<1>6. CASE PlaybackStarted
  <2>1. op'.step = "insert" /\ op'.row = starting BY <1>6 DEF PlaybackStarted, IdleOp
  <2>2. starting # Nothing /\ playing # Nothing /\ UNCHANGED playing
    BY <1>6 DEF PlaybackStarted, PositionHeld
  <2> QED BY <1>1, <2>1, <2>2 DEF PositionHeld
<1> QED BY <1>2, <1>3, <1>4, <1>5, <1>6, SavesGoOn

\* Every variable keeps its shape, whatever fails.
THEOREM TypeCorrect == Spec => []TypeOK
<1>1. TypeInv /\ [Next]_vars => TypeInv' BY TypeNext, PositionNext DEF TypeInv
<1>2. TypeInv => TypeOK BY DEF TypeInv
<1> QED BY TypeInit, <1>1, <1>2, PTL DEF Spec

-----------------------------------------------------------------------------
(* No file is lost or overwritten.  Two steps remove a directory entry whose  *)
(* content was published elsewhere some steps before: DetachSource and        *)
(* UnlinkSource.  They are safe because nobody else touches either copy in    *)
(* between, and that rests on who may run when: the worker is busy only while *)
(* the controller has a move executing, and the controller renames only when  *)
(* it has none.                                                               *)

Twins(m) == Present(m.source) /\ fs[m.target] = fs[m.source]

TwinInv ==
  Running =>
    /\ worker.step \in Busy => exec
    /\ op.step \in {"rename", "unlink"} => ~exec
    /\ worker.step = "staged" => \A m \in Mappings : worker.entry = {m} => Present(m.source)
    /\ worker.step = "published" => \A m \in Mappings : worker.entry = {m} => Twins(m)
    /\ op.step = "unlink" => \A m \in Mappings : op.batch = {m} => Twins(m)

FilesInv == TypeInv /\ TwinInv

LEMMA TwinInit == Init => TwinInv
BY DEF Init, TwinInv, IdleOp, IdleWorker, Busy

\* A call that is neither a rename nor a removal of its source.
Harmless == op'.step \notin {"rename", "unlink"}

LEMMA CallHarmless ==
  /\ \A e \in BOOLEAN : \A t : CallPersist(e, t) \/ CallReconcile(e, t) => Harmless
  /\ \A ok \in BOOLEAN : Return(ok) \/ Reconciled(ok) => Harmless
  /\ RemapFailed \/ FlushFailed => Harmless
<1>1. ASSUME NEW e \in BOOLEAN, NEW t, CallPersist(e, t) \/ CallReconcile(e, t)
      PROVE  Harmless
  BY <1>1 DEF CallPersist, CallReconcile, IdleOp, Harmless
<1>2. op' = IdleOp => Harmless BY DEF IdleOp, Harmless
<1>3. ASSUME NEW ok \in BOOLEAN, Return(ok) PROVE Harmless
  BY <1>1, <1>2, <1>3 DEF Return
<1>4. ASSUME NEW u \in BOOLEAN, Reconciled(u) PROVE Harmless
  BY <1>3, <1>4 DEF Reconciled
<1>5. RemapFailed => Harmless BY <1>3 DEF RemapFailed
<1>6. FlushFailed => Harmless BY <1>2, <1>5 DEF FlushFailed
<1> QED BY <1>1, <1>3, <1>4, <1>5, <1>6

\* Every controller step but the two of a rename leaves the files alone, keeps
\* the worker or puts it to rest, and is no rename.
LEMMA ControllerHarmless ==
  ASSUME TypeOK, ControllerStep
  PROVE  \/ \E m \in Mappings : LinkTarget(m) \/ UnlinkSource(m)
         \/ /\ UNCHANGED fs
            /\ Harmless \/ (HandleDisconnect /\ UNCHANGED op)
            /\ \/ UNCHANGED <<worker, exec>>
               \/ worker' = IdleWorker
               \/ worker.step = "lost" /\ UNCHANGED worker
<1> USE CallHarmless
<1> DEFINE Goal == /\ UNCHANGED fs
                   /\ Harmless \/ (HandleDisconnect /\ UNCHANGED op)
                   /\ \/ UNCHANGED <<worker, exec>>
                      \/ worker' = IdleWorker
                      \/ worker.step = "lost" /\ UNCHANGED worker
<1>0. op' = IdleOp => Harmless BY DEF IdleOp, Harmless
<1>1. CASE PersistPending
  <2>1. op.explicit \in BOOLEAN BY DEF TypeOK, Ops
  <2>2. op' = [op EXCEPT !.step = FirstStep, !.batch = queue] => Harmless
    BY DEF TypeOK, Ops, FirstStep, Harmless
  <2> QED BY <1>1, <2>1, <2>2 DEF PersistPending
<1>2. CASE Reconcile
  <2>1. (Unresolved(mem.journal) # {}) \in BOOLEAN OBVIOUS
  <2>2. op' = [op EXCEPT !.step = IF Completed(mem.journal) # {}
                                  THEN FirstStep ELSE "discard",
                         !.batch = Completed(mem.journal), !.scan = TRUE,
                         !.untouched = Untouched(mem.journal),
                         !.unresolved = (Unresolved(mem.journal) # {})] => Harmless
    BY DEF TypeOK, Ops, FirstStep, Harmless
  <2> QED BY <1>2, <2>1, <2>2 DEF Reconcile
<1>3. CASE RemapIdentities
  <2>1. op' = [op EXCEPT !.step = NextStep(@)] => Harmless
    BY <1>3 DEF RemapIdentities, Remapped, NextStep, TypeOK, Ops, Harmless
  <2> QED BY <1>3, <2>1 DEF RemapIdentities
<1>4. CASE RemapJournal
  <2>1. op' = [op EXCEPT !.step = "discard", !.batch = {}] => Harmless
    BY DEF TypeOK, Ops, Harmless
  <2>2. op.unresolved \in BOOLEAN BY DEF TypeOK, Ops
  <2> QED BY <1>4, <2>1, <2>2 DEF RemapJournal
<1>5. CASE FlushProgress
  <2>1. op' = [op EXCEPT !.step = "clear"] => Harmless BY DEF TypeOK, Ops, Harmless
  <2> QED BY <1>5, <2>1 DEF FlushProgress
<1>6. CASE FlushClear
  <2>1. op' = [op EXCEPT !.step = "progress"] => Harmless BY DEF TypeOK, Ops, Harmless
  <2>2. op' = [op EXCEPT !.step = "note"] => Harmless BY DEF TypeOK, Ops, Harmless
  <2>3. CallReconcile(TRUE, "none") => Harmless BY CallHarmless
  <2> QED BY <1>0, <1>6, <2>1, <2>2, <2>3 DEF FlushClear
<1>7. CASE NotePosition
  <2>1. op' = [IdleOp EXCEPT !.step = "flush"] => Harmless BY DEF IdleOp, Harmless
  <2> QED BY <1>0, <1>7, <2>1 DEF NotePosition
<1>8. CASE DiscardUntouched
  <2>1. op.unresolved \in BOOLEAN BY DEF TypeOK, Ops
  <2> QED BY <1>8, <2>1 DEF DiscardUntouched
<1>9. CASE UndoIntent BY <1>0, <1>9 DEF UndoIntent
<1>10. CASE HandleResponse BY <1>10 DEF HandleResponse
<1>11. CASE HandleDisconnect BY <1>11 DEF HandleDisconnect
<1>12. CASE Shutdown BY <1>12 DEF Shutdown
<1>13. CASE InsertHistory
  <2>1. Harmless BY <1>13, SaveStepType DEF InsertHistory, TypeOK, Ops, Harmless
  <2> QED BY <1>13, <2>1 DEF InsertHistory
<1> QED BY <1>1, <1>2, <1>3, <1>4, <1>5, <1>6, <1>7, <1>8, <1>9, <1>10, <1>11, <1>12, <1>13
        DEF ControllerStep

LEMMA TwinController ==
  ASSUME FilesInv, ControllerStep PROVE TwinInv'
<1> USE DEF FilesInv, TypeInv
<1>1. Running BY DEF ControllerStep
<1>2. ASSUME NEW m \in Mappings, LinkTarget(m) PROVE TwinInv'
  <2>1. m.source \in Paths /\ m.target \in Paths /\ m.source # m.target BY MappingPaths
  <2>2. ~exec /\ worker.step \notin Busy
    BY <1>1, <1>2 DEF TwinInv, LinkTarget
  <2>3. worker.step \notin {"staged", "published"} BY <2>2 DEF Busy
  <2>4. op'.batch = {m} BY <1>2 DEF LinkTarget, TypeOK, Ops
  <2>5. CASE Movable(m) /\ fs' = [fs EXCEPT ![m.target] = fs[m.source]]
    <3>1. Twins(m)' BY <2>1, <2>5 DEF Movable, Present, Twins, TypeOK
    <3>2. \A n \in Mappings : op'.batch = {n} => n = m BY <2>4
    <3> QED BY <1>1, <1>2, <2>2, <2>3, <3>1, <3>2 DEF TwinInv, LinkTarget
  <2>6. CASE op' = [op EXCEPT !.step = "undo"] /\ UNCHANGED fs
    <3>1. op'.step = "undo" BY <2>6 DEF TypeOK, Ops
    <3> QED BY <1>1, <1>2, <2>2, <2>3, <3>1 DEF TwinInv, LinkTarget
  <2> QED BY <1>2, <2>5, <2>6 DEF LinkTarget
<1>3. ASSUME NEW m \in Mappings, UnlinkSource(m) PROVE TwinInv'
  <2>1. ~exec /\ worker.step \notin Busy
    BY <1>1, <1>3 DEF TwinInv, UnlinkSource
  <2>2. op' = [op EXCEPT !.step = "undo"] => Harmless BY DEF TypeOK, Ops, Harmless
  <2>3. Harmless BY <1>3, <2>2, CallHarmless DEF UnlinkSource
  <2> QED BY <1>3, <2>1, <2>3 DEF TwinInv, UnlinkSource, Harmless, Busy
<1>4. CASE /\ UNCHANGED fs
           /\ Harmless \/ (HandleDisconnect /\ UNCHANGED op)
           /\ \/ UNCHANGED <<worker, exec>>
              \/ worker' = IdleWorker
              \/ worker.step = "lost" /\ UNCHANGED worker
  <2>1. op'.step \in {"rename", "unlink"} => UNCHANGED op /\ ~exec'
    BY <1>4 DEF Harmless, HandleDisconnect
  <2>2. op'.step = "unlink" => \A m \in Mappings : op'.batch = {m} => Twins(m)'
    BY <1>1, <1>4, <2>1 DEF TwinInv, Twins, Present
  <2>3. CASE UNCHANGED <<worker, exec>>
    BY <1>1, <1>4, <2>1, <2>2, <2>3 DEF TwinInv, Twins, Present
  <2>4. CASE worker' = IdleWorker
    BY <2>1, <2>2, <2>4 DEF TwinInv, IdleWorker, Busy
  <2>5. CASE worker.step = "lost" /\ UNCHANGED worker
    BY <2>1, <2>2, <2>5 DEF TwinInv, Busy
  <2> QED BY <1>4, <2>3, <2>4, <2>5
<1> QED BY <1>2, <1>3, <1>4, ControllerHarmless

LEMMA TwinWorker ==
  ASSUME FilesInv, Running, WorkerStep PROVE TwinInv'
<1> USE DEF FilesInv, TypeInv, WorkerFrame
<1>1. worker.step \in Busy
  BY DEF WorkerStep, StartPlan, MoveEntry, PublishEntry, DetachSource, Busy
<1>2. exec /\ exec' = exec /\ op' = op /\ phase' = phase
  BY <1>1 DEF TwinInv, WorkerStep, StartPlan, MoveEntry, PublishEntry, DetachSource
<1>3. op.step \notin {"rename", "unlink"} BY <1>2 DEF TwinInv
<1>4. SUFFICES
        /\ worker'.step = "staged" =>
             \A m \in Mappings : worker'.entry = {m} => Present(m.source)'
        /\ worker'.step = "published" =>
             \A m \in Mappings : worker'.entry = {m} => Twins(m)'
  BY <1>2, <1>3 DEF TwinInv
<1>5. StopMove => worker'.step = "reported" BY DEF StopMove, TypeOK, Workers
<1>6. \A m \in Mappings : FinishEntry(m) => worker'.step \in {"reported", "entry"}
  BY DEF FinishEntry, TypeOK, Workers
<1>7. CASE StartPlan
  <2>1. [worker EXCEPT !.step = "entry"].step = "entry" BY DEF TypeOK, Workers
  <2> QED BY <1>5, <1>7, <2>1 DEF StartPlan
<1>8. ASSUME NEW m \in Mappings, MoveEntry(m)
      PROVE  /\ worker'.step = "staged" =>
                  \A n \in Mappings : worker'.entry = {n} => Present(n.source)'
             /\ worker'.step # "published"
  <2>1. CASE /\ worker' = [worker EXCEPT !.step = "staged", !.entry = {m}]
             /\ Movable(m) /\ UNCHANGED fs
    <3>1. worker'.step = "staged" /\ worker'.entry = {m} BY <2>1 DEF TypeOK, Workers
    <3>2. \A n \in Mappings : worker'.entry = {n} => n = m BY <3>1
    <3> QED BY <2>1, <3>1, <3>2 DEF Movable, Present
  <2>2. CASE FinishEntry(m) \/ StopMove BY <1>5, <1>6, <2>2
  <2> QED BY <1>8, <2>1, <2>2 DEF MoveEntry
<1>9. ASSUME NEW m \in Mappings, PublishEntry(m)
      PROVE  /\ worker'.step # "staged"
             /\ worker'.step = "published" =>
                  \A n \in Mappings : worker'.entry = {n} => Twins(n)'
  <2>1. CASE /\ fs' = [fs EXCEPT ![m.target] = fs[m.source]]
             /\ worker' = [worker EXCEPT !.step = "published"]
    <3>1. worker'.step = "published" /\ worker'.entry = {m}
      BY <1>9, <2>1 DEF PublishEntry, TypeOK, Workers
    <3>2. Present(m.source) BY <1>9 DEF PublishEntry, TwinInv
    <3>3. Twins(m)' BY <2>1, <3>2, MappingPaths DEF Twins, Present, TypeOK
    <3>4. \A n \in Mappings : worker'.entry = {n} => n = m BY <3>1
    <3> QED BY <3>1, <3>3, <3>4
  <2>2. CASE StopMove BY <1>5, <2>2
  <2> QED BY <1>9, <2>1, <2>2 DEF PublishEntry
<1>10. ASSUME NEW m \in Mappings, DetachSource(m)
       PROVE  worker'.step \notin {"staged", "published"}
  BY <1>5, <1>6, <1>10 DEF DetachSource
<1> QED BY <1>7, <1>8, <1>9, <1>10 DEF WorkerStep

\* Nobody else changes a path that holds a file while a copy is on its way.
LEMMA TwinNext == FilesInv /\ [Next]_vars => TwinInv'
<1> SUFFICES ASSUME FilesInv, [Next]_vars PROVE TwinInv' OBVIOUS
<1> USE DEF FilesInv, TypeInv
<1>1. CASE ControllerStep BY <1>1, TwinController
<1>2. CASE Running /\ WorkerStep BY <1>2, TwinWorker
<1>3. CASE UserStep
  <2>1. Running /\ ~exec /\ op.step = "idle" /\ UNCHANGED <<fs, phase>>
    BY <1>3 DEF UserStep, BeginMove, DismissMove, Quit, ConfirmMove, SubmitRename, Play,
                Dispatching, Ready, Running
  <2>2. worker.step \notin Busy BY <2>1 DEF TwinInv
  <2>3. CASE BeginMove \/ Quit
    <3>1. Harmless BY <2>3, CallHarmless DEF BeginMove, Quit
    <3> QED BY <2>1, <2>2, <2>3, <3>1 DEF BeginMove, Quit, TwinInv, Harmless, Busy
  <2>4. CASE DismissMove \/ \E p \in Playable : Play(p)
    <3>1. UNCHANGED <<op, worker, exec>> BY <2>4 DEF DismissMove, Play
    <3> QED BY <2>1, <2>2, <3>1 DEF TwinInv, Busy
  <2>5. ASSUME NEW plan \in SUBSET Mappings, ConfirmMove(plan) PROVE TwinInv'
    <3>1. CASE /\ op' = [IdleOp EXCEPT !.step = "undo", !.batch = plan]
               /\ UNCHANGED <<exec, worker>>
      <4>1. op'.step = "undo" BY <3>1 DEF IdleOp
      <4> QED BY <2>1, <2>2, <3>1, <4>1 DEF TwinInv, Busy
    <3>2. CASE /\ exec' = TRUE /\ UNCHANGED op
               /\ worker' = [worker EXCEPT !.step = "queued", !.plan = plan, !.done = {}]
      <4>1. worker'.step = "queued" BY <3>2 DEF TypeOK, Workers
      <4> QED BY <2>1, <3>2, <4>1 DEF TwinInv
    <3>3. CASE UNCHANGED <<exec, worker, op>> BY <2>1, <2>2, <3>3 DEF TwinInv, Busy
    <3> QED BY <2>5, <3>1, <3>2, <3>3 DEF ConfirmMove
  <2>6. ASSUME NEW m \in Mappings, SubmitRename(m) PROVE TwinInv'
    <3>1. op'.step # "unlink"
      <4>1. [IdleOp EXCEPT !.step = "rename", !.batch = {m}].step = "rename" BY DEF IdleOp
      <4> QED BY <2>1, <2>6, <4>1 DEF SubmitRename
    <3>2. UNCHANGED <<exec, worker>> BY <2>6 DEF SubmitRename
    <3> QED BY <2>1, <2>2, <3>1, <3>2 DEF TwinInv, Busy
  <2> QED BY <1>3, <2>3, <2>4, <2>5, <2>6 DEF UserStep
<1>4. CASE Autosave
  <2>1. Harmless BY <1>4, CallHarmless DEF Autosave
  <2> QED BY <1>4, <2>1 DEF Autosave, TwinInv, Harmless, Running, Twins, Present
<1>5. ASSUME NEW publish \in BOOLEAN, SavePosition(publish) PROVE TwinInv'
  <2>1. Harmless BY <1>5, SaveStepType DEF SavePosition, IdleOp, Harmless
  <2> QED BY <1>5, <2>1 DEF SavePosition, TwinInv, Harmless, Running, Twins, Present
<1>6. CASE Start
  <2>1. op' = [IdleOp EXCEPT !.step = "flush", !.then = "start"] => Harmless
    BY DEF IdleOp, Harmless
  <2>2. Harmless BY <1>6, <2>1, CallHarmless DEF Start
  <2> QED BY <1>6, <2>2 DEF Start, TwinInv, Harmless, IdleWorker, Busy
<1>7. CASE Environment
  <2>1. CASE ExternalExit BY <2>1 DEF ExternalExit, Ready, TwinInv, Running, Twins, Present
  <2>2. CASE Crash BY <2>2 DEF Crash, TwinInv, Running
  <2>3. CASE WorkerPanic
    <3>1. worker'.step = "lost" BY <2>3 DEF WorkerPanic, TypeOK, Workers
    <3> QED BY <2>3, <3>1
            DEF WorkerPanic, WorkerFrame, TwinInv, Running, Busy, Twins, Present
  <2>4. ASSUME NEW p \in Paths, NEW f \in Files, Intrude(p, f) PROVE TwinInv'
    <3>1. \A m \in Mappings : Present(m.source) => Present(m.source)'
      BY <2>4, MappingPaths DEF Intrude, Present, TypeOK
    <3>2. \A m \in Mappings : Twins(m) => Twins(m)'
      BY <2>4, MappingPaths DEF Intrude, Present, Twins, TypeOK
    <3>3. UNCHANGED <<phase, exec, op, worker>> BY <2>4 DEF Intrude
    <3> QED BY <3>1, <3>2, <3>3 DEF TwinInv, Running
  <2>5. ASSUME NEW m \in Mappings, Repair(m) PROVE TwinInv'
    <3>1. UNCHANGED <<phase, exec, op, worker>> BY <2>5 DEF Repair
    <3>2. Running => ~exec /\ op.step = "idle"
      BY <2>5 DEF Repair, Dispatching, Ready, Running
    <3>3. Running => worker.step \notin Busy BY <3>2 DEF TwinInv
    <3> QED BY <3>1, <3>2, <3>3 DEF TwinInv, Running, Busy
  <2> QED BY <1>7, <2>1, <2>2, <2>3, <2>4, <2>5 DEF Environment
<1>8. CASE UNCHANGED vars BY <1>8 DEF vars, TwinInv, Running, Twins, Present
<1>9. CASE PlaybackStarted
  <2>1. Harmless BY <1>9 DEF PlaybackStarted, IdleOp, Harmless
  <2> QED BY <1>9, <2>1 DEF PlaybackStarted, TwinInv, Harmless, Running, Twins, Present
<1> QED BY <1>1, <1>2, <1>3, <1>4, <1>5, <1>6, <1>7, <1>8, <1>9 DEF Next

LEMMA KeepsNext == FilesInv /\ [Next]_vars => [KeepsFiles]_vars
<1> SUFFICES ASSUME FilesInv, [Next]_vars PROVE KeepsFiles \/ UNCHANGED vars OBVIOUS
<1> USE DEF FilesInv, TypeInv
<1>0. UNCHANGED fs => KeepsFiles BY DEF KeepsFiles
\* Taking one of two copies away keeps every file.
<1>1. ASSUME NEW m \in Mappings, Twins(m), NEW p \in {m.source, m.target},
             fs' = [fs EXCEPT ![p] = NoFile]
      PROVE  KeepsFiles
  <2>1. m.source \in Paths /\ m.target \in Paths /\ m.source # m.target BY MappingPaths
  <2>2. PICK q \in {m.source, m.target} : q # p BY <2>1
  <2>3. fs'[p] = NoFile /\ fs'[q] = fs[p] /\ q \in Paths
    BY <1>1, <2>1, <2>2 DEF Twins, TypeOK
  <2> QED BY <1>1, <2>1, <2>3 DEF KeepsFiles, TypeOK
\* So does putting a file where there is none.
<1>2. ASSUME NEW p \in Paths, ~Present(p), NEW f, fs' = [fs EXCEPT ![p] = f]
      PROVE  KeepsFiles
  BY <1>2 DEF KeepsFiles, Present, TypeOK
<1>3. CASE ControllerStep
  <2>1. ASSUME NEW m \in Mappings, LinkTarget(m) PROVE KeepsFiles
    BY <1>0, <1>2, <2>1, MappingPaths DEF LinkTarget, Movable
  <2>2. ASSUME NEW m \in Mappings, UnlinkSource(m) PROVE KeepsFiles
    <3>1. Twins(m) BY <1>3, <2>2 DEF UnlinkSource, TwinInv, ControllerStep
    <3> QED BY <1>1, <2>2, <3>1 DEF UnlinkSource
  <2> QED BY <1>0, <1>3, <2>1, <2>2, ControllerHarmless
<1>4. CASE Running /\ WorkerStep
  <2>1. CASE StartPlan BY <1>0, <2>1 DEF StartPlan
  <2>2. ASSUME NEW m \in Mappings, MoveEntry(m) PROVE KeepsFiles
    <3>1. CASE Movable(m) /\ fs' = Renamed(m)
      <4>1. m.source \in Paths /\ m.target \in Paths /\ m.source # m.target BY MappingPaths
      <4>2. fs'[m.source] = NoFile /\ fs'[m.target] = fs[m.source]
        BY <3>1, <4>1 DEF Renamed, TypeOK
      <4> QED BY <3>1, <4>1, <4>2 DEF Renamed, Movable, Present, KeepsFiles, TypeOK
    <3> QED BY <1>0, <2>2, <3>1 DEF MoveEntry
  <2>3. ASSUME NEW m \in Mappings, PublishEntry(m) PROVE KeepsFiles
    BY <1>0, <1>2, <2>3, MappingPaths DEF PublishEntry
  <2>4. ASSUME NEW m \in Mappings, DetachSource(m) PROVE KeepsFiles
    <3>1. Twins(m) BY <1>4, <2>4 DEF DetachSource, TwinInv
    <3> QED BY <1>0, <1>1, <2>4, <3>1 DEF DetachSource
  <2> QED BY <1>4, <2>1, <2>2, <2>3, <2>4 DEF WorkerStep
<1>5. CASE UserStep
  BY <1>0, <1>5 DEF UserStep, BeginMove, DismissMove, Quit, ConfirmMove, SubmitRename, Play
<1>6. CASE Autosave BY <1>0, <1>6 DEF Autosave
<1>7. ASSUME NEW publish \in BOOLEAN, SavePosition(publish) PROVE KeepsFiles
  BY <1>0, <1>7 DEF SavePosition
<1>8. CASE Start \/ PlaybackStarted BY <1>0, <1>8 DEF Start, PlaybackStarted
<1>9. CASE Environment
  <2>1. CASE ExternalExit \/ Crash \/ WorkerPanic
    BY <1>0, <2>1 DEF ExternalExit, Crash, WorkerPanic, WorkerFrame
  <2>2. ASSUME NEW p \in Paths, NEW f \in Files, Intrude(p, f) PROVE KeepsFiles
    BY <1>2, <2>2 DEF Intrude
  <2>3. ASSUME NEW m \in Mappings, Repair(m) PROVE KeepsFiles
    BY <1>1, <2>3 DEF Repair, Twins
  <2> QED BY <1>9, <2>1, <2>2, <2>3 DEF Environment
<1> QED BY <1>3, <1>4, <1>5, <1>6, <1>7, <1>8, <1>9 DEF Next

\* Whatever fails, stops or races, no step of any party loses a file or
\* overwrites one.
THEOREM NoFileLost == Spec => FilesKept
<1>1. Init => FilesInv BY TypeInit, TwinInit DEF FilesInv
<1>2. FilesInv /\ [Next]_vars => FilesInv'
  BY TypeNext, PositionNext, TwinNext DEF FilesInv, TypeInv
<1> QED BY <1>1, <1>2, KeepsNext, PTL DEF Spec, FilesKept

-----------------------------------------------------------------------------
(* The store never serves what it did not publish.  In the middle of a remap  *)
(* some documents are already replaced while the memory still holds the old   *)
(* ones: exactly those the remap has passed, and exactly by their remapping.  *)

\* The documents the running remap has replaced.
Ahead == {d \in Remapped : op.step = "journal" \/ (op.step = "history" /\ d = "progress")}

PublishInv ==
  Running /\ ~blocked =>
    \A d \in Docs \ stale :
      disk[d] = IF d \in Ahead THEN Remap(mem[d], op.batch) ELSE mem[d]

StoreInv == TypeInv /\ PublishInv

LEMMA PublishInit == Init => PublishInv
BY DEF Init, PublishInv, Ahead, Remapped, IdleOp

LEMMA DocumentFields ==
  ASSUME NEW ds \in Documents, NEW doc \in Docs, NEW new
  PROVE  \A d \in Docs : [ds EXCEPT ![doc] = new][d] = IF d = doc THEN new ELSE ds[d]
BY DEF Documents, Docs, Identities, Remapped

LEMMA PersistResult ==
  ASSUME TypeOK, NEW doc \in Docs, NEW new
  PROVE  /\ Persist(doc, new, "ok") =>
              /\ UNCHANGED stale
              /\ \A d \in Docs : disk'[d] = IF d = doc THEN new ELSE disk[d]
         /\ Persist(doc, new, "error") =>
              \A d \in Docs \ stale' : d \notin stale /\ disk'[d] = disk[d]
<1>1. ASSUME Persist(doc, new, "ok")
      PROVE  /\ UNCHANGED stale
             /\ \A d \in Docs : disk'[d] = IF d = doc THEN new ELSE disk[d]
  <2>1. disk \in Documents /\ disk' = [disk EXCEPT ![doc] = new] /\ UNCHANGED stale
    BY <1>1 DEF Persist, TypeOK
  <2>2. \A d \in Docs : [disk EXCEPT ![doc] = new][d] = IF d = doc THEN new ELSE disk[d]
    BY <2>1, DocumentFields
  <2> QED BY <2>1, <2>2
<1>2. ASSUME Persist(doc, new, "error")
      PROVE  \A d \in Docs \ stale' : d \notin stale /\ disk'[d] = disk[d]
  <2>1. CASE UNCHANGED <<disk, stale>> BY <2>1
  <2>2. CASE disk' = [disk EXCEPT ![doc] = new] /\ stale' = stale \cup {doc}
    BY <2>2, DocumentFields DEF TypeOK
  <2> QED BY <1>2, <2>1, <2>2 DEF Persist
<1> QED BY <1>1, <1>2

\* A step that leaves the store's documents and what it remembers of them alone,
\* and is not in the middle of a remap before or after.
LEMMA StoreIdle ==
  ASSUME TypeOK, PublishInv, Running, UNCHANGED <<disk, mem, stale, blocked>>,
         op.step \notin {"history", "journal"}, op'.step \notin {"history", "journal"}
  PROVE  PublishInv'
BY DEF PublishInv, Ahead

\* A write that failed: its document keeps its content, or is marked stale; a
\* remap that has already replaced documents blocks everything.
LEMMA FailedWrite ==
  ASSUME TypeOK, PublishInv, Running, NEW doc \in Docs, NEW new,
         Persist(doc, new, "error"), UNCHANGED mem,
         op'.step \notin {"history", "journal"},
         blocked' \/ (UNCHANGED blocked /\ op.step \notin {"history", "journal"})
  PROVE  PublishInv'
<1>1. CASE blocked' BY <1>1 DEF PublishInv
<1>2. CASE UNCHANGED blocked /\ op.step \notin {"history", "journal"}
  <2>1. \A d \in Docs \ stale' : d \notin stale /\ disk'[d] = disk[d] BY PersistResult
  <2> QED BY <1>2, <2>1 DEF PublishInv, Ahead
<1> QED BY <1>1, <1>2

\* The step an action ends in is not in the middle of a remap.
LEMMA CallAtRest ==
  /\ \A e \in BOOLEAN : \A t : CallPersist(e, t) \/ CallReconcile(e, t) =>
       op'.step \in {"persist", "reconcile"}
  /\ \A ok \in BOOLEAN : Return(ok) \/ Reconciled(ok) => op'.step \in {"idle", "reconcile"}
  /\ RemapFailed \/ FlushFailed => op'.step \in {"idle", "reconcile"}
<1>1. ASSUME NEW e \in BOOLEAN, NEW t
      PROVE  /\ CallPersist(e, t) => op'.step = "persist"
             /\ CallReconcile(e, t) => op'.step = "reconcile"
  BY DEF CallPersist, CallReconcile, IdleOp
<1>2. op' = IdleOp => op'.step = "idle" BY DEF IdleOp
<1>3. ASSUME NEW ok \in BOOLEAN, Return(ok) PROVE op'.step \in {"idle", "reconcile"}
  BY <1>1, <1>2, <1>3 DEF Return
<1>4. ASSUME NEW u \in BOOLEAN, Reconciled(u) PROVE op'.step \in {"idle", "reconcile"}
  BY <1>3, <1>4 DEF Reconciled
<1>5. RemapFailed => op'.step \in {"idle", "reconcile"} BY <1>3 DEF RemapFailed
<1>6. FlushFailed => op'.step \in {"idle", "reconcile"} BY <1>2, <1>5 DEF FlushFailed
<1> QED BY <1>1, <1>3, <1>4, <1>5, <1>6

LEMMA PublishRemapIdentities ==
  ASSUME StoreInv, Running, RemapIdentities PROVE PublishInv'
<1> USE DEF StoreInv, TypeInv
<1>0. op.step \in Remapped /\ op.step \in Docs
  BY DEF RemapIdentities, Docs, Identities
<1>1. CASE op.step = "progress" /\ RemapFailed /\ UNCHANGED <<disk, stale, faults>>
  <2>1. UNCHANGED <<mem, blocked>> \/ blocked' BY <1>1 DEF RemapFailed, TypeOK, Published
  <2>2. UNCHANGED mem BY <1>1 DEF RemapFailed
  <2> QED BY <1>1, <2>1, <2>2, StoreIdle, CallAtRest DEF PublishInv
<1>2. CASE /\ Persist(op.step, Remap(mem[op.step], op.batch), "ok")
           /\ op' = [op EXCEPT !.step = NextStep(@)]
           /\ UNCHANGED <<mem, blocked, queue, pending, failure, phase, selection>>
  <2>1. op'.step = NextStep(op.step) /\ op'.batch = op.batch BY <1>2 DEF TypeOK, Ops
  <2>2. /\ UNCHANGED stale
        /\ \A d \in Docs : disk'[d] = IF d = op.step THEN Remap(mem[op.step], op.batch)
                                                     ELSE disk[d]
    BY <1>0, <1>2, PersistResult
  <2>3. CASE op.step = "progress"
    <3>1. op'.step = "history" BY <2>1, <2>3 DEF NextStep
    <3>2. Ahead = {} /\ Ahead' = {"progress"} BY <2>3, <3>1 DEF Ahead, Remapped
    <3> QED BY <1>2, <2>1, <2>2, <2>3, <3>2 DEF PublishInv
  <2>4. CASE op.step = "history"
    <3>1. op'.step = "journal" BY <2>1, <2>4 DEF NextStep
    <3>2. Ahead = {"progress"} /\ Ahead' = {"progress", "history"}
      BY <2>4, <3>1 DEF Ahead, Remapped
    <3> QED BY <1>2, <2>1, <2>2, <2>4, <3>2 DEF PublishInv
  <2> QED BY <1>0, <2>3, <2>4 DEF Remapped
<1>3. CASE /\ Persist(op.step, Remap(mem[op.step], op.batch), "error")
           /\ RemapFailed
  <2>1. blocked' \/ (UNCHANGED blocked /\ op.step \notin {"history", "journal"})
    BY <1>3 DEF RemapFailed, Published, TypeOK
  <2>2. UNCHANGED mem /\ op'.step \notin {"history", "journal"}
    BY <1>3, CallAtRest DEF RemapFailed
  <2> QED BY <1>0, <1>3, <2>1, <2>2, FailedWrite
<1> QED BY <1>1, <1>2, <1>3 DEF RemapIdentities

LEMMA PublishRemapJournal ==
  ASSUME StoreInv, Running, RemapJournal PROVE PublishInv'
<1> USE DEF StoreInv, TypeInv
<1> DEFINE intents == mem.journal \ op.batch
<1>0. "journal" \in Docs /\ op.step = "journal" BY DEF Docs, RemapJournal
<1>1. CASE /\ Persist("journal", intents, "ok")
           /\ mem' = [mem EXCEPT !.progress = Remap(@, op.batch),
                                 !.history = Remap(@, op.batch), !.journal = intents]
           /\ IF ~op.scan
              THEN failure' = FALSE /\ pending' = (intents # {}) /\ Return(TRUE)
              ELSE IF op.untouched # {}
              THEN /\ op' = [op EXCEPT !.step = "discard", !.batch = {}]
                   /\ UNCHANGED <<failure, pending, phase, selection>>
              ELSE Reconciled(op.unresolved)
           /\ UNCHANGED <<queue, blocked>>
  <2>1. op' = [op EXCEPT !.step = "discard", !.batch = {}] => op'.step = "discard"
    BY DEF TypeOK, Ops
  <2>2. op.unresolved \in BOOLEAN BY DEF TypeOK, Ops
  <2>3. op'.step \notin {"history", "journal"} BY <1>1, <2>1, <2>2, CallAtRest
  <2>4. Ahead = Remapped /\ Ahead' = {} BY <1>0, <2>3 DEF Ahead, Remapped
  <2>5. /\ UNCHANGED stale
        /\ \A d \in Docs : disk'[d] = IF d = "journal" THEN intents ELSE disk[d]
    BY <1>0, <1>1, PersistResult
  <2>6. \A d \in Docs : mem'[d] = IF d = "journal" THEN intents
                                 ELSE IF d \in Remapped THEN Remap(mem[d], op.batch) ELSE mem[d]
    BY <1>1 DEF TypeOK, Documents, Docs, Identities, Remapped
  <2> QED BY <1>1, <2>4, <2>5, <2>6 DEF PublishInv, Docs, Identities, Remapped
<1>2. CASE Persist("journal", intents, "error") /\ RemapFailed
  <2>1. blocked' BY <1>0, <1>2 DEF RemapFailed, Published
  <2> QED BY <2>1 DEF PublishInv
<1> QED BY <1>1, <1>2 DEF RemapJournal

LEMMA FlushFailure ==
  ASSUME TypeOK, FlushFailed, op.step \in {"flush", "clear"}
  PROVE  UNCHANGED mem /\ UNCHANGED blocked /\ op'.step \notin {"history", "journal"}
<1>1. op'.step \notin {"history", "journal"} BY CallAtRest
<1>2. UNCHANGED mem /\ UNCHANGED blocked BY DEF FlushFailed, RemapFailed, Published, TypeOK
<1> QED BY <1>1, <1>2

LEMMA PublishFlush ==
  ASSUME StoreInv, Running, FlushProgress \/ FlushClear PROVE PublishInv'
<1> USE DEF StoreInv, TypeInv
<1>1. CASE FlushProgress
  <2> DEFINE rows == Merge(mem.progress, mem.checkpoint)
  <2> HIDE DEF rows
  <2>0. "progress" \in Docs /\ op.step = "flush" /\ Ahead = {}
    BY <1>1 DEF Docs, Identities, Remapped, FlushProgress, Ahead
  <2>1. CASE /\ IF rows = mem.progress THEN UNCHANGED <<disk, stale, faults>>
                                       ELSE Persist("progress", rows, "ok")
             /\ mem' = [mem EXCEPT !.progress = rows]
             /\ op' = [op EXCEPT !.step = "clear"]
             /\ UNCHANGED <<blocked, queue, pending, failure, phase, selection>>
    <3>1. op'.step = "clear" BY <2>1 DEF TypeOK, Ops
    <3>2. Ahead' = {} BY <3>1 DEF Ahead
    <3>3. \A d \in Docs : mem'[d] = IF d = "progress" THEN rows ELSE mem[d]
      BY <2>1 DEF TypeOK, Documents, Docs, Identities, Remapped
    <3>4. /\ UNCHANGED stale
          /\ \A d \in Docs : disk'[d] = disk[d] \/ (d = "progress" /\ disk'[d] = rows)
      BY <2>0, <2>1, PersistResult
    <3>5. disk'["progress"] = rows \/ (rows = mem["progress"] /\ UNCHANGED disk)
      BY <2>0, <2>1, PersistResult
    <3> QED BY <2>0, <2>1, <3>2, <3>3, <3>4, <3>5 DEF PublishInv
  <2>2. CASE Persist("progress", rows, "error") /\ FlushFailed
    BY <2>0, <2>2, FlushFailure, FailedWrite
  <2> QED BY <1>1, <2>1, <2>2 DEF FlushProgress, rows
<1>2. CASE FlushClear
  <2>0. "checkpoint" \in Docs /\ op.step = "clear" /\ Ahead = {}
    BY <1>2 DEF Docs, Identities, FlushClear, Ahead
  <2>1. CASE /\ Persist("checkpoint", {}, "ok")
             /\ mem' = [mem EXCEPT !.checkpoint = {}]
             /\ CASE op.batch # {} -> op' = [op EXCEPT !.step = "progress"]
                  [] op.then = "start" -> CallReconcile(TRUE, "none")
                  [] op.then \in {"checkpoint", "publish"} -> op' = [op EXCEPT !.step = "note"]
                  [] OTHER -> op' = IdleOp
             /\ UNCHANGED <<blocked, queue, pending, failure, phase, selection>>
    <3>1. op'.step \notin {"history", "journal"}
      <4>1. op' = [op EXCEPT !.step = "progress"] => op'.step = "progress"
        BY DEF TypeOK, Ops
      <4>2. op' = [op EXCEPT !.step = "note"] => op'.step = "note" BY DEF TypeOK, Ops
      <4>3. op' = IdleOp => op'.step = "idle" BY DEF IdleOp
      <4>4. CallReconcile(TRUE, "none") => op'.step \in {"persist", "reconcile"}
        BY CallAtRest
      <4> QED BY <2>1, <4>1, <4>2, <4>3, <4>4
    <3>2. Ahead' = {} BY <3>1 DEF Ahead
    <3>3. \A d \in Docs : mem'[d] = IF d = "checkpoint" THEN {} ELSE mem[d]
      BY <2>1 DEF TypeOK, Documents, Docs, Identities, Remapped
    <3>4. /\ UNCHANGED stale
          /\ \A d \in Docs : disk'[d] = IF d = "checkpoint" THEN {} ELSE disk[d]
      BY <2>0, <2>1, PersistResult
    <3> QED BY <2>0, <2>1, <3>2, <3>3, <3>4 DEF PublishInv
  <2>2. CASE Persist("checkpoint", {}, "error") /\ FlushFailed
    BY <2>0, <2>2, FlushFailure, FailedWrite
  <2> QED BY <1>2, <2>1, <2>2 DEF FlushClear
<1> QED BY <1>1, <1>2

\* The writes that are not part of a remap: one document, and the memory follows
\* exactly when the write succeeded.
LEMMA SingleWrite ==
  ASSUME StoreInv, Running, NEW doc \in Docs, NEW new,
         \/ Persist(doc, new, "ok") /\ mem' = [mem EXCEPT ![doc] = new]
         \/ Persist(doc, new, "error") /\ UNCHANGED mem,
         UNCHANGED blocked,
         op.step \notin {"history", "journal"}, op'.step \notin {"history", "journal"}
  PROVE  PublishInv'
<1> USE DEF StoreInv, TypeInv
<1>1. CASE Persist(doc, new, "ok") /\ mem' = [mem EXCEPT ![doc] = new]
  <2>1. Ahead = {} /\ Ahead' = {} BY DEF Ahead
  <2>2. /\ UNCHANGED stale
        /\ \A d \in Docs : disk'[d] = IF d = doc THEN new ELSE disk[d]
    BY <1>1, PersistResult
  <2>3. mem \in Documents BY DEF TypeOK
  <2>4. \A d \in Docs : mem'[d] = IF d = doc THEN new ELSE mem[d]
    BY <1>1, <2>3, DocumentFields
  <2> QED BY <2>1, <2>2, <2>4 DEF PublishInv
<1>2. CASE Persist(doc, new, "error") /\ UNCHANGED mem
  BY <1>2, FailedWrite
<1> QED BY <1>1, <1>2

LEMMA PublishController ==
  ASSUME StoreInv, ControllerStep PROVE PublishInv'
<1> USE DEF StoreInv, TypeInv
<1>0. Running /\ \A d \in Docs : d \in Docs BY DEF ControllerStep
<1>1. CASE PersistPending
  <2>1. op' = [op EXCEPT !.step = FirstStep, !.batch = queue] =>
          op'.step \notin {"history", "journal"}
    BY DEF TypeOK, Ops, FirstStep
  <2>2. op.explicit \in BOOLEAN BY DEF TypeOK, Ops
  <2>3. op'.step \notin {"history", "journal"} BY <1>1, <2>1, <2>2, CallAtRest DEF PersistPending
  <2> QED BY <1>0, <1>1, <2>3, StoreIdle DEF PersistPending
<1>2. CASE Reconcile
  <2>1. op' = [op EXCEPT !.step = IF Completed(mem.journal) # {}
                                  THEN FirstStep ELSE "discard",
                         !.batch = Completed(mem.journal), !.scan = TRUE,
                         !.untouched = Untouched(mem.journal),
                         !.unresolved = (Unresolved(mem.journal) # {})] =>
          op'.step \notin {"history", "journal"}
    BY DEF TypeOK, Ops, FirstStep
  <2>2. (Unresolved(mem.journal) # {}) \in BOOLEAN OBVIOUS
  <2>3. op'.step \notin {"history", "journal"} BY <1>2, <2>1, <2>2, CallAtRest DEF Reconcile
  <2> QED BY <1>0, <1>2, <2>3, StoreIdle DEF Reconcile
<1>3. CASE RemapIdentities BY <1>0, <1>3, PublishRemapIdentities
<1>4. CASE RemapJournal BY <1>0, <1>4, PublishRemapJournal
<1>5. CASE FlushProgress \/ FlushClear BY <1>0, <1>5, PublishFlush
<1>6. CASE NotePosition
  <2>1. [IdleOp EXCEPT !.step = "flush"].step = "flush" /\ IdleOp.step = "idle" BY DEF IdleOp
  <2>2. op.step = "note" /\ op'.step \in {"flush", "idle"} BY <1>6, <2>1 DEF NotePosition
  <2>3. "checkpoint" \in Docs BY DEF Docs, Identities
  <2> QED BY <1>0, <1>6, <2>2, <2>3, SingleWrite DEF NotePosition
<1>7. CASE DiscardUntouched
  <2>1. op.unresolved \in BOOLEAN BY DEF TypeOK, Ops
  <2>2. op.step = "discard" /\ op'.step \in {"idle", "reconcile"}
    BY <1>7, <2>1, CallAtRest DEF DiscardUntouched
  <2>3. "journal" \in Docs BY DEF Docs
  <2> QED BY <1>0, <1>7, <2>2, <2>3, SingleWrite DEF DiscardUntouched
<1>8. CASE UndoIntent
  <2>1. op.step = "undo" /\ op'.step = "idle" BY <1>8 DEF UndoIntent, IdleOp
  <2>2. "journal" \in Docs BY DEF Docs
  <2> QED BY <1>0, <1>8, <2>1, <2>2, SingleWrite DEF UndoIntent
<1>9. ASSUME NEW m \in Mappings, LinkTarget(m) PROVE PublishInv'
  <2>1. op.step = "rename" /\ op'.step \in {"unlink", "undo"} BY <1>9 DEF LinkTarget, TypeOK, Ops
  <2> QED BY <1>0, <1>9, <2>1, StoreIdle DEF LinkTarget
<1>10. ASSUME NEW m \in Mappings, UnlinkSource(m) PROVE PublishInv'
  <2>1. op' = [op EXCEPT !.step = "undo"] => op'.step = "undo" BY DEF TypeOK, Ops
  <2>2. op.step = "unlink" /\ op'.step \notin {"history", "journal"}
    BY <1>10, <2>1, CallAtRest DEF UnlinkSource
  <2> QED BY <1>0, <1>10, <2>2, StoreIdle DEF UnlinkSource
<1>11. CASE HandleResponse
  <2>1. op.step = "idle" /\ op'.step \notin {"history", "journal"}
    BY <1>11, CallAtRest DEF HandleResponse
  <2> QED BY <1>0, <1>11, <2>1, StoreIdle DEF HandleResponse
<1>12. CASE HandleDisconnect
  BY <1>0, <1>12, StoreIdle DEF HandleDisconnect
<1>13. CASE Shutdown
  <2>1. op.step = "idle" /\ op'.step \notin {"history", "journal"}
    BY <1>13, CallAtRest DEF Shutdown
  <2> QED BY <1>0, <1>13, <2>1, StoreIdle DEF Shutdown
<1>14. CASE InsertHistory
  <2>1. op.step = "insert" /\ op'.step \notin {"history", "journal"}
    BY <1>14, SaveStepType DEF InsertHistory, TypeOK, Ops
  <2>2. CASE UNCHANGED <<disk, mem, stale, faults>>
    BY <1>0, <1>14, <2>1, <2>2, StoreIdle DEF InsertHistory
  <2>3. "history" \in Docs BY DEF Docs, Identities, Remapped
  <2>4. [mem EXCEPT !.history = mem.history \cup {playing}]
          = [mem EXCEPT !["history"] = mem.history \cup {playing}]
    OBVIOUS
  <2> QED BY <1>0, <1>14, <2>1, <2>2, <2>3, <2>4, SingleWrite DEF InsertHistory
<1> QED BY <1>1, <1>2, <1>3, <1>4, <1>5, <1>6, <1>7, <1>8, <1>9, <1>10, <1>11, <1>12, <1>13,
           <1>14
        DEF ControllerStep

LEMMA PublishUser ==
  ASSUME StoreInv, UserStep PROVE PublishInv'
<1> USE DEF StoreInv, TypeInv
<1>0. Running /\ op.step = "idle" /\ UNCHANGED blocked
  BY DEF UserStep, BeginMove, DismissMove, Quit, ConfirmMove, SubmitRename, Play,
         Dispatching, Ready, Running
<1>1. CASE BeginMove \/ Quit
  <2>1. op'.step \notin {"history", "journal"} BY <1>1, CallAtRest DEF BeginMove, Quit
  <2> QED BY <1>0, <1>1, <2>1, StoreIdle DEF BeginMove, Quit
<1>2. CASE DismissMove \/ \E p \in Playable : Play(p)
  <2>1. UNCHANGED <<op, disk, mem, stale>> BY <1>2 DEF DismissMove, Play
  <2> QED BY <1>0, <2>1, StoreIdle
\* journal_local_move_intent is a single write of the journal.
<1>3. ASSUME NEW ms \in SUBSET Mappings, NEW outcome \in {"ok", "error"},
             JournalIntent(ms, outcome), op'.step \notin {"history", "journal"}
      PROVE  PublishInv'
  <2>1. "journal" \in Docs BY DEF Docs
  <2>2. outcome = "ok" => mem' = [mem EXCEPT !["journal"] = mem.journal \cup ms]
    BY <1>3 DEF JournalIntent
  <2>3. outcome = "error" => UNCHANGED mem BY <1>3 DEF JournalIntent
  <2> QED BY <1>0, <1>3, <2>1, <2>2, <2>3, SingleWrite DEF JournalIntent
<1>4. ASSUME NEW plan \in SUBSET Mappings, ConfirmMove(plan) PROVE PublishInv'
  <2>1. [IdleOp EXCEPT !.step = "undo", !.batch = plan].step = "undo" BY DEF IdleOp
  <2>2. op'.step \notin {"history", "journal"} BY <1>0, <1>4, <2>1 DEF ConfirmMove
  <2> QED BY <1>3, <1>4, <2>2 DEF ConfirmMove
<1>5. ASSUME NEW m \in Mappings, SubmitRename(m) PROVE PublishInv'
  <2>1. [IdleOp EXCEPT !.step = "rename", !.batch = {m}].step = "rename" BY DEF IdleOp
  <2>2. op'.step \notin {"history", "journal"} BY <1>0, <1>5, <2>1 DEF SubmitRename
  <2>3. {m} \in SUBSET Mappings OBVIOUS
  <2> QED BY <1>3, <1>5, <2>2, <2>3 DEF SubmitRename
<1> QED BY <1>1, <1>2, <1>4, <1>5 DEF UserStep

\* Worker, environment and restart do not write, or begin anew from the disk.
LEMMA PublishNext == StoreInv /\ [Next]_vars => PublishInv'
<1> SUFFICES ASSUME StoreInv, [Next]_vars PROVE PublishInv' OBVIOUS
<1> USE DEF StoreInv, TypeInv
<1>0. UNCHANGED <<disk, mem, stale, blocked, op>> /\ (Running' => Running) => PublishInv'
  BY DEF PublishInv, Ahead
<1>1. CASE ControllerStep BY <1>1, PublishController
<1>2. CASE UserStep BY <1>2, PublishUser
<1>3. CASE Running /\ WorkerStep
  BY <1>0, <1>3 DEF WorkerStep, StartPlan, MoveEntry, PublishEntry, DetachSource, WorkerFrame
<1>4. CASE Autosave
  <2>1. op'.step \notin {"history", "journal"} BY <1>4, CallAtRest DEF Autosave
  <2> QED BY <1>4, <2>1, StoreIdle DEF Autosave, Ready, Running
<1>5. ASSUME NEW publish \in BOOLEAN, SavePosition(publish) PROVE PublishInv'
  <2>1. op'.step \notin {"history", "journal"}
    BY <1>5, SaveStepType DEF SavePosition, IdleOp
  <2> QED BY <1>5, <2>1, StoreIdle DEF SavePosition, Ready, Running
<1>6. CASE Start
  <2>1. op' = [IdleOp EXCEPT !.step = "flush", !.then = "start"] => op'.step = "flush"
    BY DEF IdleOp
  <2>2. op'.step \notin {"history", "journal"} BY <1>6, <2>1, CallAtRest DEF Start
  <2>3. Ahead' = {} BY <2>2 DEF Ahead
  <2> QED BY <1>6, <2>3 DEF Start, PublishInv
<1>7. CASE Environment
  <2>1. UNCHANGED <<disk, mem, stale, blocked, op>> /\ (Running' => Running)
    BY <1>7 DEF Environment, ExternalExit, Crash, WorkerPanic, Intrude, Repair, WorkerFrame,
                Ready, Running
  <2> QED BY <1>0, <2>1
<1>8. CASE UNCHANGED vars BY <1>0, <1>8 DEF vars, Running
<1>9. CASE PlaybackStarted
  <2>1. op'.step \notin {"history", "journal"} BY <1>9 DEF PlaybackStarted, IdleOp
  <2> QED BY <1>9, <2>1, StoreIdle DEF PlaybackStarted, Ready, Running
<1> QED BY <1>1, <1>2, <1>3, <1>4, <1>5, <1>6, <1>7, <1>8, <1>9 DEF Next

\* Between calls, memory and file of every document that may still be written
\* are the same.
THEOREM PublishedIsServed == Spec => []MemoryPublished
<1>1. Init => StoreInv BY TypeInit, PublishInit DEF StoreInv
<1>2. StoreInv /\ [Next]_vars => StoreInv'
  BY TypeNext, PositionNext, PublishNext DEF StoreInv, TypeInv
<1>3. StoreInv => MemoryPublished BY DEF StoreInv, PublishInv, MemoryPublished, Ahead, Running
<1> QED BY <1>1, <1>2, <1>3, PTL DEF Spec

-----------------------------------------------------------------------------
(* No unfinished intent is forgotten.  Only two things withdraw an intent     *)
(* without looking at the others: a rename that failed and a move that no     *)
(* worker takes any more.  Without them an intent stays flagged, or queued,   *)
(* until a remap or a reconciliation of the whole journal has dealt with it.  *)

NeverUndone == ~Renames /\ (~WorkerMayDie \/ MaxFaults = 0)

Flagged == mem.journal # {} => pending \/ queue # {}

\* What the callers of a persist or a reconciliation do afterwards.
Continuations == {"none", "reconcile", "begin", "quit", "exit"}

\* The call o has nothing in hand.
Unladen(o) ==
  /\ o.step = "idle" => o = IdleOp
  /\ o.step \in {"persist", "reconcile"} => o.then \in Continuations
  /\ o.step \in {"idle", "persist", "reconcile", "flush", "insert", "note"} /\ o.batch = {} /\ ~o.scan

FlagInv ==
  Running =>
    /\ op.step = "idle" => op = IdleOp
    /\ op.step \notin {"rename", "unlink", "undo"} /\ worker.step # "lost"
    /\ op.step \in {"persist", "reconcile", "insert", "note"} => op.batch = {}
    /\ op.batch = {} /\ op.step # "discard" => ~op.scan
    /\ op.step \in {"persist", "reconcile"} \/ op.batch # {} => op.then \in Continuations
    /\ op.step \in {"progress", "history", "journal"} => op.batch # {}
    /\ op.step = "discard" => op.batch = {} /\ op.scan
    /\ Flagged \/ (op.batch # {} /\ ~op.scan)
    /\ op.scan => pending /\ (op.unresolved \/ mem.journal \subseteq op.batch \cup op.untouched)

LEMMA FlagInit == Init => FlagInv
BY DEF Init, FlagInv, Flagged, IdleOp, IdleWorker

LEMMA IdleUnladen ==
  Unladen(IdleOp) /\ Unladen([IdleOp EXCEPT !.step = "flush"])
BY DEF Unladen, IdleOp

LEMMA CallUnladen ==
  ASSUME NEW e, NEW t \in Continuations, CallPersist(e, t) \/ CallReconcile(e, t)
  PROVE  Unladen(op')
BY DEF CallPersist, CallReconcile, IdleOp, Unladen

LEMMA ReturnUnladen ==
  ASSUME NEW ok, Return(ok) PROVE Unladen(op')
BY CallUnladen, IdleUnladen DEF Return, Continuations

\* A call with nothing in hand leaves the flag to tell of the journal.
LEMMA UnladenFlag ==
  ASSUME Unladen(op'), Flagged', worker'.step # "lost" PROVE FlagInv'
BY DEF FlagInv, Unladen

\* The intents that were neither remapped nor discarded are the unresolved ones.
LEMMA IntentKinds ==
  ASSUME NEW ms PROVE ms \subseteq Completed(ms) \cup Untouched(ms) \cup Unresolved(ms)
BY DEF Completed, Untouched, Unresolved, Movable

LEMMA FailedFlag ==
  ASSUME TypeOK, Running, FlagInv, RemapFailed, op.batch # {}, UNCHANGED worker PROVE FlagInv'
<1>1. Unladen(op') /\ UNCHANGED mem BY ReturnUnladen DEF RemapFailed
<1>2. Flagged' BY DEF RemapFailed, Flagged
<1> QED BY <1>1, <1>2, UnladenFlag DEF FlagInv

LEMMA FlushFailedFlag ==
  ASSUME TypeOK, Running, FlagInv, FlushFailed, UNCHANGED worker PROVE FlagInv'
<1>1. CASE op.batch # {} BY <1>1, FailedFlag DEF FlushFailed
<1>2. CASE op.batch = {}
  <2>1. Unladen(op') /\ UNCHANGED <<mem, queue, pending>>
    BY <1>2, IdleUnladen DEF FlushFailed
  <2>2. Flagged' BY <1>2, <2>1 DEF FlagInv, Flagged
  <2> QED BY <2>1, <2>2, UnladenFlag DEF FlagInv
<1> QED BY <1>1, <1>2

\* A call that goes on with what it has in hand.
LEMMA LadenFlag ==
  ASSUME TypeOK, Running, FlagInv, NEW step, op.step # "discard", op' = [op EXCEPT !.step = step],
         UNCHANGED <<worker, queue, pending>>, mem'.journal = mem.journal,
         \/ step \in {"progress", "history", "journal"} /\ op.batch # {}
         \/ step = "clear"
         \/ step \in {"flush", "note"} /\ op.batch = {}
  PROVE  FlagInv'
<1>1. /\ op'.step = step /\ op'.batch = op.batch /\ op'.scan = op.scan
      /\ op'.untouched = op.untouched /\ op'.unresolved = op.unresolved /\ op'.then = op.then
  BY DEF TypeOK, Ops
<1> QED BY <1>1 DEF FlagInv, Flagged

LEMMA FlagPersistPending ==
  ASSUME TypeOK, Running, FlagInv, PersistPending PROVE FlagInv'
<1>0. /\ op.step = "persist" /\ op.batch = {} /\ ~op.scan /\ Flagged
      /\ worker.step # "lost" /\ UNCHANGED <<mem, pending, worker>>
  BY DEF PersistPending, FlagInv
<1>1. CASE Unladen(op') /\ UNCHANGED queue
  BY <1>0, <1>1, UnladenFlag DEF Flagged
<1>2. CASE queue # {} /\ op' = [op EXCEPT !.step = FirstStep, !.batch = queue]
  <2>1. /\ op'.step = FirstStep /\ op'.batch = queue /\ op'.scan = op.scan /\ op'.then = op.then
    BY <1>2 DEF TypeOK, Ops
  <2>2. FirstStep \in {"progress", "flush"} BY DEF FirstStep
  <2>3. ~op'.scan /\ op'.batch # {} BY <1>0, <1>2, <2>1
  <2> QED BY <1>0, <2>1, <2>2, <2>3 DEF FlagInv
<1>3. CASE Return(FALSE) /\ UNCHANGED queue BY <1>1, <1>3, ReturnUnladen
<1>4. CASE CallReconcile(op.explicit, op.then) /\ UNCHANGED queue
  BY <1>0, <1>1, <1>4, CallUnladen DEF FlagInv
<1> QED BY <1>2, <1>3, <1>4 DEF PersistPending

LEMMA FlagReconcile ==
  ASSUME TypeOK, Running, FlagInv, Reconcile PROVE FlagInv'
<1>0. /\ op.step = "reconcile" /\ op.batch = {} /\ ~op.scan /\ Flagged
      /\ worker.step # "lost" /\ UNCHANGED <<mem, queue, worker>>
  BY DEF Reconcile, FlagInv
<1> DEFINE found == Completed(mem.journal)
           left == Untouched(mem.journal)
           open == Unresolved(mem.journal) # {}
<1>1. mem.journal \subseteq found \cup left \/ open BY IntentKinds
<1>2. CASE Unladen(op') /\ UNCHANGED pending
  BY <1>0, <1>2, UnladenFlag DEF Flagged
<1>3. CASE \E ok \in BOOLEAN : Return(ok) /\ UNCHANGED pending BY <1>2, <1>3, ReturnUnladen
<1>4. CASE found \cup left = {} /\ Reconciled(open)
  <2>1. Unladen(op') /\ pending' = open BY <1>4, ReturnUnladen DEF Reconciled
  <2>2. Flagged' BY <1>0, <1>1, <1>4, <2>1 DEF Flagged
  <2> QED BY <1>0, <2>1, <2>2, UnladenFlag
<1>5. CASE /\ pending /\ UNCHANGED pending
           /\ op' = [op EXCEPT !.step = IF found # {} THEN FirstStep ELSE "discard",
                               !.batch = found, !.scan = TRUE, !.untouched = left,
                               !.unresolved = open]
  <2>1. /\ op'.step = IF found # {} THEN FirstStep ELSE "discard"
        /\ op'.batch = found /\ op'.scan /\ op'.untouched = left /\ op'.unresolved = open
        /\ op'.then = op.then
    BY <1>5 DEF TypeOK, Ops
  <2> HIDE DEF found, left, open
  <2>2. FirstStep \in {"progress", "flush"} BY DEF FirstStep
  <2> QED BY <1>0, <1>1, <1>5, <2>1, <2>2 DEF FlagInv, Flagged
<1> QED BY <1>3, <1>4, <1>5 DEF Reconcile

LEMMA FlagFlush ==
  ASSUME TypeOK, Running, FlagInv, FlushProgress \/ FlushClear PROVE FlagInv'
<1>0. UNCHANGED worker BY DEF FlushProgress, FlushClear
<1>1. CASE FlushFailed BY <1>0, <1>1, FlushFailedFlag
<1>2. CASE /\ op.step = "flush" /\ \E rows : mem' = [mem EXCEPT !.progress = rows]
           /\ op' = [op EXCEPT !.step = "clear"] /\ UNCHANGED <<queue, pending>>
  BY <1>0, <1>2, LadenFlag DEF TypeOK, Documents
<1>3. CASE /\ mem' = [mem EXCEPT !.checkpoint = {}] /\ UNCHANGED <<queue, pending>>
           /\ op.step = "clear"
           /\ CASE op.batch # {} -> op' = [op EXCEPT !.step = "progress"]
                [] op.then = "start" -> CallReconcile(TRUE, "none")
                [] op.then \in {"checkpoint", "publish"} -> op' = [op EXCEPT !.step = "note"]
                [] OTHER -> op' = IdleOp
  <2>1. mem'.journal = mem.journal BY <1>3 DEF TypeOK, Documents
  <2>2. CASE op.batch # {}
    <3>1. op.then \in Continuations BY <2>2 DEF FlagInv
    <3>2. op' = [op EXCEPT !.step = "progress"] BY <1>3, <2>2, <3>1 DEF Continuations
    <3> QED BY <1>0, <1>3, <2>1, <2>2, <3>2, LadenFlag
  <2>3. CASE op.batch = {} /\ op' = [op EXCEPT !.step = "note"]
    BY <1>0, <1>3, <2>1, <2>3, LadenFlag
  <2>4. CASE op.batch = {} /\ Unladen(op')
    <3>1. Flagged' BY <1>3, <2>1, <2>4 DEF FlagInv, Flagged
    <3> QED BY <1>0, <2>4, <3>1, UnladenFlag DEF FlagInv
  <2> QED BY <1>3, <2>2, <2>3, <2>4, CallUnladen, IdleUnladen DEF Continuations
<1> QED BY <1>1, <1>2, <1>3 DEF FlushProgress, FlushClear

LEMMA FlagRemapIdentities ==
  ASSUME TypeOK, Running, FlagInv, RemapIdentities PROVE FlagInv'
<1>0. op.step \in {"progress", "history"} /\ op.batch # {} /\ UNCHANGED worker
  BY DEF RemapIdentities, FlagInv, Remapped
<1>1. CASE RemapFailed BY <1>0, <1>1, FailedFlag
<1>2. CASE op' = [op EXCEPT !.step = NextStep(@)] /\ UNCHANGED <<mem, queue, pending>>
  <2>1. NextStep(op.step) \in {"history", "journal"} BY <1>0 DEF NextStep
  <2>2. op' = [op EXCEPT !.step = NextStep(op.step)] BY <1>2
  <2> QED BY <1>0, <1>2, <2>1, <2>2, LadenFlag
<1> QED BY <1>1, <1>2 DEF RemapIdentities

\* The end of a reconciliation: whatever is left of the journal is unresolved.
LEMMA ReconciledFlag ==
  ASSUME TypeOK, Reconciled(op.unresolved), worker'.step # "lost",
         op.unresolved \/ mem'.journal = {}
  PROVE  FlagInv'
<1>1. Unladen(op') /\ pending' = op.unresolved BY ReturnUnladen DEF Reconciled
<1>2. Flagged' BY <1>1 DEF Flagged
<1> QED BY <1>1, <1>2, UnladenFlag

LEMMA FlagRemapJournal ==
  ASSUME TypeOK, Running, FlagInv, RemapJournal PROVE FlagInv'
<1> DEFINE left == mem.journal \ op.batch
<1>0. op.step = "journal" /\ op.batch # {} /\ worker.step # "lost" /\ UNCHANGED worker
  BY DEF RemapJournal, FlagInv
<1>1. CASE RemapFailed BY <1>0, <1>1, FailedFlag
<1>2. CASE /\ mem' = [mem EXCEPT !.progress = Remap(@, op.batch),
                                 !.history = Remap(@, op.batch), !.journal = left]
           /\ IF ~op.scan
              THEN failure' = FALSE /\ pending' = (left # {}) /\ Return(TRUE)
              ELSE IF op.untouched # {}
              THEN /\ op' = [op EXCEPT !.step = "discard", !.batch = {}]
                   /\ UNCHANGED <<failure, pending, phase, selection>>
              ELSE Reconciled(op.unresolved)
           /\ UNCHANGED queue
  <2>1. mem'.journal = left BY <1>2 DEF TypeOK, Documents
  <2>2. CASE ~op.scan
    <3>1. Unladen(op') /\ pending' = (left # {}) BY <1>2, <2>2, ReturnUnladen
    <3>2. Flagged' BY <2>1, <3>1 DEF Flagged
    <3> QED BY <1>0, <3>1, <3>2, UnladenFlag
  <2>3. CASE op.scan /\ op.untouched # {}
    <3>1. /\ op'.step = "discard" /\ op'.batch = {} /\ op'.scan = op.scan
          /\ op'.untouched = op.untouched /\ op'.unresolved = op.unresolved
          /\ op'.then = op.then /\ UNCHANGED pending
      BY <1>2, <2>3 DEF TypeOK, Ops
    <3>2. op.scan' /\ pending' BY <2>3, <3>1 DEF FlagInv
    <3>3. op'.unresolved \/ mem'.journal \subseteq op'.untouched BY <2>1, <2>3, <3>1 DEF FlagInv
    <3> HIDE DEF left
    <3> QED BY <1>0, <3>1, <3>2, <3>3 DEF FlagInv, Flagged
  <2>4. CASE op.scan /\ op.untouched = {}
    <3>1. op.unresolved \/ left = {} BY <2>4 DEF FlagInv
    <3> QED BY <1>0, <1>2, <2>1, <2>4, <3>1, ReconciledFlag
  <2> QED BY <2>2, <2>3, <2>4
<1> QED BY <1>1, <1>2 DEF RemapJournal

LEMMA FlagDiscardUntouched ==
  ASSUME TypeOK, Running, FlagInv, DiscardUntouched PROVE FlagInv'
<1>0. /\ op.step = "discard" /\ op.batch = {} /\ op.scan /\ worker.step # "lost"
      /\ op.unresolved \/ mem.journal \subseteq op.untouched
      /\ UNCHANGED worker
  BY DEF DiscardUntouched, FlagInv
<1>1. CASE mem' = [mem EXCEPT !.journal = mem.journal \ op.untouched] /\ Reconciled(op.unresolved)
  <2>1. mem'.journal = mem.journal \ op.untouched BY <1>1 DEF TypeOK, Documents
  <2> QED BY <1>0, <1>1, <2>1, ReconciledFlag
<1>2. CASE pending' = TRUE /\ Return(FALSE)
  <2>1. Unladen(op') BY <1>2, ReturnUnladen
  <2>2. Flagged' BY <1>2 DEF Flagged
  <2> QED BY <1>0, <2>1, <2>2, UnladenFlag
<1> QED BY <1>1, <1>2 DEF DiscardUntouched

\* The controller's calls from the idle loop, and the one that ends there.
LEMMA FlagRest ==
  ASSUME TypeOK, Running, FlagInv,
         NotePosition \/ HandleResponse \/ HandleDisconnect \/ Shutdown
  PROVE  FlagInv'
<1>0. op.step \in {"idle", "note"} /\ op.batch = {} /\ Flagged /\ worker.step # "lost"
  <2>1. op.step \in {"idle", "note"}
    BY DEF NotePosition, HandleResponse, HandleDisconnect, Shutdown
  <2>2. op.batch = {} BY <2>1 DEF FlagInv, IdleOp
  <2> QED BY <2>1, <2>2 DEF FlagInv
<1>1. CASE NotePosition
  <2>1. Unladen(op') BY <1>1, IdleUnladen DEF NotePosition
  <2>2. mem'.journal = mem.journal BY <1>1 DEF NotePosition, TypeOK, Documents
  <2>3. Flagged' BY <1>0, <1>1, <2>2 DEF NotePosition, Flagged
  <2> QED BY <1>0, <1>1, <2>1, <2>3, UnladenFlag DEF NotePosition
<1>2. CASE HandleResponse
  <2>1. Unladen(op') BY <1>2, CallUnladen DEF HandleResponse, Continuations
  <2>2. Flagged' BY <1>0, <1>2 DEF HandleResponse, ApplyCompleted, Flagged
  <2>3. worker'.step # "lost" BY <1>2 DEF HandleResponse, IdleWorker
  <2> QED BY <2>1, <2>2, <2>3, UnladenFlag
<1>3. CASE HandleDisconnect BY <1>0, <1>3 DEF HandleDisconnect
<1>4. CASE Shutdown
  <2>1. Unladen(op') BY <1>4, CallUnladen DEF Shutdown, Continuations
  <2> QED BY <1>0, <1>4, <2>1, UnladenFlag DEF Shutdown, Flagged
<1> QED BY <1>1, <1>2, <1>3, <1>4

LEMMA FlagInsertHistory ==
  ASSUME TypeOK, Running, FlagInv, InsertHistory PROVE FlagInv'
<1>1. op.batch = {} /\ op.step # "discard" BY DEF InsertHistory, FlagInv
<1>2. mem'.journal = mem.journal BY DEF InsertHistory, TypeOK, Documents
<1>3. op' = [op EXCEPT !.step = SaveStep(op.row)] /\ UNCHANGED <<worker, queue, pending>>
  BY DEF InsertHistory
<1>4. SaveStep(op.row) \in {"flush", "note"} BY SaveStepType
<1> QED BY <1>1, <1>2, <1>3, <1>4, LadenFlag

LEMMA FlagController ==
  ASSUME TypeOK, FlagInv, ControllerStep PROVE FlagInv'
<1>0. Running BY DEF ControllerStep
<1>1. ~UndoIntent /\ \A m \in Mappings : ~LinkTarget(m) /\ ~UnlinkSource(m)
  BY <1>0 DEF FlagInv, UndoIntent, LinkTarget, UnlinkSource
<1> QED BY <1>0, <1>1, FlagPersistPending, FlagReconcile, FlagRemapIdentities, FlagRemapJournal,
           FlagFlush, FlagDiscardUntouched, FlagRest, FlagInsertHistory
        DEF ControllerStep

LEMMA FlagUser ==
  ASSUME NeverUndone, TypeOK, FlagInv, UserStep PROVE FlagInv'
<1>0. Running /\ op = IdleOp /\ Flagged /\ worker.step # "lost"
  <2>1. Running /\ op.step = "idle"
    BY DEF UserStep, BeginMove, DismissMove, Quit, ConfirmMove, SubmitRename, Play,
           Dispatching, Ready, Running
  <2>2. op = IdleOp BY <2>1 DEF FlagInv
  <2> QED BY <2>1, <2>2 DEF FlagInv, IdleOp
<1>1. CASE BeginMove \/ Quit
  <2>1. Unladen(op') BY <1>1, CallUnladen DEF BeginMove, Quit, Continuations
  <2> QED BY <1>0, <1>1, <2>1, UnladenFlag DEF BeginMove, Quit, Flagged
<1>2. CASE DismissMove \/ \E p \in Playable : Play(p)
  BY <1>0, <1>2, IdleUnladen, UnladenFlag DEF DismissMove, Play, Flagged
<1>3. ASSUME NEW plan \in SUBSET Mappings, ConfirmMove(plan) PROVE FlagInv'
  <2>1. UNCHANGED <<op, queue>> BY <1>0, <1>3 DEF ConfirmMove
  <2>2. worker'.step # "lost" BY <1>0, <1>3 DEF ConfirmMove, TypeOK, Workers
  <2>3. pending' = TRUE \/ UNCHANGED <<mem, pending>> BY <1>3 DEF ConfirmMove, JournalIntent
  <2>4. Flagged' BY <1>0, <2>1, <2>3 DEF Flagged
  <2> QED BY <1>0, <2>1, <2>2, <2>4, IdleUnladen, UnladenFlag
<1>4. \A m \in Mappings : ~SubmitRename(m) BY DEF SubmitRename, NeverUndone
<1> QED BY <1>1, <1>2, <1>3, <1>4 DEF UserStep

LEMMA FlagNext ==
  ASSUME NeverUndone, TypeOK, FlagInv, [Next]_vars PROVE FlagInv'
<1>1. CASE ControllerStep BY <1>1, FlagController
<1>2. CASE UserStep BY <1>2, FlagUser
<1>3. CASE Running /\ WorkerStep
  <2>1. worker'.step # "lost"
    BY <1>3 DEF WorkerStep, StartPlan, MoveEntry, PublishEntry, DetachSource, StopMove,
                FinishEntry, TypeOK, Workers, FlagInv
  <2>2. UNCHANGED <<mem, op, queue, pending>>
    BY <1>3 DEF WorkerStep, StartPlan, MoveEntry, PublishEntry, DetachSource, WorkerFrame
  <2> QED BY <1>3, <2>1, <2>2 DEF FlagInv, Flagged
<1>4. CASE Autosave
  <2>1. Running /\ op = IdleOp BY <1>4 DEF Autosave, Ready, Running, FlagInv
  <2>2. Unladen(op') BY <1>4, CallUnladen DEF Autosave, Continuations
  <2> QED BY <1>4, <2>1, <2>2, UnladenFlag DEF Autosave, FlagInv, Flagged, IdleOp
<1>5. ASSUME NEW publish \in BOOLEAN, SavePosition(publish) PROVE FlagInv'
  <2>1. Running /\ op = IdleOp BY <1>5 DEF SavePosition, Ready, Running, FlagInv
  <2>2. Unladen(op') BY <1>5, SaveStepType DEF SavePosition, Unladen, IdleOp
  <2> QED BY <1>5, <2>1, <2>2, UnladenFlag DEF SavePosition, FlagInv, Flagged, IdleOp
<1>6. CASE Start
  <2>1. Unladen([IdleOp EXCEPT !.step = "flush", !.then = "start"]) BY DEF Unladen, IdleOp
  <2>2. Unladen(op') BY <1>6, <2>1, CallUnladen DEF Start, Continuations
  <2> QED BY <1>6, <2>2, UnladenFlag DEF Start, Flagged, IdleWorker
<1>7. CASE Environment
  <2>1. ~WorkerPanic
    BY ConstantsAssumption DEF WorkerPanic, NeverUndone, Fault, TypeOK
  <2>2. UNCHANGED <<mem, op, queue, pending, worker>> /\ (Running' => Running)
    BY <1>7, <2>1 DEF Environment, ExternalExit, Crash, Intrude, Repair, Ready, Running
  <2> QED BY <2>2 DEF FlagInv, Flagged
<1>8. CASE UNCHANGED vars BY <1>8 DEF vars, FlagInv, Flagged, Running
<1>9. CASE PlaybackStarted
  <2>1. Running /\ op = IdleOp BY <1>9 DEF PlaybackStarted, Ready, Running, FlagInv
  <2>2. Unladen(op') BY <1>9 DEF PlaybackStarted, Unladen, IdleOp
  <2> QED BY <1>9, <2>1, <2>2, UnladenFlag DEF PlaybackStarted, FlagInv, Flagged, IdleOp
<1> QED BY <1>1, <1>2, <1>3, <1>4, <1>5, <1>6, <1>7, <1>8, <1>9 DEF Next

\* Whatever fails, and also when autosaves fall into a move, an unfinished intent
\* stays flagged, as long as no rename withdraws one and no worker dies.
THEOREM IntentsRemembered ==
  ASSUME NeverUndone PROVE Spec => []IntentRemembered
<1>1. TypeInv /\ FlagInv /\ [Next]_vars => (TypeInv /\ FlagInv)'
  BY TypeNext, PositionNext, FlagNext DEF TypeInv
<1>2. FlagInv => IntentRemembered BY DEF FlagInv, Flagged, IntentRemembered, Running, IdleOp
<1>3. Init => TypeInv /\ FlagInv BY TypeInit, FlagInit
<1> QED BY <1>1, <1>2, <1>3, PTL DEF Spec
=============================================================================
