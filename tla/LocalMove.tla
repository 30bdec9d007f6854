------------------------------ MODULE LocalMove ------------------------------
(***************************************************************************)
(* Moving and renaming local files without losing a file or the identity   *)
(* (watched progress, history, notes, ...) the library keeps for it.        *)
(*                                                                         *)
(* Three parties share the state.  The filesystem worker executes one      *)
(* approved plan, entry by entry.  The controller (AppController) owns the *)
(* mappings that still have to be persisted and calls the store, one call  *)
(* at a time.  The store (FileStateStore) keeps every document in memory   *)
(* and replaces its file atomically, one document after the other; the     *)
(* process may stop between any two of those replacements.                 *)
(***************************************************************************)
EXTENDS FiniteSets, Integers

CONSTANTS
  Paths,           \* absolute local paths
  Files,           \* what a path can hold: the content of one file or tree
  NoFile,          \* an absent directory entry
  Playable,        \* bound: the paths the user plays
  Mappings,        \* the exact source-to-target moves the user may ask for
  InitialFs,       \* where the files are at the first start
  InitialRows,     \* the identity rows the documents hold at the first start
  Renames,         \* the cargo feature `local-rename`
  SlowMoves,       \* a move may outlast the autosave deadline of 30 seconds
  PlayUnresolved,  \* an endpoint of an unresolved intent may be playing
  WorkerMayDie,    \* a panic unwinds the worker thread alone
  LateErrors,      \* a write may report an error after its rename took effect
  LateStarts,      \* playback may start after a move of its file was applied
  MaxFaults,       \* bound: I/O errors
  MaxCrashes       \* bound: crashes and external exits

\* A durable identity: the document says that `file` is found at `path`.
Rows == [path : Paths, file : Files]

ASSUME ConstantsAssumption ==
  /\ NoFile \notin Files \cup Paths
  /\ Mappings \subseteq {m \in [source : Paths, target : Paths] : m.source # m.target}
  /\ Playable \subseteq Paths /\ "nothing" \notin Paths
  /\ InitialFs \in [Paths -> Files \cup {NoFile}]
  /\ InitialRows \subseteq Rows
  /\ \A switch \in {Renames, SlowMoves, PlayUnresolved, WorkerMayDie,
                    LateErrors, LateStarts} : switch \in BOOLEAN
  /\ MaxFaults \in Nat /\ MaxCrashes \in Nat

Remapped == {"progress", "history"}          \* two of the seven documents a remap rewrites
Identities == Remapped \cup {"checkpoint"}   \* at most one row: what is playing
Docs == Identities \cup {"journal"}          \* local-moves.toml is written last

VARIABLES
  fs,          \* what each path holds
  disk,        \* the published documents
  mem,         \* the store's copy of them
  stale,       \* documents whose recorded file generation no longer matches
  blocked,     \* publication_blocked
  phase,       \* the process: up, exiting (shutdown) or down
  exec,        \* local_move_execution_pending
  selection,   \* sources of the open Move popup
  queue,       \* local_move_persistence_queue
  pending,     \* local_move_journal_pending
  failure,     \* local_move_persistence_failure is Some
  playing,     \* current_media: the identity of what plays
  starting,    \* current_playback_progress, while PlaybackStarted is awaited
  op,          \* the controller's call in progress
  worker,      \* the Local filesystem worker
  faults, crashes

vars == <<fs, disk, mem, stale, blocked, phase, exec, selection, queue, pending,
          failure, playing, starting, op, worker, faults, crashes>>

Nothing == [path |-> "nothing", file |-> "nothing"]

-----------------------------------------------------------------------------
(* Mappings and identities *)

Sources(ms) == {m.source : m \in ms}
Targets(ms) == {m.target : m \in ms}

\* The mappings of one batch touch every path at most once.
Compatible(ms) ==
  /\ Sources(ms) \cap Targets(ms) = {}
  /\ \A m, n \in ms : m # n => m.source # n.source /\ m.target # n.target

RemapPath(p, ms) ==
  IF p \in Sources(ms) THEN (CHOOSE m \in ms : m.source = p).target ELSE p

RemapRow(r, ms) == [r EXCEPT !.path = RemapPath(@, ms)]

Remap(rows, ms) == {RemapRow(r, ms) : r \in rows}

\* Two rows of a document whose keys are unique would share a destination.
Collides(rows, ms) ==
  \E r, s \in rows : r # s /\ RemapPath(r.path, ms) = RemapPath(s.path, ms)

\* merge_playback_checkpoint: the checkpoint replaces the row of its path.
Merge(rows, checkpoint) == {r \in rows : \A c \in checkpoint : c.path # r.path} \cup checkpoint

\* An intent of the journal that names one of the new mappings' paths.
Conflicts(intents, ms) ==
  (Sources(intents) \cup Targets(intents)) \cap (Sources(ms) \cup Targets(ms)) # {}

Present(p) == fs[p] # NoFile

\* What validation, every revalidation and the no-replace rename insist on.
Movable_ReplacingTarget(m) == Present(m.source)     \* mutant: a plain rename(2)
Movable(m) == Present(m.source) /\ ~Present(m.target)

\* A no-replace rename; it needs the target absent when it happens.
Renamed(m) == [fs EXCEPT ![m.target] = fs[m.source], ![m.source] = NoFile]

Completed(intents) == {m \in intents : ~Present(m.source) /\ Present(m.target)}
Untouched_BySource(intents) == {m \in intents : Present(m.source)}   \* mutant: target ignored
Untouched(intents) == {m \in intents : Movable(m)}
Unresolved(intents) == {m \in intents : Present(m.source) <=> Present(m.target)}

-----------------------------------------------------------------------------
(* The store *)

Fault == faults < MaxFaults /\ faults' = faults + 1

\* persist_document: refused while publication is blocked or the file changed
\* behind the store; an I/O error leaves either the old file (before the
\* rename) or the new one with a generation the store never recorded.
Persist(doc, new, outcome) ==
  \/ /\ outcome = "ok"
     /\ ~blocked /\ doc \notin stale
     /\ disk' = [disk EXCEPT ![doc] = new]
     /\ UNCHANGED <<stale, faults>>
  \/ /\ outcome = "error"
     /\ blocked \/ doc \in stale
     /\ UNCHANGED <<disk, stale, faults>>
  \/ /\ outcome = "error"
     /\ ~blocked /\ doc \notin stale
     /\ Fault
     /\ \/ UNCHANGED <<disk, stale>>
        \/ LateErrors /\ disk' = [disk EXCEPT ![doc] = new] /\ stale' = stale \cup {doc}

-----------------------------------------------------------------------------
(* The controller's synchronous calls: one at a time, step by step *)

IdleOp == [step |-> "idle", batch |-> {}, scan |-> FALSE, untouched |-> {},
           unresolved |-> FALSE, explicit |-> FALSE, then |-> "none", row |-> Nothing]

\* persist_pending_local_move_mappings(attempt), then what its caller does.
CallPersist(explicit, then) ==
  op' = [IdleOp EXCEPT !.step = "persist", !.explicit = explicit, !.then = then]

CallReconcile(explicit, then) ==
  op' = [IdleOp EXCEPT !.step = "reconcile", !.explicit = explicit, !.then = then]

\* The caller's continuation: Move opens its popup, Quit leaves the event loop,
\* shutdown ends the process whatever the result, a Move result rechecks the
\* journal, and an autosave does nothing more.
Return_Rechecking(ok) ==       \* mutant: the recheck asks for another recheck
  /\ IF op.then = "reconcile" THEN CallReconcile(FALSE, "reconcile") ELSE op' = IdleOp
  /\ phase' = CASE op.then = "quit" /\ ok -> "exiting"
                [] op.then = "exit" -> "down"
                [] OTHER -> phase
  /\ IF op.then = "begin" /\ ok
     THEN selection' \in {s \in SUBSET Sources(Mappings) : \A p \in s : Present(p)}
     ELSE UNCHANGED selection
Return(ok) ==
  /\ IF op.then = "reconcile" THEN CallReconcile(FALSE, "none") ELSE op' = IdleOp
  /\ phase' = CASE op.then = "quit" /\ ok -> "exiting"
                [] op.then = "exit" -> "down"
                [] OTHER -> phase
  /\ IF op.then = "begin" /\ ok
     THEN selection' \in {s \in SUBSET Sources(Mappings) : \A p \in s : Present(p)}
     ELSE UNCHANGED selection

\* A remap begins by flushing the checkpoint.
FirstStep == IF mem.checkpoint = {} THEN "progress" ELSE "flush"

PersistPending ==
  /\ op.step = "persist"
  /\ \/ /\ queue = {}
        /\ CallReconcile(op.explicit, op.then)
        /\ UNCHANGED <<queue, phase, selection>>
     \/ /\ queue # {} /\ ~op.explicit /\ failure
        /\ Return(FALSE)
        /\ UNCHANGED queue
     \/ /\ queue # {} /\ (op.explicit \/ ~failure)
        /\ op' = [op EXCEPT !.step = FirstStep, !.batch = queue]
        /\ queue' = {}
        /\ UNCHANGED <<phase, selection>>
  /\ UNCHANGED <<fs, disk, mem, stale, blocked, exec, pending, failure, playing, starting,
                 worker, faults, crashes>>

\* The end of reconcile_local_move_journal, once its store calls succeeded.
Reconciled_Forgetting(unresolved) ==    \* mutant: unresolved intents are only shown
  pending' = FALSE /\ failure' = unresolved /\ Return(~unresolved)
Reconciled_Allowing(unresolved) ==      \* mutant: success although some are unresolved
  pending' = unresolved /\ failure' = unresolved /\ Return(TRUE)
Reconciled(unresolved) ==
  /\ pending' = unresolved
  /\ failure' = unresolved
  /\ Return(~unresolved)

Reconcile ==
  /\ op.step = "reconcile"
  /\ \/ /\ queue # {} \/ (pending /\ ~op.explicit /\ failure)
        /\ Return(FALSE)
        /\ UNCHANGED <<pending, failure>>
     \/ /\ queue = {} /\ ~pending
        /\ Return(TRUE)
        /\ UNCHANGED <<pending, failure>>
     \/ /\ queue = {} /\ pending /\ (op.explicit \/ ~failure)
        /\ LET found == Completed(mem.journal)
               untouched == Untouched(mem.journal)
              unresolved == Unresolved(mem.journal) # {} IN
           IF found \cup untouched = {}
           THEN Reconciled(unresolved)
           ELSE /\ op' = [op EXCEPT !.step = IF found # {} THEN FirstStep ELSE "discard",
                                    !.batch = found, !.scan = TRUE,
                                    !.untouched = untouched, !.unresolved = unresolved]
                /\ UNCHANGED <<pending, failure, phase, selection>>
  /\ UNCHANGED <<fs, disk, mem, stale, blocked, exec, queue, playing, starting, worker,
                 faults, crashes>>

NextStep_SkippingHistory(step) == "journal"     \* mutant: one document left out
NextStep(step) ==
  CASE step = "progress" -> "history" [] step = "history" -> "journal"

\* Some document of the running remap is already replaced on disk.
Published_Never == FALSE                        \* mutant: partial publication unnoticed
Published == op.step \in {"history", "journal"}

\* A failed remap: the batch goes back to the queue, and a partial publication
\* blocks every later write of this process.
RemapFailed ==
  /\ blocked' = (blocked \/ Published)
  /\ IF op.scan THEN pending' = TRUE /\ UNCHANGED queue
                ELSE queue' = op.batch /\ UNCHANGED pending
  /\ failure' = TRUE
  /\ Return(FALSE)
  /\ UNCHANGED mem

\* flush_playback_checkpoint_locked and its use in a remap, in a checkpoint of
\* other media, in a save of the position, and in the recovery of a new process,
\* which does not start when it fails.
FlushFailed ==
  IF op.batch # {} THEN RemapFailed
  ELSE /\ op' = IdleOp
       /\ phase' = IF op.then = "start" THEN "down" ELSE phase
       /\ UNCHANGED <<mem, blocked, queue, pending, failure, selection>>

FlushProgress ==
  LET rows == Merge(mem.progress, mem.checkpoint) IN
  /\ op.step = "flush"
  /\ \/ /\ IF rows = mem.progress THEN UNCHANGED <<disk, stale, faults>>
                                 ELSE Persist("progress", rows, "ok")
        /\ mem' = [mem EXCEPT !.progress = rows]
        /\ op' = [op EXCEPT !.step = "clear"]
        /\ UNCHANGED <<blocked, queue, pending, failure, phase, selection>>
     \/ /\ rows # mem.progress
        /\ Persist("progress", rows, "error")
        /\ FlushFailed
  /\ UNCHANGED <<fs, exec, playing, starting, worker, crashes>>

FlushClear ==
  /\ op.step = "clear"
  /\ \/ /\ Persist("checkpoint", {}, "ok")
        /\ mem' = [mem EXCEPT !.checkpoint = {}]
        /\ CASE op.batch # {} -> op' = [op EXCEPT !.step = "progress"]
             [] op.then = "start" -> CallReconcile(TRUE, "none")
             [] op.then \in {"checkpoint", "publish"} -> op' = [op EXCEPT !.step = "note"]
             [] OTHER -> op' = IdleOp
        /\ UNCHANGED <<blocked, queue, pending, failure, phase, selection>>
     \/ /\ Persist("checkpoint", {}, "error")
        /\ FlushFailed
  /\ UNCHANGED <<fs, exec, playing, starting, worker, crashes>>

\* remap_local_move_state: every identity document in order.
RemapIdentities ==
  /\ op.step \in Remapped
  /\ \/ /\ op.step = "progress"
        /\ ~Compatible(op.batch) \/ Collides(mem.progress, op.batch)
        /\ RemapFailed
        /\ UNCHANGED <<disk, stale, faults>>
     \/ /\ op.step # "progress" \/ (Compatible(op.batch) /\ ~Collides(mem.progress, op.batch))
        /\ \/ /\ Persist(op.step, Remap(mem[op.step], op.batch), "ok")
              /\ op' = [op EXCEPT !.step = NextStep(@)]
              /\ UNCHANGED <<mem, blocked, queue, pending, failure, phase, selection>>
           \/ /\ Persist(op.step, Remap(mem[op.step], op.batch), "error")
              /\ RemapFailed
  /\ UNCHANGED <<fs, exec, playing, starting, worker, crashes>>

\* The journal is cleared last; only then does the store's memory change.
RemapJournal ==
  LET intents == mem.journal \ op.batch IN
  /\ op.step = "journal"
  /\ \/ /\ Persist("journal", intents, "ok")
        /\ mem' = [mem EXCEPT !.progress = Remap(@, op.batch),
                              !.history = Remap(@, op.batch), !.journal = intents]
        /\ IF ~op.scan
           THEN failure' = FALSE /\ pending' = (intents # {}) /\ Return(TRUE)
           ELSE IF op.untouched # {}
           THEN /\ op' = [op EXCEPT !.step = "discard", !.batch = {}]
                /\ UNCHANGED <<failure, pending, phase, selection>>
           ELSE Reconciled(op.unresolved)
        /\ UNCHANGED <<queue, blocked>>
     \/ /\ Persist("journal", intents, "error")
        /\ RemapFailed
  /\ UNCHANGED <<fs, exec, playing, starting, worker, crashes>>

\* discard_local_move_intents for the untouched intents of a reconciliation.
DiscardUntouched ==
  LET intents == mem.journal \ op.untouched IN
  /\ op.step = "discard"
  /\ \/ /\ Persist("journal", intents, "ok")
        /\ mem' = [mem EXCEPT !.journal = intents]
        /\ Reconciled(op.unresolved)
     \/ /\ Persist("journal", intents, "error")
        /\ pending' = TRUE /\ failure' = TRUE
        /\ Return(FALSE)
        /\ UNCHANGED mem
  /\ UNCHANGED <<fs, blocked, exec, queue, playing, starting, worker, crashes>>

-----------------------------------------------------------------------------
(* The controller's own actions.  dispatch refuses every action while a move  *)
(* executes; ticks (autosave, playback) go on.                                *)

IdleWorker == [step |-> "idle", plan |-> {}, done |-> {}, entry |-> {}]

Ready == phase = "up" /\ op.step = "idle"
Dispatching == Ready /\ ~exec

BeginMove ==
  /\ Dispatching
  /\ selection = {}
  /\ CallPersist(TRUE, "begin")
  /\ UNCHANGED <<fs, disk, mem, stale, blocked, phase, exec, selection, queue, pending,
                 failure, playing, starting, worker, faults, crashes>>

\* The preflight of the remap: the complete state must accept it.
Accepts(ms) ==
  Compatible(ms) /\ ~Collides(mem.progress, ms) /\ ~Conflicts(mem.journal, ms)

\* journal_local_move_intent: the preflight, then one write.
JournalIntent(ms, outcome) ==
  /\ Accepts(ms)
  /\ Persist("journal", mem.journal \cup ms, outcome)
  /\ mem' = IF outcome = "ok" THEN [mem EXCEPT !.journal = @ \cup ms] ELSE mem

\* confirm_local_move_here: the plan names every selected source once.
ConfirmMove(plan) ==
  /\ Dispatching
  /\ plan # {} /\ Sources(plan) = selection
  /\ Compatible(plan)
  /\ \A m \in plan : Movable(m)
  /\ \/ /\ JournalIntent(plan, "ok")
        /\ pending' = TRUE
        /\ IF worker.step = "lost"
           THEN /\ op' = [IdleOp EXCEPT !.step = "undo", !.batch = plan]
                /\ UNCHANGED <<exec, worker>>
           ELSE /\ exec' = TRUE
                /\ worker' = [worker EXCEPT !.step = "queued", !.plan = plan, !.done = {}]
                /\ UNCHANGED op
     \/ /\ JournalIntent(plan, "error")
        /\ UNCHANGED <<pending, exec, worker, op>>
  /\ UNCHANGED <<fs, blocked, phase, selection, queue, failure, playing, starting, crashes>>

DismissMove ==
  /\ Dispatching
  /\ selection # {}
  /\ selection' = {}
  /\ UNCHANGED <<fs, disk, mem, stale, blocked, phase, exec, queue, pending, failure,
                 playing, starting, op, worker, faults, crashes>>

\* submit_local_rename up to the durable intent.
SubmitRename(m) ==
  /\ Renames
  /\ Dispatching
  /\ selection = {}
  /\ Movable(m)
  /\ \/ /\ JournalIntent({m}, "ok")
        /\ pending' = TRUE
        /\ op' = [IdleOp EXCEPT !.step = "rename", !.batch = {m}]
     \/ /\ JournalIntent({m}, "error")
        /\ UNCHANGED <<pending, op>>
  /\ UNCHANGED <<fs, blocked, phase, exec, selection, queue, failure, playing, starting, worker,
                 crashes>>

\* apply_completed_local_move_mappings: the identity of what plays is remapped,
\* the progress row kept since playback was requested is not.
ApplyCompleted(ms) ==
  /\ queue' = queue \cup ms
  /\ playing' = IF playing.path \in Sources(ms) THEN RemapRow(playing, ms) ELSE playing
  /\ UNCHANGED starting

\* The rename itself is a hard link that never replaces its target, then the
\* removal of the source, or of the link when that fails.
LinkTarget(m) ==
  /\ op.step = "rename" /\ op.batch = {m}
  /\ \/ /\ Movable(m)
        /\ fs' = [fs EXCEPT ![m.target] = fs[m.source]]
        /\ op' = [op EXCEPT !.step = "unlink"]
        /\ UNCHANGED faults
     \/ /\ \/ ~Movable(m) /\ UNCHANGED faults
           \/ Fault
        /\ op' = [op EXCEPT !.step = "undo"]
        /\ UNCHANGED fs
  /\ UNCHANGED <<disk, mem, stale, blocked, phase, exec, selection, queue, pending,
                 failure, playing, starting, worker, crashes>>

\* Success is applied in memory and persisted; failure discards the intent.
UnlinkSource(m) ==
  /\ op.step = "unlink" /\ op.batch = {m}
  /\ \/ /\ fs' = [fs EXCEPT ![m.source] = NoFile]
        /\ ApplyCompleted({m})
        /\ CallPersist(FALSE, "none")
        /\ UNCHANGED faults
     \/ /\ Fault
        /\ fs' = [fs EXCEPT ![m.target] = NoFile]
        /\ op' = [op EXCEPT !.step = "undo"]
        /\ UNCHANGED <<queue, playing, starting>>
  /\ UNCHANGED <<disk, mem, stale, blocked, phase, exec, selection, pending, failure,
                 worker, crashes>>

\* discard_local_move_intents after a failed rename or an unsent request.
UndoIntent ==
  LET intents == mem.journal \ op.batch IN
  /\ op.step = "undo"
  /\ \/ /\ Persist("journal", intents, "ok")
        /\ mem' = [mem EXCEPT !.journal = intents]
        /\ pending' = FALSE
     \/ /\ Persist("journal", intents, "error")
        /\ pending' = TRUE
        /\ UNCHANGED mem
  /\ op' = IdleOp
  /\ UNCHANGED <<fs, blocked, phase, exec, selection, queue, failure, playing, starting, worker,
                 crashes>>

\* handle_local_move_response, from a tick or from the drain of shutdown.
HandleResponse ==
  /\ phase \in {"up", "exiting"}
  /\ op.step = "idle"
  /\ exec /\ worker.step = "reported"
  /\ exec' = FALSE
  /\ worker' = IdleWorker
  /\ selection' = IF worker.done = worker.plan THEN {}
                  ELSE selection \ Sources(worker.done)
  /\ ApplyCompleted(worker.done)
  /\ IF worker.done # {}
     THEN CallPersist(FALSE, IF worker.done = worker.plan THEN "none" ELSE "reconcile")
     ELSE CallReconcile(FALSE, "none")
  /\ UNCHANGED <<fs, disk, mem, stale, blocked, phase, pending, failure, faults, crashes>>

\* The response channel disconnected while a move was executing.
HandleDisconnect_Never == FALSE /\ UNCHANGED vars    \* mutant
HandleDisconnect ==
  /\ phase \in {"up", "exiting"}
  /\ op.step = "idle"
  /\ exec /\ worker.step = "lost"
  /\ exec' = FALSE
  /\ pending' = TRUE
  /\ UNCHANGED <<fs, disk, mem, stale, blocked, phase, selection, queue, failure, playing,
                 starting, op, worker, faults, crashes>>

\* The periodic session save of tick.
Autosave ==
  /\ Ready
  /\ exec => SlowMoves
  /\ CallPersist(FALSE, "none")
  /\ UNCHANGED <<fs, disk, mem, stale, blocked, phase, exec, selection, queue, pending,
                 failure, playing, starting, worker, faults, crashes>>

Play(p) ==
  /\ Dispatching
  /\ Present(p)
  /\ PlayUnresolved \/ p \notin Sources(disk.journal) \cup Targets(disk.journal)
  /\ playing' = [path |-> p, file |-> fs[p]]
  /\ starting' = playing'
  /\ UNCHANGED <<fs, disk, mem, stale, blocked, phase, exec, selection, queue, pending,
                 failure, op, worker, faults, crashes>>

\* Whether current_progress_at_player_position has a row to save: something
\* plays and no remap is queued.  The checkpoint of a start does not ask it.
MaySave_Always == playing # Nothing     \* mutant: the queue is not looked at
MaySave_WithoutMedia == queue = {}      \* mutant: nothing may be playing
MaySave == playing # Nothing /\ queue = {}

\* The store flushes the checkpoint of other media before it saves this row.
SaveStep(row) == IF \E c \in mem.checkpoint : c.path # row.path THEN "flush" ELSE "note"

\* checkpoint_position and persist_position; the latter publishes the new
\* checkpoint at once.  The row saved is kept, under the identity of what plays.
SavePosition(publish) ==
  /\ Ready
  /\ MaySave
  /\ op' = [IdleOp EXCEPT !.step = SaveStep(playing), !.row = playing,
                          !.then = IF publish THEN "publish" ELSE "checkpoint"]
  /\ starting' = IF starting = Nothing THEN Nothing ELSE playing
  /\ UNCHANGED <<fs, disk, mem, stale, blocked, phase, exec, selection, queue, pending,
                 failure, playing, worker, faults, crashes>>

\* The start of playback that is awaited was not overtaken by a move of its file.
StartsInPlace == starting = playing /\ playing.path \notin Targets(queue)

\* PlaybackStarted: the history row, then checkpoint_playback_started with the row
\* kept since playback was requested, whatever is queued.
PlaybackStarted ==
  /\ Ready
  /\ starting # Nothing
  /\ LateStarts \/ StartsInPlace
  /\ op' = [IdleOp EXCEPT !.step = "insert", !.row = starting, !.then = "checkpoint"]
  /\ starting' = Nothing
  /\ UNCHANGED <<fs, disk, mem, stale, blocked, phase, exec, selection, queue, pending,
                 failure, playing, worker, faults, crashes>>

\* insert_history, unless history is switched off; its failure is only shown.
InsertHistory ==
  LET rows == mem.history \cup {playing} IN
  /\ op.step = "insert"
  /\ \/ /\ Persist("history", rows, "ok")
        /\ mem' = [mem EXCEPT !.history = rows]
     \/ /\ Persist("history", rows, "error")
        /\ UNCHANGED mem
     \/ UNCHANGED <<disk, mem, stale, faults>>
  /\ op' = [op EXCEPT !.step = SaveStep(op.row)]
  /\ UNCHANGED <<fs, blocked, phase, exec, selection, queue, pending, failure, playing,
                 starting, worker, crashes>>

NotePosition ==
  /\ op.step = "note"
  /\ \/ /\ Persist("checkpoint", {op.row}, "ok")
        /\ mem' = [mem EXCEPT !.checkpoint = {op.row}]
        /\ op' = IF op.then = "publish" THEN [IdleOp EXCEPT !.step = "flush"] ELSE IdleOp
     \/ /\ Persist("checkpoint", {op.row}, "error")
        /\ op' = IdleOp
        /\ UNCHANGED mem
  /\ UNCHANGED <<fs, blocked, phase, exec, selection, queue, pending, failure, playing,
                 starting, worker, crashes>>

-----------------------------------------------------------------------------
(* The Local filesystem worker: execute_with_renamer_and_progress *)

Busy == {"queued", "entry", "staged", "published"}

Remaining == worker.plan \ worker.done

\* The batch stops at the first failure and reports what completed before it.
StopMove == worker' = [worker EXCEPT !.step = "reported", !.entry = {}]

\* One entry is done; the report follows the last one.
FinishEntry(m) ==
  worker' = [worker EXCEPT !.step = IF Remaining = {m} THEN "reported" ELSE "entry",
                           !.done = @ \cup {m}, !.entry = {}]

WorkerFrame == UNCHANGED <<disk, mem, stale, blocked, phase, exec, selection, queue,
                           pending, failure, playing, starting, op, crashes>>

\* revalidate_plan: all entries before the first one is touched.
StartPlan ==
  /\ worker.step = "queued"
  /\ \/ /\ \A m \in worker.plan : Movable(m)
        /\ worker' = [worker EXCEPT !.step = "entry"]
        /\ UNCHANGED faults
     \/ /\ \E m \in worker.plan : ~Movable(m)
        /\ StopMove
        /\ UNCHANGED faults
     \/ Fault /\ StopMove
  /\ UNCHANGED fs
  /\ WorkerFrame

\* One no-replace rename; across devices the entry is copied into a private
\* staging tree beside the target instead.
MoveEntry(m) ==
  /\ worker.step = "entry" /\ m \in Remaining
  /\ \/ /\ Movable(m)
        /\ \/ fs' = Renamed(m) /\ FinishEntry(m)
           \/ /\ worker' = [worker EXCEPT !.step = "staged", !.entry = {m}]
              /\ UNCHANGED fs
        /\ UNCHANGED faults
     \/ /\ \/ ~Movable(m) /\ UNCHANGED faults
           \/ Fault
        /\ StopMove
        /\ UNCHANGED fs
  /\ WorkerFrame

\* The verified copy is renamed onto the target, again without replacing.
PublishEntry(m) ==
  /\ worker.step = "staged" /\ worker.entry = {m}
  /\ \/ /\ ~Present(m.target)
        /\ fs' = [fs EXCEPT ![m.target] = fs[m.source]]
        /\ worker' = [worker EXCEPT !.step = "published"]
        /\ UNCHANGED faults
     \/ /\ \/ Present(m.target) /\ UNCHANGED faults
           \/ Fault
        /\ StopMove
        /\ UNCHANGED fs
  /\ WorkerFrame

\* The source is detached into a quarantine; failing to remove the quarantine
\* still completes the entry, failing to detach retains both copies.
DetachSource(m) ==
  /\ worker.step = "published" /\ worker.entry = {m}
  /\ \/ /\ fs' = [fs EXCEPT ![m.source] = NoFile]
        /\ FinishEntry(m)
        /\ UNCHANGED faults
     \/ /\ Fault
        /\ StopMove
        /\ UNCHANGED fs
  /\ WorkerFrame

WorkerStep ==
  \/ StartPlan
  \/ \E m \in Mappings : MoveEntry(m) \/ PublishEntry(m) \/ DetachSource(m)

WorkerPanic ==
  /\ WorkerMayDie
  /\ phase = "up"
  /\ worker.step \in Busy \cup {"idle"}
  /\ Fault
  /\ worker' = [worker EXCEPT !.step = "lost", !.entry = {}]
  /\ UNCHANGED fs
  /\ WorkerFrame

-----------------------------------------------------------------------------
(* The end of the process, its start, and the world around it *)

Quit ==
  /\ Dispatching
  /\ CallPersist(TRUE, "quit")
  /\ UNCHANGED <<fs, disk, mem, stale, blocked, phase, exec, selection, queue, pending,
                 failure, playing, starting, worker, faults, crashes>>

\* An exit that did not pass through Quit calls shutdown, even during a move.
ExternalExit ==
  /\ Ready
  /\ crashes < MaxCrashes /\ crashes' = crashes + 1
  /\ phase' = "exiting"
  /\ UNCHANGED <<fs, disk, mem, stale, blocked, exec, selection, queue, pending, failure,
                 playing, starting, op, worker, faults>>

Joined_OnlyAlive == worker.step = "idle"     \* mutant: waits for a dead worker
Joined == worker.step \in {"idle", "lost"}

\* shutdown: the worker is joined and its last response applied before the
\* mappings are persisted once more.
Shutdown ==
  /\ phase = "exiting" /\ op.step = "idle"
  /\ ~exec /\ Joined
  /\ CallPersist(TRUE, "exit")
  /\ UNCHANGED <<fs, disk, mem, stale, blocked, phase, exec, selection, queue, pending,
                 failure, playing, starting, worker, faults, crashes>>

Crash ==
  /\ phase # "down"
  /\ crashes < MaxCrashes /\ crashes' = crashes + 1
  /\ phase' = "down"
  /\ UNCHANGED <<fs, disk, mem, stale, blocked, exec, selection, queue, pending, failure,
                 playing, starting, op, worker, faults>>

\* A new process opens the store, which recovers the checkpoint, and reconciles
\* the journal unconditionally.
Start ==
  /\ phase = "down"
  /\ phase' = "up"
  /\ mem' = disk
  /\ stale' = {} /\ blocked' = FALSE
  /\ exec' = FALSE /\ selection' = {} /\ queue' = {}
  /\ pending' = TRUE /\ failure' = FALSE
  /\ playing' = Nothing /\ starting' = Nothing
  /\ worker' = IdleWorker
  /\ IF disk.checkpoint = {} THEN CallReconcile(TRUE, "none")
     ELSE op' = [IdleOp EXCEPT !.step = "flush", !.then = "start"]
  /\ UNCHANGED <<fs, disk, faults, crashes>>

Held(f) == \E p \in Paths : fs[p] = f

\* Another program creates a file the library does not know, where no move has
\* its source.
Intrude(p, f) ==
  /\ ~Present(p) /\ ~Held(f)
  /\ \A d \in Identities : \A r \in disk[d] : r.file # f
  /\ p \notin Sources(disk.journal \cup worker.plan \cup queue)
  /\ fs' = [fs EXCEPT ![p] = f]
  /\ UNCHANGED <<disk, mem, stale, blocked, phase, exec, selection, queue, pending,
                 failure, playing, starting, op, worker, faults, crashes>>

\* The user removes one of two copies of the same file, keeping the other, while
\* no move runs.
Repair(m) ==
  /\ phase = "down" \/ Dispatching
  /\ m \in disk.journal
  /\ Present(m.source) /\ fs[m.source] = fs[m.target]
  /\ PlayUnresolved \/ playing.path \notin {m.source, m.target}
  /\ \E p \in {m.source, m.target} : fs' = [fs EXCEPT ![p] = NoFile]
  /\ UNCHANGED <<disk, mem, stale, blocked, phase, exec, selection, queue, pending,
                 failure, playing, starting, op, worker, faults, crashes>>

-----------------------------------------------------------------------------
Init ==
  /\ fs = InitialFs
  /\ disk = [progress |-> InitialRows, history |-> InitialRows,
             checkpoint |-> {}, journal |-> {}]
  /\ mem = disk
  /\ stale = {} /\ blocked = FALSE
  /\ phase = "up"
  /\ exec = FALSE /\ selection = {} /\ queue = {}
  /\ pending = FALSE /\ failure = FALSE
  /\ playing = Nothing /\ starting = Nothing
  /\ op = IdleOp
  /\ worker = IdleWorker
  /\ faults = 0 /\ crashes = 0

Running == phase # "down"

ControllerStep ==
  /\ Running
  /\ \/ PersistPending \/ Reconcile \/ RemapIdentities \/ RemapJournal
     \/ FlushProgress \/ FlushClear \/ InsertHistory \/ NotePosition
     \/ DiscardUntouched \/ UndoIntent
     \/ \E m \in Mappings : LinkTarget(m) \/ UnlinkSource(m)
     \/ HandleResponse \/ HandleDisconnect \/ Shutdown

UserStep ==
  \/ BeginMove \/ DismissMove \/ Quit
  \/ \E plan \in SUBSET Mappings : ConfirmMove(plan)
  \/ \E m \in Mappings : SubmitRename(m)
  \/ \E p \in Playable : Play(p)

Environment ==
  \/ ExternalExit \/ Crash \/ WorkerPanic
  \/ \E p \in Paths, f \in Files : Intrude(p, f)
  \/ \E m \in Mappings : Repair(m)

Next ==
  \/ ControllerStep
  \/ UserStep
  \/ Running /\ WorkerStep
  \/ Autosave
  \/ \E publish \in BOOLEAN : SavePosition(publish)
  \/ PlaybackStarted
  \/ Start
  \/ Environment

\* The event loop finishes every call it starts, every tick drains the worker's
\* responses before it autosaves, and the worker thread keeps running; users,
\* autosaves, restarts and faults are not promised.
Spec ==
  /\ Init /\ [][Next]_vars
  /\ WF_vars(ControllerStep)
  /\ SF_vars(HandleResponse \/ HandleDisconnect)
  /\ WF_vars(Running /\ WorkerStep)

-----------------------------------------------------------------------------
(* Types *)

Steps == {"idle", "persist", "reconcile", "progress", "history", "journal", "discard",
          "rename", "unlink", "undo", "flush", "clear", "insert", "note"}
Documents == [progress : SUBSET Rows, history : SUBSET Rows, checkpoint : SUBSET Rows,
              journal : SUBSET Mappings]
Ops == [step : Steps, batch : SUBSET Mappings, scan : BOOLEAN,
        untouched : SUBSET Mappings, unresolved : BOOLEAN, explicit : BOOLEAN,
        then : {"none", "reconcile", "begin", "quit", "exit", "start", "checkpoint",
                "publish"}, row : Rows \cup {Nothing}]
Workers == [step : Busy \cup {"idle", "reported", "lost"}, plan : SUBSET Mappings,
            done : SUBSET Mappings, entry : SUBSET Mappings]

\* Every variable keeps its shape.
TypeOK ==
  /\ fs \in [Paths -> Files \cup {NoFile}]
  /\ disk \in Documents /\ mem \in Documents
  /\ stale \in SUBSET Docs /\ blocked \in BOOLEAN
  /\ phase \in {"up", "exiting", "down"}
  /\ exec \in BOOLEAN /\ selection \in SUBSET Paths
  /\ queue \in SUBSET Mappings /\ pending \in BOOLEAN /\ failure \in BOOLEAN
  /\ playing \in Rows \cup {Nothing} /\ starting \in Rows \cup {Nothing}
  /\ op \in Ops /\ worker \in Workers
  /\ faults \in 0..MaxFaults /\ crashes \in 0..MaxCrashes

-----------------------------------------------------------------------------
(* What must hold *)

\* A path gives its file up only to another path that holds the same file.
KeepsFiles ==
  \A p \in Paths : Present(p) /\ fs'[p] # fs[p] =>
    fs'[p] = NoFile /\ \E q \in Paths : fs'[q] = fs[p]

\* No step overwrites an occupied path, and a path gives its file up only when
\* another path holds the same file: whatever fails, stops or races, a move or a
\* rename never loses a file and never replaces one that appeared meanwhile.
FilesKept == [][KeepsFiles]_vars

\* Between calls the store serves exactly what it published: its memory and the
\* file of a document differ only after a write that failed behind its rename
\* or a partial publication, and then every further write of it is refused.
MemoryPublished ==
  phase # "down" /\ op.step = "idle" =>
    \A d \in Docs : d \notin stale /\ ~blocked => mem[d] = disk[d]

\* Every durable identity can be followed to its file, if that still exists: it is where its row
\* says, or the durable journal still holds the move that took it away.  This is
\* what a crash at any moment of a move, a remap or a recovery must leave.
IdentityRecoverable ==
  \A d \in Identities : \A r \in disk[d] : Held(r.file) =>
    \/ fs[r.path] = r.file
    \/ \E m \in disk.journal : m.source = r.path /\ fs[m.target] = r.file

\* A move that was accepted stays acceptable: when a journaled move has happened,
\* no second identity waits at its destination to refuse the remap for ever.
RemapStaysPossible ==
  \A m \in Completed(disk.journal) : ~Collides(Merge(disk.progress, disk.checkpoint), {m})

\* An unfinished intent is never forgotten by a running controller: the journal
\* it blocks new moves and orderly quit for is still flagged.
IntentRemembered ==
  phase = "up" /\ op.step = "idle" /\ ~exec /\ mem.journal # {} => pending \/ queue # {}

\* A new move starts with an empty journal and an empty queue, and an orderly
\* quit leaves both empty.
SettledFirst ==
  /\ ~exec /\ exec' => mem.journal = {} /\ queue = {}
  /\ op.then = "quit" /\ phase = "up" /\ phase' = "exiting" => mem'.journal = {} /\ queue' = {}

\* A new move starts, and an orderly quit proceeds, only with a settled journal.
BlockedWhileUnsettled == [][SettledFirst]_vars

\* An accepted move is always reported, even by a worker that failed or died:
\* the user interface that waits for it is released.
MoveReported == exec ~> ~exec \/ phase = "down"

\* Every synchronous call of the controller returns.
CallsReturn == op.step # "idle" ~> op.step = "idle" \/ phase = "down"

\* A shutdown, with or without a move in flight, ends.
ShutdownEnds == phase = "exiting" ~> phase = "down"

-----------------------------------------------------------------------------
(* The contract: seen through the durable journal, every move is one step *)

\* Of two copies of one file the journaled source is the authoritative one.
Location(f) ==
  LET held == {p \in Paths : fs[p] = f} IN
  IF held = {} THEN NoFile
  ELSE CHOOSE p \in held :
         \A m \in disk.journal : m.target = p => m.source \notin held

\* Where a durable identity leads, through the move the journal still holds.
Follow(r) ==
  LET away == {m \in disk.journal : m.source = r.path /\ fs[m.target] = r.file} IN
  IF fs[r.path] = r.file \/ away = {} THEN r.path ELSE (CHOOSE m \in away : TRUE).target

Library(d) == IF d = "progress" THEN Merge(disk.progress, disk.checkpoint) ELSE disk[d]

Contract == INSTANCE LocalMoveContract WITH
  NoPath <- NoFile, Docs <- Remapped,
  loc <- [f \in Files |-> Location(f)],
  known <- [d \in Remapped |->
              {f \in Files : \E r \in Library(d) : r.file = f /\ Follow(r) = Location(f)}]

\* Moves, copies across devices, crashes, failed writes, recoveries and repairs
\* together implement the one-step move.
MovesAreAtomic == Contract!Spec

=============================================================================
