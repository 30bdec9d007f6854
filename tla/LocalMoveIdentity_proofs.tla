----------------------- MODULE LocalMoveIdentity_proofs -----------------------
(***************************************************************************)
(* No durable identity of LocalMove is ever lost from sight: whatever      *)
(* fails and whenever the process ends, the documents and the journal on   *)
(* disk lead from every row to its file.  And no move that was accepted    *)
(* becomes impossible to remap; so that, while no write fails, every remap *)
(* succeeds and an unsettled journal holds back moves and orderly quits.   *)
(* Seen through the journal, every move is the one step of the contract.   *)
(*                                                                         *)
(* The theorems hold for moves that end before the next autosave, and as   *)
(* long as nothing plays, or what plays is no endpoint of an unresolved    *)
(* intent, starts before its own file is moved or renamed, no worker dies  *)
(* and no write fails behind its rename.  Each of these has a              *)
(* counterexample when it is dropped.                                      *)
(***************************************************************************)
EXTENDS LocalMove_proofs

Careful ==
  /\ ~SlowMoves
  /\ Playable = {} \/ (~PlayUnresolved /\ ~WorkerMayDie /\ ~LateErrors /\ ~LateStarts)

\* The library the program is started with: its rows lead to their files, or
\* their files are gone.
InStep ==
  \A r \in InitialRows :
    (\E p \in Paths : InitialFs[p] = r.file) => InitialFs[r.path] = r.file

-----------------------------------------------------------------------------
(* The invariant *)

Gone(ms) == \A m \in ms : ~Present(m.source)
Kept(ms) == \A m \in ms : Present(m.source)

\* The intents that disk and memory agree on.
Journaled == disk.journal \cap mem.journal

\* The file of r is at its path, or the journal tells where it went.
Leads(r) ==
  \/ fs[r.path] = r.file
  \/ /\ ~Present(r.path)
     /\ \E m \in disk.journal : m.source = r.path /\ fs[m.target] = r.file

\* No move that did not happen has its target at r's path.
Free(r) == \A m \in disk.journal : m.target = r.path => ~Present(m.source)

Sound(r) == Held(r.file) => Leads(r) /\ Free(r)

\* The identities that will be saved or are: what is playing counts as one.
Tracked(r) ==
  \/ \E d \in Identities : r \in disk[d]
  \/ Running /\ playing # Nothing /\ r = playing

RowsInv == \A r \in Rows : Tracked(r) => Sound(r)

\* Intents never meet; those that only memory has were never begun.
JournalInv ==
  /\ Compatible(disk.journal \cup mem.journal)
  /\ ~blocked => Kept(mem.journal \ disk.journal)

\* While a move executes its intents are durable, the controller only saves
\* positions, and exactly the sources of the entries done are gone.
MoveInv ==
  Running /\ exec =>
    /\ op.step \in {"idle", "flush", "clear", "insert", "note"} /\ op.batch = {}
    /\ op.then \in {"none", "checkpoint", "publish"}
    /\ worker.plan \subseteq Journaled /\ worker.done \subseteq worker.plan
    /\ Gone(worker.done)
    /\ IF worker.step = "lost" THEN WorkerMayDie ELSE Kept(worker.plan \ worker.done)
    /\ worker.step \in {"staged", "published"} =>
         worker.entry \subseteq worker.plan \ worker.done

QueueInv == ~blocked => queue \subseteq Journaled /\ Gone(queue)

Remapping == {"flush", "clear", "progress", "history", "journal"}

\* What the fields of the call in progress are when it does not use them.
OpShape ==
  /\ op.step = "idle" => op = IdleOp
  /\ op.step \in {"persist", "reconcile", "insert", "note"} => op.batch = {} /\ op.untouched = {}
  /\ op.step \in {"flush", "clear"} /\ op.batch = {} => op.untouched = {}
  /\ op.step \in {"persist", "reconcile"} \/ op.batch # {} => op.then \in Continuations

\* What a call in progress may rely on, step by step.
OpInv ==
  Running =>
    /\ ~blocked /\ op.step \in Remapping => op.batch \subseteq Journaled /\ Gone(op.batch)
    /\ ~blocked /\ op.step \in Remapping \cup {"discard"} =>
         op.untouched \subseteq mem.journal /\ Kept(op.untouched)
    /\ op.step \in {"progress", "history", "journal", "discard"} => queue = {}
    /\ op.step \in {"flush", "clear"} /\ op.batch # {} => queue = {}
    /\ op.step \in {"rename", "unlink", "undo"} =>
         op.batch \subseteq Journaled /\ Kept(op.batch)
    /\ op.step \in {"progress", "history", "journal"} => disk.checkpoint = {}
    /\ op.step \in {"history", "journal"} =>
         \A r \in disk.progress : r.path \notin Sources(op.batch)
    /\ op.step = "journal" => \A r \in disk.history : r.path \notin Sources(op.batch)

\* The checkpoint is the same on disk and in memory, and there is none, and
\* nothing playing, when nothing is ever played.
CheckpointInv ==
  /\ Running => mem.checkpoint = disk.checkpoint
  /\ Playable = {} => playing = Nothing /\ disk.checkpoint = {}

\* What is playing is where the controller believes it to be, unless a move
\* that is not reported yet has taken it away.
PlayInv ==
  Running /\ playing # Nothing =>
    /\ Held(playing.file)
    /\ \A m \in disk.journal :
         m.source = playing.path => Present(m.source) \/ (exec /\ m \in worker.done)

ControlInv == JournalInv /\ MoveInv /\ QueueInv /\ OpShape /\ OpInv /\ CheckpointInv /\ PlayInv

\* The position being saved is that of what plays.
HeldRow == Running /\ Saving(op) => op.row = playing

IdentityInv == StoreInv /\ TwinInv /\ RowsInv /\ ControlInv /\ HeldRow

-----------------------------------------------------------------------------
(* Mappings *)

LEMMA CompatibleFacts ==
  ASSUME NEW ms, Compatible(ms), NEW m \in ms, NEW n \in ms
  PROVE  /\ m.source # n.target
         /\ m.source = n.source \/ m.target = n.target => m = n
<1>1. m.source \in Sources(ms) /\ n.target \in Targets(ms) BY DEF Sources, Targets
<1> QED BY <1>1 DEF Compatible

LEMMA CompatibleSubset ==
  ASSUME NEW ms, Compatible(ms), NEW ns \in SUBSET ms
  PROVE  Compatible(ns)
<1>1. Sources(ns) \subseteq Sources(ms) /\ Targets(ns) \subseteq Targets(ms)
  BY DEF Sources, Targets
<1> QED BY <1>1 DEF Compatible

LEMMA CompatibleUnion ==
  ASSUME NEW ms, NEW ns, Compatible(ms), Compatible(ns), ~Conflicts(ms, ns)
  PROVE  Compatible(ms \cup ns)
<1>1. Sources(ms \cup ns) = Sources(ms) \cup Sources(ns)
  BY DEF Sources
<1>2. Targets(ms \cup ns) = Targets(ms) \cup Targets(ns)
  BY DEF Targets
<1>3. ASSUME NEW m \in ms, NEW n \in ns
      PROVE  m.source # n.source /\ m.target # n.target
  <2>1. /\ m.source \in Sources(ms) /\ n.source \in Sources(ns)
        /\ m.target \in Targets(ms) /\ n.target \in Targets(ns)
    BY DEF Sources, Targets
  <2> QED BY <2>1 DEF Conflicts
<1>4. Sources(ms \cup ns) \cap Targets(ms \cup ns) = {}
  BY <1>1, <1>2 DEF Compatible, Conflicts
<1>5. \A m, n \in ms \cup ns : m # n => m.source # n.source /\ m.target # n.target
  BY <1>3 DEF Compatible
<1> QED BY <1>4, <1>5 DEF Compatible

\* A remapped path leaves a source for the target of that source's mapping.
LEMMA RemapPathFacts ==
  ASSUME NEW ms, Compatible(ms), NEW p
  PROVE  /\ RemapPath(p, ms) \notin Sources(ms)
         /\ p \notin Sources(ms) => RemapPath(p, ms) = p
         /\ p \in Sources(ms) => \E m \in ms : m.source = p /\ RemapPath(p, ms) = m.target
<1>1. CASE p \notin Sources(ms) BY <1>1 DEF RemapPath
<1>2. CASE p \in Sources(ms)
  <2> DEFINE m == CHOOSE m \in ms : m.source = p
  <2>1. m \in ms /\ m.source = p BY <1>2 DEF Sources
  <2>2. RemapPath(p, ms) = m.target BY <1>2 DEF RemapPath
  <2>3. m.target \in Targets(ms) BY <2>1 DEF Targets
  <2> QED BY <1>2, <2>1, <2>2, <2>3 DEF Compatible
<1> QED BY <1>1, <1>2

LEMMA JournalTypes ==
  ASSUME TypeOK
  PROVE  disk.journal \in SUBSET Mappings /\ mem.journal \in SUBSET Mappings
BY DEF TypeOK, Documents

LEMMA RowFields ==
  ASSUME NEW r \in Rows PROVE r.path \in Paths /\ r.file \in Files /\ r.file # NoFile
BY ConstantsAssumption DEF Rows

-----------------------------------------------------------------------------
(* What becomes of a row when files move or intents come and go *)

LEMMA SoundFrame ==
  ASSUME UNCHANGED fs, disk'.journal = disk.journal, NEW r
  PROVE  Sound(r)' <=> Sound(r)
BY DEF Sound, Held, Leads, Free, Present

\* Intents go only when they were not begun or no row has their source.
LEMMA SoundForgetting ==
  ASSUME UNCHANGED fs, disk'.journal \subseteq disk.journal, NEW r, Sound(r),
         \A m \in disk.journal \ disk'.journal : Present(m.source) \/ r.path # m.source
  PROVE  Sound(r)'
BY DEF Sound, Held, Leads, Free, Present

\* Intents come only for moves that are possible and that no other one meets.
LEMMA SoundJournaling ==
  ASSUME TypeOK, UNCHANGED fs, NEW ms \in SUBSET Mappings,
         disk'.journal = disk.journal \cup ms,
         \A m \in ms : Movable(m), ~Conflicts(disk.journal, ms),
         NEW r \in Rows, Sound(r)
  PROVE  Sound(r)'
<1> SUFFICES ASSUME Held(r.file)' PROVE Leads(r)' /\ Free(r)' BY DEF Sound
<1>1. Leads(r) /\ Free(r) BY DEF Sound, Held
<1>2. Leads(r)' BY <1>1 DEF Leads, Present
<1>3. ASSUME NEW m \in ms, m.target = r.path PROVE FALSE
  <2>1. ~Present(r.path) /\ r.file # NoFile BY <1>3, RowFields DEF Movable
  <2>2. PICK n \in disk.journal : n.source = r.path BY <1>1, <2>1 DEF Leads, Present
  <2>3. n.source \in Sources(disk.journal) /\ m.target \in Targets(ms)
    BY DEF Sources, Targets
  <2> QED BY <1>3, <2>2, <2>3 DEF Conflicts
<1>4. Free(r)' BY <1>1, <1>3 DEF Free, Present
<1> QED BY <1>2, <1>4

\* A journaled file appears at its target.
LEMMA SoundCopying ==
  ASSUME TypeOK, Compatible(disk.journal), NEW m \in disk.journal, Movable(m),
         fs' = [fs EXCEPT ![m.target] = fs[m.source]], disk'.journal = disk.journal,
         NEW r \in Rows, Sound(r)
  PROVE  Sound(r)'
<1> SUFFICES ASSUME Held(r.file)' PROVE Leads(r)' /\ Free(r)' BY DEF Sound
<1>0. /\ m \in Mappings /\ m.source \in Paths /\ m.target \in Paths /\ m.source # m.target
      /\ \A n \in disk.journal : n.source \in Paths /\ n.target \in Paths
  BY JournalTypes, MappingPaths
<1>1. fs \in [Paths -> Files \cup {NoFile}] /\ r.path \in Paths /\ r.file # NoFile
  BY RowFields DEF TypeOK
<1>2. \A p \in Paths : fs'[p] = IF p = m.target THEN fs[m.source] ELSE fs[p] BY <1>0, <1>1
<1>3. fs[m.target] = NoFile BY DEF Movable, Present
<1>4. Held(r.file) BY <1>0, <1>2 DEF Held
<1>5. Leads(r) /\ Free(r) BY <1>4 DEF Sound
<1>6. \A n \in disk.journal : n.source # m.target BY CompatibleFacts
<1>7. Leads(r)' BY <1>0, <1>1, <1>2, <1>3, <1>5, <1>6 DEF Leads, Present
<1>8. Free(r)' BY <1>0, <1>2, <1>5, <1>6 DEF Free, Present
<1> QED BY <1>7, <1>8

\* The source of a journaled file that is also at its target goes.
LEMMA SoundDetaching ==
  ASSUME TypeOK, Compatible(disk.journal), NEW m \in disk.journal, Twins(m),
         fs' = [fs EXCEPT ![m.source] = NoFile], disk'.journal = disk.journal,
         NEW r \in Rows, Sound(r)
  PROVE  Sound(r)'
<1> SUFFICES ASSUME Held(r.file)' PROVE Leads(r)' /\ Free(r)' BY DEF Sound
<1>0. /\ m \in Mappings /\ m.source \in Paths /\ m.target \in Paths /\ m.source # m.target
      /\ \A n \in disk.journal : n.source \in Paths /\ n.target \in Paths
  BY JournalTypes, MappingPaths
<1>1. fs \in [Paths -> Files \cup {NoFile}] /\ r.path \in Paths /\ r.file # NoFile
  BY RowFields DEF TypeOK
<1>2. \A p \in Paths : fs'[p] = IF p = m.source THEN NoFile ELSE fs[p] BY <1>0, <1>1
<1>3. Held(r.file) BY <1>1, <1>2 DEF Held
<1>4. Leads(r) /\ Free(r) BY <1>3 DEF Sound
<1>5. \A n \in disk.journal : n.target # m.source BY CompatibleFacts
<1>6. Leads(r)' BY <1>0, <1>1, <1>2, <1>4, <1>5 DEF Leads, Present, Twins
<1>7. Free(r)' BY <1>0, <1>2, <1>4 DEF Free, Present
<1> QED BY <1>6, <1>7

\* The copy at the target goes again.
LEMMA SoundUndoing ==
  ASSUME TypeOK, Compatible(disk.journal), NEW m \in disk.journal, Twins(m),
         fs' = [fs EXCEPT ![m.target] = NoFile], disk'.journal = disk.journal,
         NEW r \in Rows, Sound(r)
  PROVE  Sound(r)'
<1> SUFFICES ASSUME Held(r.file)' PROVE Leads(r)' /\ Free(r)' BY DEF Sound
<1>0. /\ m \in Mappings /\ m.source \in Paths /\ m.target \in Paths /\ m.source # m.target
      /\ \A n \in disk.journal : n.source \in Paths /\ n.target \in Paths
  BY JournalTypes, MappingPaths
<1>1. fs \in [Paths -> Files \cup {NoFile}] /\ r.path \in Paths /\ r.file # NoFile
  BY RowFields DEF TypeOK
<1>2. \A p \in Paths : fs'[p] = IF p = m.target THEN NoFile ELSE fs[p] BY <1>0, <1>1
<1>3. Held(r.file) BY <1>1, <1>2 DEF Held
<1>4. Leads(r) /\ Free(r) BY <1>3 DEF Sound
<1>5. r.path # m.target BY <1>4 DEF Free, Twins
<1>6. \A n \in disk.journal : n.target = m.target => n = m BY CompatibleFacts
<1>7. Leads(r)' BY <1>0, <1>1, <1>2, <1>4, <1>5, <1>6 DEF Leads, Present, Twins
<1>8. Free(r)' BY <1>0, <1>2, <1>4 DEF Free, Present
<1> QED BY <1>7, <1>8

\* The rename moves a journaled file at once.
LEMMA SoundMoving ==
  ASSUME TypeOK, Compatible(disk.journal), NEW m \in disk.journal, Movable(m),
         fs' = Renamed(m), disk'.journal = disk.journal,
         NEW r \in Rows, Sound(r)
  PROVE  Sound(r)'
<1> SUFFICES ASSUME Held(r.file)' PROVE Leads(r)' /\ Free(r)' BY DEF Sound
<1>0. /\ m \in Mappings /\ m.source \in Paths /\ m.target \in Paths /\ m.source # m.target
      /\ \A n \in disk.journal : n.source \in Paths /\ n.target \in Paths
  BY JournalTypes, MappingPaths
<1>1. fs \in [Paths -> Files \cup {NoFile}] /\ r.path \in Paths /\ r.file # NoFile
  BY RowFields DEF TypeOK
<1>2. \A p \in Paths : fs'[p] = IF p = m.source THEN NoFile
                                ELSE IF p = m.target THEN fs[m.source] ELSE fs[p]
  BY <1>0, <1>1 DEF Renamed
<1>3. fs[m.target] = NoFile BY DEF Movable, Present
<1>4. Held(r.file) BY <1>0, <1>1, <1>2 DEF Held
<1>5. Leads(r) /\ Free(r) BY <1>4 DEF Sound
<1>6. \A n \in disk.journal : n.source # m.target /\ n.target # m.source BY CompatibleFacts
<1>7. Leads(r)' BY <1>0, <1>1, <1>2, <1>3, <1>5, <1>6 DEF Leads, Present, Movable
<1>8. Free(r)' BY <1>0, <1>2, <1>5, <1>6 DEF Free, Present
<1> QED BY <1>7, <1>8

\* A file that no row names appears where no intent has its source.
LEMMA SoundIntruding ==
  ASSUME TypeOK, NEW p \in Paths, NEW f \in Files, ~Present(p),
         p \notin Sources(disk.journal),
         fs' = [fs EXCEPT ![p] = f], disk'.journal = disk.journal,
         NEW r \in Rows, Sound(r), r.file # f
  PROVE  Sound(r)'
<1> SUFFICES ASSUME Held(r.file)' PROVE Leads(r)' /\ Free(r)' BY DEF Sound
<1>0. \A n \in disk.journal : n.source \in Paths /\ n.target \in Paths /\ n.source # p
  BY JournalTypes, MappingPaths DEF Sources
<1>1. fs \in [Paths -> Files \cup {NoFile}] /\ r.path \in Paths /\ r.file # NoFile
  BY RowFields DEF TypeOK
<1>2. \A q \in Paths : fs'[q] = IF q = p THEN f ELSE fs[q] BY <1>1
<1>3. fs[p] = NoFile BY DEF Present
<1>4. Held(r.file) BY <1>2 DEF Held
<1>5. Leads(r) /\ Free(r) BY <1>4 DEF Sound
<1>6. Leads(r)' BY <1>0, <1>1, <1>2, <1>3, <1>5 DEF Leads, Present
<1>7. Free(r)' BY <1>0, <1>2, <1>5 DEF Free, Present
<1> QED BY <1>6, <1>7

\* A row follows its file when the move that took it away is remapped.
LEMMA SoundRemapping ==
  ASSUME TypeOK, Compatible(disk.journal),
         NEW ms \in SUBSET disk.journal, Gone(ms),
         NEW r \in Rows, Sound(r)
  PROVE  Sound(RemapRow(r, ms))
<1> DEFINE s == RemapRow(r, ms)
<1>1. s.path = RemapPath(r.path, ms) /\ s.file = r.file BY DEF RemapRow, Rows
<1>2. Compatible(ms) BY CompatibleSubset
<1>3. CASE r.path \notin Sources(ms)
  <2>1. s = r
    <3>1. RemapPath(r.path, ms) = r.path BY <1>3 DEF RemapPath
    <3> QED BY <3>1 DEF RemapRow, Rows
  <2> QED BY <2>1
<1>4. CASE r.path \in Sources(ms)
  <2>1. PICK m \in ms : m.source = r.path /\ s.path = m.target
    BY <1>1, <1>2, <1>4, RemapPathFacts
  <2> SUFFICES ASSUME Held(s.file) PROVE Leads(s) /\ Free(s) BY DEF Sound
  <2>2. Leads(r) BY <1>1 DEF Sound
  <2>3. r.file # NoFile BY RowFields
  <2>4. ~Present(m.source) BY DEF Gone
  <2>5. PICK n \in disk.journal : n.source = r.path /\ fs[n.target] = r.file
    BY <2>1, <2>2, <2>3, <2>4 DEF Leads, Present
  <2>6. n = m BY <2>1, <2>5, CompatibleFacts
  <2>7. Leads(s) BY <1>1, <2>1, <2>5, <2>6 DEF Leads
  <2>8. \A k \in disk.journal : k.target = s.path => k = m BY <2>1, CompatibleFacts
  <2>9. Free(s) BY <2>4, <2>8 DEF Free
  <2> QED BY <2>7, <2>9
<1> QED BY <1>3, <1>4

-----------------------------------------------------------------------------
(* What the store's writes and the controller's calls do to the invariant *)

LEMMA DocKinds ==
  /\ "journal" \in Docs /\ "journal" \notin Identities /\ Docs = Identities \cup {"journal"}
  /\ "progress" \in Identities /\ "history" \in Identities /\ "checkpoint" \in Identities
  /\ Identities = {"progress", "history", "checkpoint"}
BY DEF Docs, Identities, Remapped

\* A write of one document, whatever its outcome.
LEMMA WriteEffect ==
  ASSUME TypeOK, NEW doc \in Docs, NEW new, NEW outcome, Persist(doc, new, outcome)
  PROVE  /\ \A d \in Docs : d # doc => disk'[d] = disk[d]
         /\ \/ disk'[doc] = new /\ ~blocked /\ doc \notin stale
            \/ outcome = "error" /\ disk'[doc] = disk[doc]
         /\ outcome = "error" /\ ~LateErrors => disk' = disk
         /\ outcome = "ok" => ~blocked /\ doc \notin stale
<1>1. \A d \in Docs : [disk EXCEPT ![doc] = new][d] = IF d = doc THEN new ELSE disk[d]
  BY DocumentFields DEF TypeOK
<1> QED BY <1>1 DEF Persist

\* A document that may still be written is the same on disk and in memory.
LEMMA Synced ==
  ASSUME StoreInv, Running, ~blocked, NEW d \in Docs, d \notin stale, d \notin Ahead
  PROVE  disk[d] = mem[d]
BY DEF StoreInv, PublishInv

LEMMA RowsFollow ==
  ASSUME RowsInv, UNCHANGED fs, disk'.journal = disk.journal,
         \A r \in Rows : Tracked(r)' => Tracked(r) \/ Sound(r)
  PROVE  RowsInv'
BY SoundFrame DEF RowsInv

\* A step that touches neither files nor documents.
LEMMA Undisturbed ==
  ASSUME RowsInv, ControlInv, UNCHANGED <<fs, disk, mem, blocked, playing, exec>>,
         UNCHANGED worker, Running' => Running, queue' \subseteq queue
  PROVE  RowsInv' /\ JournalInv' /\ QueueInv' /\ CheckpointInv' /\ PlayInv'
<1> USE DEF ControlInv
<1>1. \A r : Tracked(r)' => Tracked(r) BY DEF Tracked
<1>2. RowsInv' BY <1>1, RowsFollow
<1>3. JournalInv' BY DEF JournalInv, Kept, Present
<1>4. QueueInv' BY DEF QueueInv, Gone, Journaled, Present
<1>5. CheckpointInv' BY DEF CheckpointInv
<1>6. PlayInv' BY DEF PlayInv, Held, Present
<1> QED BY <1>2, <1>3, <1>4, <1>5, <1>6

\* A call that has nothing in its hands.
Settled ==
  /\ op'.step \in {"idle", "persist", "reconcile"} /\ op'.batch = {} /\ op'.untouched = {}
  /\ op'.step = "idle" => op' = IdleOp
  /\ op'.then \in Continuations

LEMMA SettledOp ==
  ASSUME Settled PROVE OpShape' /\ OpInv'
<1>1. OpShape' BY DEF Settled, OpShape
<1>2. OpInv' BY DEF Settled, OpInv, Remapping
<1> QED BY <1>1, <1>2

LEMMA CallSettles ==
  /\ \A e : \A t \in Continuations : CallPersist(e, t) \/ CallReconcile(e, t) => Settled
  /\ op' = IdleOp => Settled
  /\ \A ok : Return(ok) \/ Reconciled(ok) => Settled
  /\ RemapFailed \/ FlushFailed => Settled
<1>1. ASSUME NEW e, NEW t \in Continuations, CallPersist(e, t) \/ CallReconcile(e, t)
      PROVE  Settled
  BY <1>1 DEF CallPersist, CallReconcile, IdleOp, Settled
<1>2. op' = IdleOp => Settled BY DEF IdleOp, Settled, Continuations
<1>3. ASSUME NEW ok, Return(ok) PROVE Settled
  BY <1>1, <1>2, <1>3 DEF Return, Continuations
<1>4. ASSUME NEW u, Reconciled(u) PROVE Settled BY <1>3, <1>4 DEF Reconciled
<1>5. RemapFailed => Settled BY <1>3 DEF RemapFailed
<1>6. FlushFailed => Settled BY <1>2, <1>5 DEF FlushFailed
<1> QED BY <1>1, <1>2, <1>3, <1>4, <1>5, <1>6

\* While a call that is not a save of the position runs, no move does.
LEMMA NoMove ==
  ASSUME ControlInv, Running,
         \/ op.step \notin {"idle", "flush", "clear", "insert", "note"}
         \/ op.batch # {}
  PROVE  ~exec
BY DEF ControlInv, MoveInv

LEMMA NoMoveInv == ~exec' => MoveInv'
BY DEF MoveInv


LEMMA InvTypes ==
  ASSUME IdentityInv
  PROVE  TypeOK /\ TypeInv /\ RowsInv /\ ControlInv /\ StoreInv /\ TwinInv /\ HeldRow
BY DEF IdentityInv, StoreInv, TypeInv

LEMMA IdPersistPending ==
  ASSUME IdentityInv, Running, PersistPending PROVE RowsInv' /\ ControlInv'
<1>0. /\ op.step = "persist" /\ op.batch = {} /\ op.untouched = {} /\ op \in Ops
      /\ UNCHANGED <<fs, disk, mem, blocked, playing, exec, worker>> /\ ~exec
      /\ op.then \in Continuations
  <2>1. op.step = "persist" /\ op \in Ops BY InvTypes DEF PersistPending, TypeOK
  <2>2. op.batch = {} /\ op.untouched = {} /\ op.then \in Continuations
    BY <2>1, InvTypes DEF ControlInv, OpShape
  <2>3. ~exec BY <2>1, InvTypes, NoMove
  <2> QED BY <2>1, <2>2, <2>3 DEF PersistPending
<1>1. queue' \subseteq queue BY DEF PersistPending
<1>2. RowsInv' /\ JournalInv' /\ QueueInv' /\ CheckpointInv' /\ PlayInv'
  BY <1>0, <1>1, InvTypes, Undisturbed
<1>3. MoveInv' BY <1>0, NoMoveInv
<1>4. OpShape' /\ OpInv'
  <2>1. CASE CallReconcile(op.explicit, op.then) \/ Return(FALSE)
    BY <1>0, <2>1, CallSettles, SettledOp
  <2>2. CASE op' = [op EXCEPT !.step = FirstStep, !.batch = queue] /\ queue' = {}
    <3>1. /\ op'.step = FirstStep /\ op'.batch = queue /\ op'.untouched = {}
          /\ op'.then = op.then
      BY <1>0, <2>2 DEF Ops
    <3>2. FirstStep \in {"flush", "progress"} /\ (FirstStep = "progress" => mem.checkpoint = {})
      BY DEF FirstStep
    <3>3. OpShape' BY <1>0, <3>1, <3>2 DEF OpShape
    <3>4. mem.checkpoint = disk.checkpoint BY InvTypes DEF ControlInv, CheckpointInv
    <3>5. ~blocked => queue \subseteq Journaled /\ Gone(queue)
      BY InvTypes DEF ControlInv, QueueInv
    <3>6. (~blocked)' => (op.batch \subseteq Journaled /\ Gone(op.batch))'
      BY <1>0, <3>1, <3>5 DEF Journaled, Gone, Present
    <3>7. (op.untouched \subseteq mem.journal /\ Kept(op.untouched))'
      BY <3>1 DEF Kept
    <3> QED BY <1>0, <2>2, <3>1, <3>2, <3>3, <3>4, <3>6, <3>7 DEF OpInv
  <2> QED BY <2>1, <2>2 DEF PersistPending
<1> QED BY <1>2, <1>3, <1>4 DEF ControlInv

LEMMA IdReconcile ==
  ASSUME IdentityInv, Running, Reconcile PROVE RowsInv' /\ ControlInv'
<1>0. /\ op.step = "reconcile" /\ op \in Ops
      /\ UNCHANGED <<fs, disk, mem, blocked, playing, exec, worker, queue>> /\ ~exec
      /\ op.then \in Continuations
  <2>1. op.step = "reconcile" /\ op \in Ops BY InvTypes DEF Reconcile, TypeOK
  <2>3. ~exec BY <2>1, InvTypes, NoMove
  <2>4. op.then \in Continuations BY <2>1, InvTypes DEF ControlInv, OpShape
  <2> QED BY <2>1, <2>3, <2>4 DEF Reconcile
<1>2. RowsInv' /\ JournalInv' /\ QueueInv' /\ CheckpointInv' /\ PlayInv'
  BY <1>0, InvTypes, Undisturbed
<1>3. MoveInv' BY <1>0, NoMoveInv
<1>4. OpShape' /\ OpInv'
  <2> DEFINE found == Completed(mem.journal)
             untouched == Untouched(mem.journal)
             some == Unresolved(mem.journal) # {}
             first == IF found # {} THEN FirstStep ELSE "discard"
  <2> HIDE DEF found, untouched, some
  <2>1. CASE Return(FALSE) \/ Return(TRUE) \/ Reconciled(some)
    BY <2>1, CallSettles, SettledOp
  <2>2. CASE /\ op' = [op EXCEPT !.step = first, !.batch = found, !.scan = TRUE,
                                 !.untouched = untouched, !.unresolved = some]
             /\ queue = {}
    <3>1. /\ op'.step = first /\ op'.batch = found /\ op'.untouched = untouched
          /\ op'.then = op.then
      BY <1>0, <2>2 DEF Ops
    <3>2. /\ first \in {"flush", "progress", "discard"}
          /\ first = "progress" => mem.checkpoint = {}
          /\ first = "flush" => found # {}
      BY DEF FirstStep
    <3> HIDE DEF first
    <3>3. OpShape' BY <1>0, <3>1, <3>2 DEF OpShape
    <3>4. mem.checkpoint = disk.checkpoint BY InvTypes DEF ControlInv, CheckpointInv
    <3>5. ~blocked => found \subseteq Journaled /\ Gone(found)
      BY InvTypes DEF ControlInv, JournalInv, Kept, Journaled, Gone, Completed, found
    <3>6. untouched \subseteq mem.journal /\ Kept(untouched)
      BY DEF Kept, Untouched, Movable, untouched
    <3>7. (~blocked)' => (op.batch \subseteq Journaled /\ Gone(op.batch))'
      BY <1>0, <3>1, <3>5 DEF Journaled, Gone, Present
    <3>8. (op.untouched \subseteq mem.journal /\ Kept(op.untouched))'
      BY <1>0, <3>1, <3>6 DEF Kept, Present
    <3> QED BY <1>0, <2>2, <3>1, <3>2, <3>3, <3>4, <3>7, <3>8 DEF OpInv
  <2> QED BY <2>1, <2>2 DEF Reconcile, found, untouched, some, first
<1> QED BY <1>2, <1>3, <1>4 DEF ControlInv

-----------------------------------------------------------------------------
(* The writes of the identity documents *)

\* What the documents' writes leave of the rest.
LEMMA KeepFrame ==
  ASSUME ControlInv, Running, UNCHANGED <<fs, playing, exec, worker>>,
         disk'.journal \subseteq disk.journal, blocked => blocked'
  PROVE  /\ PlayInv'
         /\ disk'.journal = disk.journal /\ mem'.journal = mem.journal => JournalInv'
<1> USE DEF ControlInv
<1>1. PlayInv' BY DEF PlayInv, Held, Present
<1>2. disk'.journal = disk.journal /\ mem'.journal = mem.journal => JournalInv'
  BY DEF JournalInv, Kept, Present
<1> QED BY <1>1, <1>2

\* A failed remap or flush hands its batch back.
LEMMA FailedQueue ==
  ASSUME TypeOK, ControlInv, Running, op.step \in Remapping, RemapFailed \/ FlushFailed,
         UNCHANGED fs, disk'.journal = disk.journal
  PROVE  /\ UNCHANGED mem /\ (blocked => blocked') /\ QueueInv'
         /\ op.step \in {"flush", "clear"} => UNCHANGED blocked
<1>1. UNCHANGED mem /\ (blocked => blocked')
  BY DEF RemapFailed, FlushFailed
<1>2. op.step \in {"flush", "clear"} => UNCHANGED blocked
  BY DEF RemapFailed, FlushFailed, Published, TypeOK
<1>3. queue' = queue \/ queue' = op.batch BY DEF RemapFailed, FlushFailed
<1>4. /\ ~blocked => queue \subseteq Journaled /\ Gone(queue)
      /\ ~blocked => op.batch \subseteq Journaled /\ Gone(op.batch)
  BY DEF ControlInv, QueueInv, OpInv
<1>5. QueueInv' BY <1>1, <1>3, <1>4 DEF QueueInv, Journaled, Gone, Present
<1> QED BY <1>1, <1>2, <1>5

\* The rows of a written document are rows that were tracked before.
LEMMA RowsWritten ==
  ASSUME TypeOK, RowsInv, Running, UNCHANGED <<fs, playing>>,
         NEW doc \in Identities, NEW new, NEW outcome,
         UNCHANGED disk \/ Persist(doc, new, outcome),
         disk'[doc] # disk[doc] => \A r \in Rows : r \in new => Sound(r)
  PROVE  /\ RowsInv' /\ disk'.journal = disk.journal
         /\ \A d \in Identities : d # doc => disk'[d] = disk[d]
         /\ disk'[doc] = disk[doc] \/ disk'[doc] = new
<1>1. \A d \in Docs : d # doc => disk'[d] = disk[d]
  BY WriteEffect, DocKinds
<1>2. disk'[doc] = disk[doc] \/ disk'[doc] = new BY WriteEffect, DocKinds
<1>3. disk'["journal"] = disk["journal"] BY <1>1, DocKinds
<1>4. \A r \in Rows : Tracked(r)' => Tracked(r) \/ Sound(r)
  <2> SUFFICES ASSUME NEW r \in Rows, Tracked(r)' PROVE Tracked(r) \/ Sound(r) OBVIOUS
  <2>1. CASE \E d \in Identities : r \in disk'[d]
    <3>1. PICK d \in Identities : r \in disk'[d] BY <2>1
    <3>2. CASE disk'[d] = disk[d] BY <3>1, <3>2 DEF Tracked
    <3>3. CASE disk'[d] # disk[d]
      <4>1. d = doc BY <1>1, <3>3, DocKinds
      <4> QED BY <1>2, <3>1, <3>3, <4>1
    <3> QED BY <3>2, <3>3
  <2>2. CASE playing # Nothing /\ r = playing BY <2>2 DEF Tracked
  <2> QED BY <2>1, <2>2 DEF Tracked
<1>5. RowsInv' BY <1>3, <1>4, RowsFollow
<1> QED BY <1>1, <1>2, <1>3, <1>5, DocKinds

LEMMA IdFlushProgress ==
  ASSUME IdentityInv, Running, FlushProgress PROVE RowsInv' /\ ControlInv'
<1> DEFINE rows == Merge(mem.progress, mem.checkpoint)
<1> HIDE DEF rows
<1>0. /\ op.step = "flush" /\ op \in Ops /\ op.step \in Remapping
      /\ UNCHANGED <<fs, playing, exec, worker>>
      /\ TypeOK /\ RowsInv /\ ControlInv /\ StoreInv
  BY InvTypes DEF FlushProgress, TypeOK, Remapping
<1>1. UNCHANGED disk \/ \E outcome : Persist("progress", rows, outcome)
  BY DEF FlushProgress, rows
<1>2. disk'.progress # disk.progress => \A r \in Rows : r \in rows => Sound(r)
  <2> SUFFICES ASSUME disk' # disk, NEW r \in Rows, r \in rows PROVE Sound(r) OBVIOUS
  <2>1. ~blocked /\ "progress" \notin stale
    BY <1>1, WriteEffect, DocKinds DEF Persist
  <2>2. "progress" \notin Ahead BY <1>0 DEF Ahead
  <2>3. disk.progress = mem.progress BY <1>0, <2>1, <2>2, Synced, DocKinds
  <2>4. disk.checkpoint = mem.checkpoint BY <1>0 DEF ControlInv, CheckpointInv
  <2>5. r \in disk["progress"] \/ r \in disk["checkpoint"]
    BY <2>3, <2>4 DEF rows, Merge
  <2>6. Tracked(r) BY <2>5, DocKinds DEF Tracked
  <2> QED BY <1>0, <2>6 DEF RowsInv
<1>3. /\ RowsInv' /\ disk'.journal = disk.journal
      /\ \A d \in Identities : d # "progress" => disk'[d] = disk[d]
  BY <1>0, <1>1, <1>2, RowsWritten, DocKinds
<1>4. disk'.checkpoint = disk.checkpoint BY <1>3, DocKinds
<1>5. CASE /\ mem' = [mem EXCEPT !.progress = rows]
           /\ op' = [op EXCEPT !.step = "clear"]
           /\ UNCHANGED <<blocked, queue, phase>>
  <2>1. mem'.journal = mem.journal /\ mem'.checkpoint = mem.checkpoint
    BY <1>0, <1>5 DEF TypeOK, Documents
  <2>2. /\ op'.step = "clear" /\ op'.batch = op.batch /\ op'.untouched = op.untouched
        /\ op'.then = op.then
    BY <1>0, <1>5 DEF Ops
  <2>3. JournalInv' /\ PlayInv' BY <1>0, <1>3, <1>5, <2>1, KeepFrame
  <2>4. QueueInv'
    BY <1>0, <1>3, <1>5, <2>1 DEF ControlInv, QueueInv, Journaled, Gone, Present
  <2>5. CheckpointInv' BY <1>0, <1>4, <2>1 DEF ControlInv, CheckpointInv
  <2>6. MoveInv'
    BY <1>0, <1>3, <2>1, <2>2 DEF ControlInv, MoveInv, Journaled, Gone, Kept, Present
  <2>7. OpShape' BY <1>0, <2>2 DEF ControlInv, OpShape
  <2>8. OpInv'
    <3>1. (~blocked)' => (op.batch \subseteq Journaled /\ Gone(op.batch))'
      BY <1>0, <1>3, <1>5, <2>1, <2>2 DEF ControlInv, OpInv, Journaled, Gone, Present
    <3>2. (~blocked)' => (op.untouched \subseteq mem.journal /\ Kept(op.untouched))'
      BY <1>0, <1>5, <2>1, <2>2 DEF ControlInv, OpInv, Kept, Present
    <3>3. op'.batch # {} => queue' = {} BY <1>0, <1>5, <2>2 DEF ControlInv, OpInv
    <3> QED BY <2>2, <3>1, <3>2, <3>3 DEF OpInv
  <2> QED BY <1>3, <2>3, <2>4, <2>5, <2>6, <2>7, <2>8 DEF ControlInv
<1>6. CASE FlushFailed
  <2>1. UNCHANGED <<mem, blocked>> /\ QueueInv' BY <1>0, <1>3, <1>6, FailedQueue
  <2>2. JournalInv' /\ PlayInv' BY <1>0, <1>3, <2>1, KeepFrame
  <2>3. CheckpointInv' BY <1>0, <1>4, <2>1 DEF ControlInv, CheckpointInv
  <2>4. OpShape' /\ OpInv' BY <1>6, CallSettles, SettledOp
  <2>5. MoveInv'
    <3>1. CASE op.batch # {} BY <1>0, <3>1, NoMove, NoMoveInv
    <3>2. CASE op.batch = {}
      <4>1. op' = IdleOp BY <1>6, <3>2 DEF FlushFailed
      <4> QED BY <1>0, <1>3, <2>1, <4>1
              DEF ControlInv, MoveInv, IdleOp, Journaled, Gone, Kept, Present
    <3> QED BY <3>1, <3>2
  <2> QED BY <1>3, <2>1, <2>2, <2>3, <2>4, <2>5 DEF ControlInv
<1> QED BY <1>5, <1>6 DEF FlushProgress, rows

LEMMA IdFlushClear ==
  ASSUME Careful, IdentityInv, Running, FlushClear PROVE RowsInv' /\ ControlInv'
<1>0. /\ op.step = "clear" /\ op \in Ops /\ op.step \in Remapping
      /\ UNCHANGED <<fs, playing, exec, worker>>
      /\ TypeOK /\ RowsInv /\ ControlInv /\ StoreInv
  BY InvTypes DEF FlushClear, TypeOK, Remapping
<1>1. \E outcome : Persist("checkpoint", {}, outcome) BY DEF FlushClear
<1>2. /\ RowsInv' /\ disk'.journal = disk.journal
      /\ \A d \in Identities : d # "checkpoint" => disk'[d] = disk[d]
      /\ disk'["checkpoint"] = disk["checkpoint"] \/ disk'["checkpoint"] = {}
  BY <1>0, <1>1, RowsWritten, DocKinds
<1>3. CASE /\ Persist("checkpoint", {}, "ok")
           /\ mem' = [mem EXCEPT !.checkpoint = {}]
           /\ CASE op.batch # {} -> op' = [op EXCEPT !.step = "progress"]
                [] op.then = "start" -> CallReconcile(TRUE, "none")
                [] op.then \in {"checkpoint", "publish"} -> op' = [op EXCEPT !.step = "note"]
                [] OTHER -> op' = IdleOp
           /\ UNCHANGED <<blocked, queue, phase>>
  <2>1. mem'.journal = mem.journal /\ mem'.checkpoint = {}
    BY <1>0, <1>3 DEF TypeOK, Documents
  <2>2. disk'.checkpoint = {} BY <1>0, <1>3, WriteEffect, DocKinds
  <2>3. JournalInv' /\ PlayInv' BY <1>0, <1>2, <1>3, <2>1, KeepFrame
  <2>4. QueueInv'
    BY <1>0, <1>2, <1>3, <2>1 DEF ControlInv, QueueInv, Journaled, Gone, Present
  <2>5. CheckpointInv' BY <1>0, <2>1, <2>2 DEF ControlInv, CheckpointInv
  <2>6. CASE op.batch # {} /\ op' = [op EXCEPT !.step = "progress"]
    <3>1. /\ op'.step = "progress" /\ op'.batch = op.batch /\ op'.untouched = op.untouched
          /\ op'.then = op.then
      BY <1>0, <2>6 DEF Ops
    <3>2. MoveInv' BY <1>0, <2>6, NoMove, NoMoveInv
    <3>3. OpShape' BY <1>0, <3>1 DEF ControlInv, OpShape
    <3>4. OpInv'
      <4>1. (~blocked)' => (op.batch \subseteq Journaled /\ Gone(op.batch))'
        BY <1>0, <1>2, <1>3, <2>1, <3>1 DEF ControlInv, OpInv, Journaled, Gone, Present
      <4>2. (~blocked)' => (op.untouched \subseteq mem.journal /\ Kept(op.untouched))'
        BY <1>0, <1>3, <2>1, <3>1 DEF ControlInv, OpInv, Kept, Present
      <4>3. queue' = {} BY <1>0, <1>3, <2>6 DEF ControlInv, OpInv
      <4> QED BY <2>2, <3>1, <4>1, <4>2, <4>3 DEF OpInv
    <3> QED BY <1>2, <2>3, <2>4, <2>5, <3>2, <3>3, <3>4 DEF ControlInv
  <2>7. CASE op.then = "start" /\ CallReconcile(TRUE, "none")
    <3>1. ~exec BY <1>0, <2>7 DEF ControlInv, MoveInv
    <3>2. MoveInv' BY <1>0, <3>1, NoMoveInv
    <3>3. OpShape' /\ OpInv' BY <2>7, CallSettles, SettledOp DEF Continuations
    <3> QED BY <1>2, <2>3, <2>4, <2>5, <3>2, <3>3 DEF ControlInv
  <2>8. CASE op.batch = {} /\ op' = [op EXCEPT !.step = "note"]
    <3>1. /\ op'.step = "note" /\ op'.batch = {} /\ op'.untouched = {} /\ op'.then = op.then
      BY <1>0, <2>8 DEF Ops, ControlInv, OpShape
    <3>2. MoveInv'
      BY <1>0, <1>2, <2>1, <3>1 DEF ControlInv, MoveInv, Journaled, Gone, Kept, Present
    <3>3. OpShape' BY <3>1 DEF OpShape
    <3>4. OpInv' BY <3>1 DEF OpInv, Remapping
    <3> QED BY <1>2, <2>3, <2>4, <2>5, <3>2, <3>3, <3>4 DEF ControlInv
  <2>9. CASE op' = IdleOp
    <3>1. MoveInv'
      BY <1>0, <1>2, <2>1, <2>9 DEF ControlInv, MoveInv, IdleOp, Journaled, Gone, Kept, Present
    <3>2. OpShape' /\ OpInv' BY <2>9, CallSettles, SettledOp
    <3> QED BY <1>2, <2>3, <2>4, <2>5, <3>1, <3>2 DEF ControlInv
  <2>10. op.batch # {} => op' = [op EXCEPT !.step = "progress"]
    <3>1. op.batch # {} => op.then \notin {"start", "checkpoint", "publish"}
      BY <1>0 DEF ControlInv, OpShape, Continuations
    <3> QED BY <1>3, <3>1
  <2>11. op.batch = {} /\ op.then = "start" => CallReconcile(TRUE, "none") BY <1>3
  <2>12. op.batch = {} /\ op.then \in {"checkpoint", "publish"} =>
           op' = [op EXCEPT !.step = "note"]
    BY <1>3
  <2>13. op.batch = {} /\ op.then \notin {"start", "checkpoint", "publish"} => op' = IdleOp
    BY <1>3
  <2> QED BY <2>6, <2>7, <2>8, <2>9, <2>10, <2>11, <2>12, <2>13
<1>4. CASE Persist("checkpoint", {}, "error") /\ FlushFailed
  <2>1. UNCHANGED <<mem, blocked>> /\ QueueInv' BY <1>0, <1>2, <1>4, FailedQueue
  <2>2. JournalInv' /\ PlayInv' BY <1>0, <1>2, <2>1, KeepFrame
  <2>3. CheckpointInv'
    <3>1. CASE Playable = {}
      BY <1>0, <1>2, <2>1, <3>1, DocKinds DEF ControlInv, CheckpointInv
    <3>2. CASE ~LateErrors
      <4>1. disk' = disk BY <1>0, <1>4, <3>2, WriteEffect, DocKinds
      <4> QED BY <1>0, <2>1, <4>1 DEF ControlInv, CheckpointInv
    <3> QED BY <3>1, <3>2 DEF Careful
  <2>4. OpShape' /\ OpInv' BY <1>4, CallSettles, SettledOp
  <2>5. MoveInv'
    <3>1. CASE op.batch # {} BY <1>0, <3>1, NoMove, NoMoveInv
    <3>2. CASE op.batch = {}
      <4>1. op' = IdleOp BY <1>4, <3>2 DEF FlushFailed
      <4> QED BY <1>0, <1>2, <2>1, <4>1
              DEF ControlInv, MoveInv, IdleOp, Journaled, Gone, Kept, Present
    <3> QED BY <3>1, <3>2
  <2> QED BY <1>2, <2>1, <2>2, <2>3, <2>4, <2>5 DEF ControlInv
<1> QED BY <1>3, <1>4 DEF FlushClear

LEMMA IdNotePosition ==
  ASSUME Careful, IdentityInv, Running, NotePosition PROVE RowsInv' /\ ControlInv'
<1>0. /\ op.step = "note" /\ op \in Ops /\ op.batch = {} /\ op.untouched = {}
      /\ UNCHANGED <<fs, playing, exec, worker, blocked, queue, phase>>
      /\ TypeOK /\ RowsInv /\ ControlInv /\ StoreInv
  BY InvTypes DEF NotePosition, TypeOK, ControlInv, OpShape
<1>1. playing # Nothing /\ playing \in Rows /\ op.row = playing
  BY <1>0, InvTypes DEF TypeInv, PositionHeld, TypeOK, Saving, HeldRow
<1>2. Sound(playing) BY <1>0, <1>1 DEF RowsInv, Tracked
<1>3. \E outcome : Persist("checkpoint", {playing}, outcome) BY <1>1 DEF NotePosition
<1>4. /\ RowsInv' /\ disk'.journal = disk.journal
  BY <1>0, <1>2, <1>3, RowsWritten, DocKinds
<1>5. /\ mem'.journal = mem.journal /\ mem'.checkpoint = disk'.checkpoint
      /\ Playable # {}
  <2>1. Playable # {} /\ mem.checkpoint = disk.checkpoint
    BY <1>0, <1>1 DEF ControlInv, CheckpointInv
  <2>2. CASE Persist("checkpoint", {playing}, "ok") /\ mem' = [mem EXCEPT !.checkpoint = {playing}]
    BY <1>0, <2>1, <2>2, WriteEffect, DocKinds DEF TypeOK, Documents
  <2>3. CASE Persist("checkpoint", {playing}, "error") /\ UNCHANGED mem
    <3>1. disk' = disk BY <1>0, <2>1, <2>3, WriteEffect, DocKinds DEF Careful
    <3> QED BY <2>1, <2>3, <3>1
  <2> QED BY <1>1, <2>2, <2>3 DEF NotePosition
<1>6. JournalInv' /\ PlayInv' BY <1>0, <1>4, <1>5, KeepFrame
<1>7. QueueInv'
  BY <1>0, <1>4, <1>5 DEF ControlInv, QueueInv, Journaled, Gone, Present
<1>8. CheckpointInv' BY <1>5 DEF CheckpointInv
<1>9. /\ op'.step \in {"idle", "flush"} /\ op'.batch = {} /\ op'.untouched = {}
      /\ op'.then = "none" /\ (op'.step = "idle" => op' = IdleOp)
  BY DEF NotePosition, IdleOp
<1>10. MoveInv'
  BY <1>0, <1>4, <1>5, <1>9 DEF ControlInv, MoveInv, Journaled, Gone, Kept, Present
<1>11. OpShape' BY <1>9 DEF OpShape
<1>12. OpInv' BY <1>9 DEF OpInv, Remapping, Gone, Kept
<1> QED BY <1>4, <1>6, <1>7, <1>8, <1>10, <1>11, <1>12 DEF ControlInv

LEMMA IdInsertHistory ==
  ASSUME IdentityInv, Running, InsertHistory PROVE RowsInv' /\ ControlInv'
<1>0. /\ op.step = "insert" /\ op \in Ops /\ op.batch = {} /\ op.untouched = {}
      /\ UNCHANGED <<fs, playing, exec, worker, blocked, queue, phase>>
      /\ TypeOK /\ RowsInv /\ ControlInv /\ StoreInv
  BY InvTypes DEF InsertHistory, TypeOK, ControlInv, OpShape
<1>1. playing # Nothing /\ playing \in Rows
  BY <1>0, InvTypes DEF TypeInv, PositionHeld, TypeOK, Saving
<1>2. Sound(playing) BY <1>0, <1>1 DEF RowsInv, Tracked
<1> DEFINE rows == mem.history \cup {playing}
<1> HIDE DEF rows
<1>3. UNCHANGED disk \/ \E outcome : Persist("history", rows, outcome)
  BY DEF InsertHistory, rows
<1>4. disk'.history # disk.history => \A r \in Rows : r \in rows => Sound(r)
  <2> SUFFICES ASSUME disk' # disk, NEW r \in Rows, r \in rows PROVE Sound(r) OBVIOUS
  <2>1. ~blocked /\ "history" \notin stale BY <1>3, WriteEffect, DocKinds DEF Persist
  <2>2. "history" \notin Ahead BY <1>0 DEF Ahead
  <2>3. disk["history"] = mem["history"] BY <1>0, <2>1, <2>2, Synced, DocKinds
  <2>4. CASE r \in disk["history"]
    BY <1>0, <2>4, DocKinds DEF Tracked, RowsInv
  <2> QED BY <1>2, <2>3, <2>4 DEF rows
<1>5. /\ RowsInv' /\ disk'.journal = disk.journal
      /\ \A d \in Identities : d # "history" => disk'[d] = disk[d]
  BY <1>0, <1>3, <1>4, RowsWritten, DocKinds
<1>6. disk'.checkpoint = disk.checkpoint BY <1>5, DocKinds
<1>7. mem'.journal = mem.journal /\ mem'.checkpoint = mem.checkpoint
  BY <1>0 DEF InsertHistory, TypeOK, Documents
<1>8. JournalInv' /\ PlayInv' BY <1>0, <1>5, <1>7, KeepFrame
<1>9. QueueInv'
  BY <1>0, <1>5, <1>7 DEF ControlInv, QueueInv, Journaled, Gone, Present
<1>10. CheckpointInv' BY <1>0, <1>6, <1>7 DEF ControlInv, CheckpointInv
<1>11. /\ op'.step \in {"flush", "note"} /\ op'.batch = {} /\ op'.untouched = {}
       /\ op'.then = op.then
  BY <1>0, SaveStepType DEF InsertHistory, Ops
<1>12. MoveInv'
  BY <1>0, <1>5, <1>7, <1>11 DEF ControlInv, MoveInv, Journaled, Gone, Kept, Present
<1>13. OpShape' BY <1>11 DEF OpShape
<1>14. OpInv' BY <1>11 DEF OpInv, Remapping, Gone, Kept
<1> QED BY <1>5, <1>8, <1>9, <1>10, <1>12, <1>13, <1>14 DEF ControlInv

LEMMA IdRemapIdentities ==
  ASSUME IdentityInv, Running, RemapIdentities PROVE RowsInv' /\ ControlInv'
<1> DEFINE rows == Remap(mem[op.step], op.batch)
<1> HIDE DEF rows
<1>0. /\ op.step \in Remapped /\ op \in Ops /\ op.step \in Remapping /\ op.step \in Identities
      /\ op.step \in Docs /\ op.step # "checkpoint" /\ op.step \notin Ahead
      /\ UNCHANGED <<fs, playing, exec, worker>>
      /\ TypeOK /\ RowsInv /\ ControlInv /\ StoreInv
  BY InvTypes, DocKinds DEF RemapIdentities, TypeOK, Remapping, Remapped, Ahead
<1>1. ~exec BY <1>0, NoMove DEF Remapped
<1>2. UNCHANGED disk \/ \E outcome : Persist(op.step, rows, outcome)
  BY DEF RemapIdentities, rows
<1>3. ~blocked => /\ op.batch \subseteq Journaled /\ Gone(op.batch) /\ Compatible(op.batch)
                  /\ op.untouched \subseteq mem.journal /\ Kept(op.untouched)
  <2> SUFFICES ASSUME ~blocked
               PROVE  /\ op.batch \subseteq Journaled /\ Gone(op.batch) /\ Compatible(op.batch)
                      /\ op.untouched \subseteq mem.journal /\ Kept(op.untouched)
    OBVIOUS
  <2>1. op.batch \subseteq Journaled /\ Gone(op.batch) BY <1>0 DEF ControlInv, OpInv
  <2>2. Compatible(op.batch)
    BY <1>0, <2>1, CompatibleSubset DEF ControlInv, JournalInv, Journaled
  <2> QED BY <1>0, <2>1, <2>2 DEF ControlInv, OpInv
<1>4. disk'[op.step] # disk[op.step] => \A r \in Rows : r \in rows => Sound(r)
  <2> SUFFICES ASSUME disk' # disk, NEW r \in Rows, r \in rows PROVE Sound(r) OBVIOUS
  <2>1. ~blocked /\ op.step \notin stale BY <1>2, WriteEffect DEF Persist
  <2>2. disk[op.step] = mem[op.step] BY <1>0, <2>1, Synced
  <2>3. PICK s \in disk[op.step] : r = RemapRow(s, op.batch)
    BY <2>2 DEF rows, Remap
  <2>4. s \in Rows BY <1>0, <2>3 DEF TypeOK, Documents, Remapped
  <2>5. Sound(s) BY <1>0, <2>3, <2>4 DEF RowsInv, Tracked
  <2>6. Compatible(disk.journal) BY <1>0, CompatibleSubset DEF ControlInv, JournalInv
  <2>7. op.batch \in SUBSET disk.journal /\ Gone(op.batch) BY <1>3, <2>1 DEF Journaled
  <2> QED BY <1>0, <2>3, <2>4, <2>5, <2>6, <2>7, SoundRemapping
<1>5. /\ RowsInv' /\ disk'.journal = disk.journal
      /\ \A d \in Identities : d # op.step => disk'[d] = disk[d]
  BY <1>0, <1>2, <1>4, RowsWritten
<1>6. disk'.checkpoint = disk.checkpoint /\ disk.checkpoint = {} /\ queue = {}
  BY <1>0, <1>5, DocKinds DEF ControlInv, OpInv, Remapped
<1>7. CASE /\ Persist(op.step, rows, "ok")
           /\ op' = [op EXCEPT !.step = NextStep(@)]
           /\ UNCHANGED <<mem, blocked, queue, pending, failure, phase, selection>>
  <2>1. ~blocked /\ disk'[op.step] = rows BY <1>0, <1>7, WriteEffect
  <2>2. /\ op'.step = NextStep(op.step) /\ op'.batch = op.batch
        /\ op'.untouched = op.untouched /\ op'.then = op.then
    BY <1>0, <1>7 DEF Ops
  <2>3. /\ op.step = "progress" => NextStep(op.step) = "history"
        /\ op.step = "history" => NextStep(op.step) = "journal"
        /\ NextStep(op.step) \in {"history", "journal"}
    BY <1>0 DEF NextStep, Remapped
  <2>4. \A r \in rows : r.path \notin Sources(op.batch)
    <3> SUFFICES ASSUME NEW s \in mem[op.step]
                 PROVE  RemapRow(s, op.batch).path \notin Sources(op.batch)
      BY DEF rows, Remap
    <3>1. s \in Rows BY <1>0 DEF TypeOK, Documents, Remapped
    <3>2. RemapRow(s, op.batch).path = RemapPath(s.path, op.batch)
      BY <3>1 DEF RemapRow, Rows
    <3> QED BY <1>3, <2>1, <3>2, RemapPathFacts
  <2>5. JournalInv' /\ PlayInv' BY <1>0, <1>5, <1>7, KeepFrame
  <2>6. QueueInv' BY <1>6, <1>7 DEF QueueInv, Gone
  <2>7. CheckpointInv' BY <1>0, <1>6, <1>7 DEF ControlInv, CheckpointInv
  <2>8. MoveInv' BY <1>0, <1>1, NoMoveInv
  <2>9. OpShape' BY <1>0, <2>2, <2>3 DEF ControlInv, OpShape, Remapped
  <2>10. OpInv'
    <3>1. (op.batch \subseteq Journaled /\ Gone(op.batch))'
      BY <1>0, <1>3, <1>5, <1>7, <2>1, <2>2 DEF Journaled, Gone, Present
    <3>2. (op.untouched \subseteq mem.journal /\ Kept(op.untouched))'
      BY <1>0, <1>3, <1>7, <2>1, <2>2 DEF Kept, Present
    <3>3. \A r \in disk'.progress : r.path \notin Sources(op'.batch)
      <4>1. CASE op.step = "progress" BY <2>1, <2>2, <2>4, <4>1
      <4>2. CASE op.step = "history"
        <5>1. disk'["progress"] = disk["progress"] BY <1>5, <4>2, DocKinds
        <5> QED BY <1>0, <2>2, <4>2, <5>1 DEF ControlInv, OpInv
      <4> QED BY <1>0, <4>1, <4>2 DEF Remapped
    <3>4. op'.step = "journal" => \A r \in disk'.history : r.path \notin Sources(op'.batch)
      BY <1>0, <2>1, <2>2, <2>3, <2>4 DEF Remapped
    <3> QED BY <1>6, <1>7, <2>2, <2>3, <3>1, <3>2, <3>3, <3>4 DEF OpInv
  <2> QED BY <1>5, <2>5, <2>6, <2>7, <2>8, <2>9, <2>10 DEF ControlInv
<1>8. CASE RemapFailed
  <2>1. UNCHANGED mem /\ (blocked => blocked') /\ QueueInv'
    BY <1>0, <1>5, <1>8, FailedQueue
  <2>2. JournalInv' /\ PlayInv' BY <1>0, <1>5, <2>1, KeepFrame
  <2>3. CheckpointInv' BY <1>0, <1>6, <2>1 DEF ControlInv, CheckpointInv
  <2>4. OpShape' /\ OpInv' BY <1>8, CallSettles, SettledOp
  <2>5. MoveInv' BY <1>0, <1>1, NoMoveInv
  <2> QED BY <1>5, <2>1, <2>2, <2>3, <2>4, <2>5 DEF ControlInv
<1> QED BY <1>7, <1>8 DEF RemapIdentities, rows

-----------------------------------------------------------------------------
(* The writes of the journal *)

\* Intents leave the durable journal: no row needs them any more.
LEMMA IntentsForgotten ==
  ASSUME StoreInv, RowsInv, Running, UNCHANGED <<fs, playing>>, NEW ms, NEW outcome,
         Persist("journal", mem.journal \ ms, outcome),
         ~blocked => \A m \in disk.journal : m \in ms =>
           \A r \in Rows : Tracked(r) => Present(m.source) \/ r.path # m.source
  PROVE  /\ RowsInv' /\ disk'.journal \subseteq disk.journal
         /\ \A d \in Identities : disk'[d] = disk[d]
         /\ \/ disk'.journal = disk.journal /\ outcome = "error"
            \/ /\ ~blocked /\ disk.journal = mem.journal
               /\ disk'.journal = disk.journal \ ms
<1>0. TypeOK BY DEF StoreInv, TypeInv
<1>1. \A d \in Identities : disk'[d] = disk[d] BY <1>0, WriteEffect, DocKinds
<1>2. \/ disk'.journal = disk.journal /\ outcome = "error"
      \/ /\ ~blocked /\ disk.journal = mem.journal
         /\ disk'.journal = disk.journal \ ms
  <2>1. "journal" \notin Ahead BY DEF Ahead, Remapped
  <2>2. \/ disk'["journal"] = mem.journal \ ms /\ ~blocked /\ "journal" \notin stale
        \/ outcome = "error" /\ disk'["journal"] = disk["journal"]
    BY <1>0, WriteEffect, DocKinds
  <2>3. ~blocked /\ "journal" \notin stale => disk["journal"] = mem["journal"]
    BY <2>1, Synced, DocKinds
  <2> QED BY <2>2, <2>3
<1>3. disk'.journal \subseteq disk.journal BY <1>2
<1>4. ASSUME NEW r \in Rows, Tracked(r)' PROVE Sound(r)'
  <2>1. Tracked(r) BY <1>1, <1>4 DEF Tracked
  <2>2. Sound(r) BY <2>1 DEF RowsInv
  <2>3. \A m \in disk.journal \ disk'.journal : Present(m.source) \/ r.path # m.source
    BY <1>2, <2>1
  <2> QED BY <1>3, <2>2, <2>3, SoundForgetting
<1> QED BY <1>1, <1>2, <1>3, <1>4 DEF RowsInv

LEMMA IdRemapJournal ==
  ASSUME IdentityInv, Running, RemapJournal PROVE RowsInv' /\ ControlInv'
<1>0. /\ op.step = "journal" /\ op \in Ops /\ op.step \in Remapping
      /\ UNCHANGED <<fs, playing, exec, worker>>
      /\ TypeOK /\ RowsInv /\ ControlInv /\ StoreInv
  BY InvTypes DEF RemapJournal, TypeOK, Remapping
<1>1. ~exec BY <1>0, NoMove
<1>2. /\ \A r \in disk.progress : r.path \notin Sources(op.batch)
      /\ \A r \in disk.history : r.path \notin Sources(op.batch)
      /\ disk.checkpoint = {} /\ queue = {}
  BY <1>0 DEF ControlInv, OpInv
<1>3. ASSUME NEW m \in disk.journal, m \in op.batch, NEW r \in Rows, Tracked(r)
      PROVE  Present(m.source) \/ r.path # m.source
  <2>1. CASE \E d \in Identities : r \in disk[d]
    <3>1. r \in disk.progress \/ r \in disk.history BY <1>2, <2>1, DocKinds
    <3>2. r.path \notin Sources(op.batch) BY <1>2, <3>1
    <3> QED BY <1>3, <3>2 DEF Sources
  <2>2. CASE playing # Nothing /\ r = playing
    BY <1>0, <1>1, <2>2 DEF ControlInv, PlayInv
  <2> QED BY <1>3, <2>1, <2>2 DEF Tracked
<1>4. ASSUME NEW outcome, Persist("journal", mem.journal \ op.batch, outcome)
      PROVE  /\ RowsInv' /\ disk'.journal \subseteq disk.journal
             /\ \A d \in Identities : disk'[d] = disk[d]
             /\ \/ disk'.journal = disk.journal /\ outcome = "error"
                \/ /\ ~blocked /\ disk.journal = mem.journal
                   /\ disk'.journal = disk.journal \ op.batch
  BY <1>0, <1>3, <1>4, IntentsForgotten
<1>5. CASE /\ Persist("journal", mem.journal \ op.batch, "ok")
           /\ mem' = [mem EXCEPT !.progress = Remap(@, op.batch),
                                 !.history = Remap(@, op.batch),
                                 !.journal = mem.journal \ op.batch]
           /\ \/ Return(TRUE) \/ Reconciled(op.unresolved)
              \/ op' = [op EXCEPT !.step = "discard", !.batch = {}]
           /\ UNCHANGED <<queue, blocked>>
  <2>1. /\ RowsInv' /\ disk'["checkpoint"] = disk["checkpoint"] /\ ~blocked
        /\ disk'.journal \subseteq disk.journal
        /\ disk.journal = mem.journal /\ disk'.journal = disk.journal \ op.batch
    BY <1>4, <1>5, DocKinds
  <2>2. mem'.journal = disk'.journal /\ mem'.checkpoint = mem.checkpoint
    BY <1>0, <1>5, <2>1 DEF TypeOK, Documents
  <2>3. PlayInv' BY <1>0, <1>5, <2>1, KeepFrame
  <2>4. JournalInv'
    <3>1. Compatible(disk'.journal \cup mem'.journal)
      BY <1>0, <2>1, <2>2, CompatibleSubset DEF ControlInv, JournalInv
    <3> QED BY <2>2, <3>1 DEF JournalInv, Kept
  <2>5. QueueInv' BY <1>2, <1>5 DEF QueueInv, Gone
  <2>6. CheckpointInv' BY <1>0, <2>1, <2>2 DEF ControlInv, CheckpointInv
  <2>7. MoveInv' BY <1>0, <1>1, NoMoveInv
  <2>8. OpShape' /\ OpInv'
    <3>1. CASE Return(TRUE) \/ Reconciled(op.unresolved)
      BY <3>1, CallSettles, SettledOp
    <3>2. CASE op' = [op EXCEPT !.step = "discard", !.batch = {}]
      <4>1. op'.step = "discard" /\ op'.batch = {} /\ op'.untouched = op.untouched
        BY <1>0, <3>2 DEF Ops
      <4>2. /\ op.untouched \subseteq mem.journal /\ Kept(op.untouched)
            /\ Gone(op.batch)
        BY <1>0, <2>1 DEF ControlInv, OpInv
      <4>3. op.untouched \subseteq mem.journal \ op.batch BY <4>2 DEF Kept, Gone
      <4>4. (op.untouched \subseteq mem.journal /\ Kept(op.untouched))'
        BY <1>0, <2>1, <2>2, <4>1, <4>2, <4>3 DEF Kept, Present
      <4>5. OpShape' BY <4>1 DEF OpShape
      <4>6. OpInv' BY <1>2, <1>5, <4>1, <4>4 DEF OpInv, Remapping
      <4> QED BY <4>5, <4>6
    <3> QED BY <1>5, <3>1, <3>2
  <2> QED BY <2>1, <2>3, <2>4, <2>5, <2>6, <2>7, <2>8 DEF ControlInv
<1>6. CASE Persist("journal", mem.journal \ op.batch, "error") /\ RemapFailed
  <2>1. /\ RowsInv' /\ disk'["checkpoint"] = disk["checkpoint"]
        /\ disk'.journal \subseteq disk.journal
    BY <1>4, <1>6, DocKinds
  <2>2. blocked' = TRUE /\ UNCHANGED mem BY <1>0, <1>6 DEF RemapFailed, Published
  <2>3. PlayInv' BY <1>0, <2>1, <2>2, KeepFrame
  <2>4. JournalInv'
    <3>1. disk'.journal \cup mem'.journal \in SUBSET (disk.journal \cup mem.journal)
      BY <2>1, <2>2
    <3>2. Compatible(disk'.journal \cup mem'.journal)
      BY <1>0, <3>1, CompatibleSubset DEF ControlInv, JournalInv
    <3> QED BY <2>2, <3>2 DEF JournalInv
  <2>5. QueueInv' BY <2>2 DEF QueueInv
  <2>6. CheckpointInv' BY <1>0, <2>1, <2>2 DEF ControlInv, CheckpointInv
  <2>7. MoveInv' BY <1>0, <1>1, NoMoveInv
  <2>8. OpShape' /\ OpInv' BY <1>6, CallSettles, SettledOp
  <2> QED BY <2>1, <2>3, <2>4, <2>5, <2>6, <2>7, <2>8 DEF ControlInv
<1> QED BY <1>5, <1>6 DEF RemapJournal

\* Intents whose files did not move are withdrawn.
LEMMA Withdrawn ==
  ASSUME IdentityInv, Running, ~exec, UNCHANGED <<fs, playing, exec, worker, blocked, queue>>,
         NEW ms, ~blocked => Kept(ms),
         \/ /\ Persist("journal", mem.journal \ ms, "ok")
            /\ mem' = [mem EXCEPT !.journal = mem.journal \ ms]
         \/ /\ Persist("journal", mem.journal \ ms, "error")
            /\ UNCHANGED mem
  PROVE  RowsInv' /\ JournalInv' /\ QueueInv' /\ CheckpointInv' /\ PlayInv' /\ MoveInv'
<1>0. TypeOK /\ RowsInv /\ ControlInv /\ StoreInv BY InvTypes
<1>1. ASSUME NEW outcome, Persist("journal", mem.journal \ ms, outcome)
      PROVE  /\ RowsInv' /\ disk'.journal \subseteq disk.journal
             /\ \A d \in Identities : disk'[d] = disk[d]
             /\ \/ disk'.journal = disk.journal /\ outcome = "error"
                \/ /\ ~blocked /\ disk.journal = mem.journal
                   /\ disk'.journal = disk.journal \ ms
  <2>1. ~blocked => \A m \in disk.journal : m \in ms =>
           \A r \in Rows : Tracked(r) => Present(m.source) \/ r.path # m.source
    BY DEF Kept
  <2> QED BY <1>0, <1>1, <2>1, IntentsForgotten
<1>2. /\ RowsInv' /\ disk'.journal \subseteq disk.journal
      /\ disk'["checkpoint"] = disk["checkpoint"]
  BY <1>1, DocKinds
<1>3. /\ mem'.checkpoint = mem.checkpoint
      /\ \/ mem'.journal = mem.journal /\ disk'.journal = disk.journal
         \/ /\ ~blocked /\ disk.journal = mem.journal /\ disk'.journal = disk.journal \ ms
            /\ mem'.journal \in {mem.journal, disk'.journal}
  <2>1. CASE /\ Persist("journal", mem.journal \ ms, "ok")
             /\ mem' = [mem EXCEPT !.journal = mem.journal \ ms]
    BY <1>0, <1>1, <2>1 DEF TypeOK, Documents
  <2>2. CASE Persist("journal", mem.journal \ ms, "error") /\ UNCHANGED mem
    BY <1>1, <2>2
  <2> QED BY <2>1, <2>2
<1>4. PlayInv' BY <1>0, <1>2, KeepFrame
<1>5. JournalInv'
  <2>1. disk'.journal \cup mem'.journal \in SUBSET (disk.journal \cup mem.journal)
    BY <1>2, <1>3
  <2>2. Compatible(disk'.journal \cup mem'.journal)
    BY <1>0, <2>1, CompatibleSubset DEF ControlInv, JournalInv
  <2>3. ~blocked => Kept(mem'.journal \ disk'.journal)
    BY <1>0, <1>3 DEF ControlInv, JournalInv, Kept
  <2> QED BY <2>2, <2>3 DEF JournalInv, Kept, Present
<1>6. QueueInv'
  <2>1. ~blocked => queue \subseteq disk.journal /\ queue \subseteq mem.journal /\ Gone(queue)
    BY <1>0 DEF ControlInv, QueueInv, Journaled
  <2>2. ~blocked => queue \cap ms = {} BY <2>1 DEF Gone, Kept
  <2>3. ~blocked => queue \subseteq disk'.journal \cap mem'.journal BY <1>3, <2>1, <2>2
  <2> QED BY <2>1, <2>3 DEF QueueInv, Journaled, Gone, Present
<1>7. CheckpointInv' BY <1>0, <1>2, <1>3 DEF ControlInv, CheckpointInv
<1>8. MoveInv' BY NoMoveInv
<1> QED BY <1>2, <1>4, <1>5, <1>6, <1>7, <1>8

LEMMA IdDiscardUntouched ==
  ASSUME IdentityInv, Running, DiscardUntouched PROVE RowsInv' /\ ControlInv'
<1>0. /\ op.step = "discard" /\ UNCHANGED <<fs, playing, exec, worker, blocked, queue>>
      /\ ControlInv
  BY InvTypes DEF DiscardUntouched
<1>1. ~exec BY <1>0, NoMove
<1>2. ~blocked => Kept(op.untouched) BY <1>0 DEF ControlInv, OpInv
<1>3. RowsInv' /\ JournalInv' /\ QueueInv' /\ CheckpointInv' /\ PlayInv' /\ MoveInv'
  BY <1>0, <1>1, <1>2, Withdrawn DEF DiscardUntouched
<1>4. Reconciled(op.unresolved) \/ Return(FALSE) BY DEF DiscardUntouched
<1>5. OpShape' /\ OpInv' BY <1>4, CallSettles, SettledOp
<1> QED BY <1>3, <1>5 DEF ControlInv

LEMMA IdUndoIntent ==
  ASSUME IdentityInv, Running, UndoIntent PROVE RowsInv' /\ ControlInv'
<1>0. /\ op.step = "undo" /\ UNCHANGED <<fs, playing, exec, worker, blocked, queue>>
      /\ ControlInv
  BY InvTypes DEF UndoIntent
<1>1. ~exec BY <1>0, NoMove
<1>2. Kept(op.batch) BY <1>0 DEF ControlInv, OpInv
<1>3. RowsInv' /\ JournalInv' /\ QueueInv' /\ CheckpointInv' /\ PlayInv' /\ MoveInv'
  BY <1>0, <1>1, <1>2, Withdrawn DEF UndoIntent
<1>5. OpShape' /\ OpInv' BY CallSettles, SettledOp DEF UndoIntent
<1> QED BY <1>3, <1>5 DEF ControlInv

-----------------------------------------------------------------------------
(* Files move *)

\* Only the moved mapping's endpoints change, and no other intent has its source
\* at one of them.
LEMMA OtherSources ==
  ASSUME TypeOK, ControlInv, NEW m \in disk.journal,
         \A p \in Paths : p \notin {m.source, m.target} => fs'[p] = fs[p],
         NEW n \in disk.journal \cup mem.journal, n # m
  PROVE  fs'[n.source] = fs[n.source]
<1>1. n.source # m.source /\ n.source # m.target
  BY CompatibleFacts DEF ControlInv, JournalInv
<1>2. n \in Mappings BY JournalTypes
<1>3. n.source \in Paths BY <1>2, MappingPaths
<1> QED BY <1>1, <1>3

\* A kept file is still held somewhere.
LEMMA HeldStays ==
  ASSUME KeepsFiles, NEW f \in Files, Held(f) PROVE Held(f)'
<1>1. PICK p \in Paths : fs[p] = f BY DEF Held
<1>2. Present(p) BY <1>1, ConstantsAssumption DEF Present
<1> QED BY <1>1, <1>2 DEF KeepsFiles, Held

\* What an intent's own move does to the sources of all the others.
LEMMA SourcesMoved ==
  ASSUME TypeOK, ControlInv, NEW m \in disk.journal,
         UNCHANGED <<disk, mem, blocked>>,
         \A p \in Paths : p \notin {m.source, m.target} => fs'[p] = fs[p],
         m \notin queue \/ ~Present(m.source)', UNCHANGED queue
  PROVE  JournalInv' /\ QueueInv'
<1>1. ASSUME NEW n \in disk.journal \cup mem.journal, n # m
      PROVE  Present(n.source)' <=> Present(n.source)
  BY <1>1, OtherSources DEF Present
<1>2. JournalInv' BY <1>1 DEF ControlInv, JournalInv, Kept
<1>3. QueueInv'
  <2> SUFFICES ASSUME ~blocked PROVE queue \subseteq Journaled /\ Gone(queue)'
    BY DEF QueueInv, Journaled
  <2>1. queue \subseteq Journaled /\ Gone(queue) BY DEF ControlInv, QueueInv
  <2>2. ASSUME NEW n \in queue PROVE ~Present(n.source)'
    <3>1. CASE n = m BY <3>1
    <3>2. CASE n # m BY <1>1, <2>1, <3>2 DEF Journaled, Gone
    <3> QED BY <3>1, <3>2
  <2> QED BY <2>1, <2>2 DEF Gone
<1> QED BY <1>2, <1>3

\* What is playing stays where it is believed to be.
LEMMA PlayStays ==
  ASSUME TypeOK, ControlInv, KeepsFiles, Running, UNCHANGED <<disk, playing>>,
         \A n \in disk.journal :
           n.source = playing.path /\ (Present(n.source) \/ (exec /\ n \in worker.done)) =>
             Present(n.source)' \/ (exec' /\ n \in worker'.done)
  PROVE  PlayInv'
<1> SUFFICES ASSUME playing # Nothing
             PROVE  /\ Held(playing.file)'
                    /\ \A n \in disk.journal : n.source = playing.path =>
                         Present(n.source)' \/ (exec' /\ n \in worker'.done)
  BY DEF PlayInv
<1>1. /\ Held(playing.file) /\ playing.file \in Files
      /\ \A n \in disk.journal : n.source = playing.path =>
           Present(n.source) \/ (exec /\ n \in worker.done)
  BY DEF ControlInv, PlayInv, TypeOK, Rows
<1>2. PICK f \in Files : f = playing.file BY <1>1
<1>3. Held(f) BY <1>1, <1>2
<1>4. Held(f)' BY <1>3, HeldStays
<1>5. Held(playing.file)' BY <1>2, <1>4
<1> QED BY <1>1, <1>5

LEMMA IdLinkTarget ==
  ASSUME IdentityInv, KeepsFiles, Running, NEW m \in Mappings, LinkTarget(m)
  PROVE  RowsInv' /\ ControlInv'
<1>0. /\ op.step = "rename" /\ op.batch = {m} /\ op \in Ops
      /\ UNCHANGED <<disk, mem, blocked, exec, queue, playing, worker>>
      /\ TypeOK /\ RowsInv /\ ControlInv
      /\ m.source \in Paths /\ m.target \in Paths /\ m.source # m.target
  BY InvTypes, MappingPaths DEF LinkTarget, TypeOK
<1>1. ~exec BY <1>0, NoMove
<1>2. m \in Journaled /\ m \in disk.journal /\ Present(m.source) /\ op.then \in Continuations
  BY <1>0 DEF ControlInv, OpInv, Journaled, Kept, OpShape
<1>3. /\ op'.step \in {"unlink", "undo"} /\ op'.batch = {m} /\ op'.then \in Continuations
  BY <1>0, <1>2 DEF LinkTarget, Ops
<1>4. (fs' = [fs EXCEPT ![m.target] = fs[m.source]] /\ Movable(m)) \/ UNCHANGED fs
  BY DEF LinkTarget
<1>5. \A p \in Paths : p # m.target => fs'[p] = fs[p] BY <1>0, <1>4 DEF TypeOK
<1>6. Compatible(disk.journal) BY <1>0, CompatibleSubset DEF ControlInv, JournalInv
<1>7. RowsInv'
  <2> SUFFICES ASSUME NEW r \in Rows, Tracked(r) PROVE Sound(r)'
    BY <1>0 DEF RowsInv, Tracked, LinkTarget, Running
  <2>1. Sound(r) BY <1>0 DEF RowsInv
  <2> QED BY <1>0, <1>2, <1>4, <1>6, <2>1, SoundCopying, SoundFrame
<1>8. JournalInv' /\ QueueInv'
  <2>1. m \notin queue \/ blocked BY <1>0, <1>2 DEF ControlInv, QueueInv, Gone
  <2>2. CASE blocked
    BY <1>0, <2>2 DEF ControlInv, JournalInv, QueueInv
  <2> QED BY <1>0, <1>2, <1>5, <2>1, <2>2, SourcesMoved
<1>9. CheckpointInv' BY <1>0 DEF ControlInv, CheckpointInv, LinkTarget, Running
<1>10. PlayInv'
  <2>1. \A n \in disk.journal : n.source \in Paths /\ n.source # m.target
    BY <1>0, <1>2, <1>6, JournalTypes, MappingPaths, CompatibleFacts
  <2> QED BY <1>0, <1>1, <1>5, <2>1, PlayStays DEF Present
<1>11. MoveInv' BY <1>0, <1>1, NoMoveInv
<1>12. OpShape' BY <1>3 DEF OpShape
<1>13. OpInv'
  <2>1. Present(m.source)' BY <1>0, <1>2, <1>5 DEF Present
  <2> QED BY <1>0, <1>2, <1>3, <2>1 DEF OpInv, Remapping, Journaled, Kept
<1> QED BY <1>7, <1>8, <1>9, <1>10, <1>11, <1>12, <1>13 DEF ControlInv

\* SoundRemapping, for the state a step leads to.
RemapSound ==
  TypeOK /\ Compatible(disk.journal) =>
    \A ms \in SUBSET disk.journal : \A r \in Rows :
      Gone(ms) /\ Sound(r) => Sound(RemapRow(r, ms))

LEMMA RemapSoundHolds == RemapSound
BY SoundRemapping DEF RemapSound

LEMMA RemapSoundNext == RemapSound'
BY RemapSoundHolds, PTL

\* What is playing follows the completed moves: it leads to its file, and no
\* intent has taken that away.
LEMMA PlayingFollows ==
  ASSUME TypeOK, TypeOK', ControlInv, KeepsFiles, Running, UNCHANGED <<disk, mem>>,
         NEW ms \in SUBSET disk.journal, Gone(ms)',
         playing' = IF playing.path \in Sources(ms) THEN RemapRow(playing, ms) ELSE playing,
         \A r \in Rows : Tracked(r) => Sound(r)',
         \A n \in disk.journal : n \notin ms /\ n.source = playing.path => Present(n.source)'
  PROVE  /\ \A r \in Rows : playing' # Nothing /\ r = playing' => Sound(r)'
         /\ PlayInv' /\ CheckpointInv'
<1>1. Compatible(disk.journal) /\ Compatible(ms)
  BY CompatibleSubset DEF ControlInv, JournalInv
<1>2. \A n \in disk.journal : n.source \in Paths /\ n.target \in Paths
  BY JournalTypes, MappingPaths
<1>3. CASE playing = Nothing
  <2>1. playing.path \notin Sources(ms)
    BY <1>2, <1>3, ConstantsAssumption DEF Sources, Nothing
  <2>2. playing' = Nothing BY <1>3, <2>1
  <2> QED BY <2>2 DEF PlayInv, ControlInv, CheckpointInv, Running
<1>4. CASE playing # Nothing
  <2>1. playing \in Rows BY <1>4 DEF TypeOK
  <2>2. PICK s \in Rows : s = playing BY <2>1
  <2>3. Sound(s)' BY <1>4, <2>2 DEF Tracked
  <2>4. PICK f \in Files : f = playing.file BY <2>1 DEF Rows
  <2>5. Held(f)'
    <3>1. Held(f) BY <1>4, <2>4 DEF ControlInv, PlayInv
    <3> QED BY <3>1, HeldStays
  <2>6. CASE playing.path \notin Sources(ms)
    <3>1. playing' = playing BY <2>6
    <3>2. \A n \in disk.journal : n.source = playing.path => Present(n.source)'
      BY <2>6 DEF Sources
    <3>3. PlayInv' BY <2>4, <2>5, <3>1, <3>2 DEF PlayInv
    <3>4. CheckpointInv' BY <3>1 DEF ControlInv, CheckpointInv, Running
    <3> QED BY <2>2, <2>3, <3>1, <3>3, <3>4
  <2>7. CASE playing.path \in Sources(ms)
    <3>1. playing' = RemapRow(playing, ms) BY <2>7
    <3>2. PICK m \in ms : m.source = playing.path /\ RemapPath(playing.path, ms) = m.target
      BY <1>1, <2>7, RemapPathFacts
    <3>3. playing'.path = m.target /\ playing'.file = playing.file
      BY <2>1, <3>1, <3>2 DEF RemapRow, Rows
    <3>4. \A n \in disk.journal : n.source # playing'.path
      BY <1>1, <3>3, CompatibleFacts
    <3>5. PlayInv' BY <2>4, <2>5, <3>3, <3>4 DEF PlayInv
    <3>6. CheckpointInv' BY <1>4 DEF ControlInv, CheckpointInv, Running
    <3>7. Sound(RemapRow(s, ms))'
      <4>1. TypeOK' /\ Compatible(disk.journal)' /\ ms \in SUBSET disk'.journal
        BY <1>1
      <4> QED BY <2>3, <4>1, RemapSoundNext DEF RemapSound
    <3>8. ASSUME NEW r \in Rows, r = playing' PROVE Sound(r)'
      <4>1. r = RemapRow(s, ms) BY <2>2, <3>1, <3>8
      <4> QED BY <3>7, <4>1
    <3> QED BY <3>5, <3>6, <3>8
  <2> QED BY <2>6, <2>7
<1> QED BY <1>3, <1>4

LEMMA IdUnlinkSource ==
  ASSUME IdentityInv, TypeOK', KeepsFiles, Running, NEW m \in Mappings, UnlinkSource(m)
  PROVE  RowsInv' /\ ControlInv'
<1>0. /\ op.step = "unlink" /\ op.batch = {m} /\ op \in Ops
      /\ UNCHANGED <<disk, mem, blocked, exec, worker, phase>>
      /\ TypeOK /\ RowsInv /\ ControlInv /\ Twins(m)
      /\ m.source \in Paths /\ m.target \in Paths /\ m.source # m.target
  BY InvTypes, MappingPaths DEF UnlinkSource, TypeOK, TwinInv
<1>1. ~exec BY <1>0, NoMove
<1>2. m \in Journaled /\ m \in disk.journal /\ Present(m.source) /\ op.then \in Continuations
  BY <1>0 DEF ControlInv, OpInv, Journaled, Kept, OpShape
<1>3. Compatible(disk.journal) BY <1>0, CompatibleSubset DEF ControlInv, JournalInv
<1>4. MoveInv' BY <1>0, <1>1, NoMoveInv
<1>5. ~blocked => m \notin queue BY <1>0, <1>2 DEF ControlInv, QueueInv, Gone
<1>6. CASE /\ fs' = [fs EXCEPT ![m.source] = NoFile]
           /\ ApplyCompleted({m})
           /\ CallPersist(FALSE, "none")
  <2>1. \A p \in Paths : p # m.source => fs'[p] = fs[p] BY <1>0, <1>6 DEF TypeOK
  <2>2. ~Present(m.source)' BY <1>0, <1>6 DEF TypeOK, Present
  <2>3. \A n \in disk.journal \cup mem.journal : n # m =>
          (Present(n.source)' <=> Present(n.source))
    BY <1>0, <1>2, <2>1, OtherSources DEF Present
  <2>4. JournalInv'
    BY <1>0, <1>2, <2>3 DEF ControlInv, JournalInv, Kept
  <2>5. QueueInv'
    <3>1. queue' = queue \cup {m} BY <1>6 DEF ApplyCompleted
    <3>2. ~blocked => queue \subseteq Journaled /\ Gone(queue)
      BY <1>0 DEF ControlInv, QueueInv
    <3>3. ~blocked => \A n \in queue' : n \in Journaled /\ ~Present(n.source)'
      BY <1>2, <2>2, <2>3, <3>1, <3>2 DEF Journaled, Gone
    <3> QED BY <1>0, <3>3 DEF QueueInv, Journaled, Gone
  <2>6. \A r \in Rows : Tracked(r) => Sound(r)'
    BY <1>0, <1>2, <1>3, <1>6, SoundDetaching DEF RowsInv
  <2>7. /\ \A r \in Rows : playing' # Nothing /\ r = playing' => Sound(r)'
        /\ PlayInv' /\ CheckpointInv'
    <3>1. playing' = IF playing.path \in Sources({m}) THEN RemapRow(playing, {m}) ELSE playing
      BY <1>6 DEF ApplyCompleted
    <3>2. \A n \in disk.journal : n \notin {m} /\ n.source = playing.path =>
            Present(n.source)'
      <4> SUFFICES ASSUME NEW n \in disk.journal, n # m, n.source = playing.path
                   PROVE  Present(n.source)
        BY <2>3
      <4>1. playing # Nothing
        BY JournalTypes, MappingPaths, ConstantsAssumption, <1>0 DEF Nothing
      <4> QED BY <1>0, <1>1, <4>1 DEF ControlInv, PlayInv
    <3>3. Gone({m})' BY <2>2 DEF Gone
    <3>4. {m} \in SUBSET disk.journal BY <1>2
    <3> QED BY <1>0, <2>6, <3>1, <3>2, <3>3, <3>4, PlayingFollows
  <2>8. RowsInv'
    <3>1. ASSUME NEW r \in Rows, Tracked(r)' PROVE Sound(r)'
      <4>1. CASE \E d \in Identities : r \in disk'[d] BY <1>0, <2>6, <4>1 DEF Tracked
      <4>2. CASE playing' # Nothing /\ r = playing' BY <2>7, <4>2
      <4> QED BY <3>1, <4>1, <4>2 DEF Tracked
    <3> QED BY <3>1 DEF RowsInv
  <2>9. OpShape' /\ OpInv' BY <1>6, CallSettles, SettledOp DEF Continuations
  <2> QED BY <1>4, <2>4, <2>5, <2>7, <2>8, <2>9 DEF ControlInv
<1>7. CASE /\ fs' = [fs EXCEPT ![m.target] = NoFile]
           /\ op' = [op EXCEPT !.step = "undo"]
           /\ UNCHANGED <<queue, playing>>
  <2>1. \A p \in Paths : p # m.target => fs'[p] = fs[p] BY <1>0, <1>7 DEF TypeOK
  <2>2. /\ op'.step = "undo" /\ op'.batch = {m} /\ op'.then \in Continuations
    BY <1>0, <1>2, <1>7 DEF Ops
  <2>3. RowsInv'
    <3> SUFFICES ASSUME NEW r \in Rows, Tracked(r) PROVE Sound(r)'
      BY <1>0, <1>7 DEF RowsInv, Tracked, Running
    <3>1. Sound(r) BY <1>0 DEF RowsInv
    <3> QED BY <1>0, <1>2, <1>3, <1>7, <3>1, SoundUndoing
  <2>4. JournalInv' /\ QueueInv'
    <3>1. CASE blocked BY <1>0, <3>1 DEF ControlInv, JournalInv, QueueInv
    <3> QED BY <1>0, <1>2, <1>5, <1>7, <2>1, <3>1, SourcesMoved
  <2>5. CheckpointInv' BY <1>0, <1>7 DEF ControlInv, CheckpointInv, Running
  <2>6. PlayInv'
    <3>1. \A n \in disk.journal : n.source \in Paths /\ n.source # m.target
      BY <1>0, <1>2, <1>3, JournalTypes, MappingPaths, CompatibleFacts
    <3> QED BY <1>0, <1>1, <1>7, <2>1, <3>1, PlayStays DEF Present
  <2>7. OpShape' BY <2>2 DEF OpShape
  <2>8. OpInv'
    <3>1. Present(m.source)' BY <1>0, <1>2, <2>1 DEF Present
    <3> QED BY <1>0, <1>2, <2>2, <3>1 DEF OpInv, Remapping, Journaled, Kept
  <2> QED BY <1>4, <2>3, <2>4, <2>5, <2>6, <2>7, <2>8 DEF ControlInv
<1> QED BY <1>6, <1>7 DEF UnlinkSource

LEMMA IdHandleResponse ==
  ASSUME IdentityInv, TypeOK', KeepsFiles, Running, HandleResponse
  PROVE  RowsInv' /\ ControlInv'
<1>0. /\ op.step = "idle" /\ exec /\ worker.step = "reported" /\ exec' = FALSE
      /\ UNCHANGED <<fs, disk, mem, blocked, phase>>
      /\ TypeOK /\ RowsInv /\ ControlInv
  BY InvTypes DEF HandleResponse
<1>1. /\ worker.done \subseteq Journaled /\ worker.done \in SUBSET disk.journal
      /\ Gone(worker.done)
  BY <1>0 DEF ControlInv, MoveInv, Journaled
<1>2. JournalInv' BY <1>0 DEF ControlInv, JournalInv, Kept, Present
<1>3. QueueInv'
  <2>1. queue' = queue \cup worker.done BY DEF HandleResponse, ApplyCompleted
  <2> QED BY <1>0, <1>1, <2>1 DEF ControlInv, QueueInv, Journaled, Gone, Present
<1>4. \A r \in Rows : Tracked(r) => Sound(r)' BY <1>0, SoundFrame DEF RowsInv
<1>5. /\ \A r \in Rows : playing' # Nothing /\ r = playing' => Sound(r)'
      /\ PlayInv' /\ CheckpointInv'
  <2>1. playing' = IF playing.path \in Sources(worker.done)
                   THEN RemapRow(playing, worker.done) ELSE playing
    BY DEF HandleResponse, ApplyCompleted
  <2>2. \A n \in disk.journal : n \notin worker.done /\ n.source = playing.path =>
          Present(n.source)'
    <3> SUFFICES ASSUME NEW n \in disk.journal, n \notin worker.done, n.source = playing.path
                 PROVE  Present(n.source)
      BY <1>0 DEF Present
    <3>1. playing # Nothing
      BY JournalTypes, MappingPaths, ConstantsAssumption, <1>0 DEF Nothing
    <3> QED BY <1>0, <3>1 DEF ControlInv, PlayInv
  <2>3. Gone(worker.done) /\ \A n \in worker.done : ~Present(n.source)'
    BY <1>0, <1>1 DEF Gone, Present
  <2>4. PICK ms \in SUBSET disk.journal : ms = worker.done BY <1>1
  <2>5. Gone(ms)' BY <2>3, <2>4 DEF Gone
  <2> QED BY <1>0, <1>4, <2>1, <2>2, <2>4, <2>5, PlayingFollows
<1>6. RowsInv'
  <2>1. ASSUME NEW r \in Rows, Tracked(r)' PROVE Sound(r)'
    <3>1. CASE \E d \in Identities : r \in disk'[d] BY <1>0, <1>4, <3>1 DEF Tracked
    <3>2. CASE playing' # Nothing /\ r = playing' BY <1>5, <3>2
    <3> QED BY <2>1, <3>1, <3>2 DEF Tracked
  <2> QED BY <2>1 DEF RowsInv
<1>7. MoveInv' BY <1>0, NoMoveInv
<1>8. OpShape' /\ OpInv'
  <2>1. CASE worker.done = {}
    <3>1. CallReconcile(FALSE, "none") BY <2>1 DEF HandleResponse
    <3> QED BY <3>1, CallSettles, SettledOp DEF Continuations
  <2>2. CASE worker.done # {}
    <3> DEFINE next == IF worker.done = worker.plan THEN "none" ELSE "reconcile"
    <3>1. CallPersist(FALSE, next) BY <2>2 DEF HandleResponse
    <3>2. next \in Continuations BY DEF Continuations
    <3> HIDE DEF next
    <3> QED BY <3>1, <3>2, CallSettles, SettledOp
  <2> QED BY <2>1, <2>2
<1> QED BY <1>2, <1>3, <1>5, <1>6, <1>7, <1>8 DEF ControlInv

LEMMA IdHandleDisconnect ==
  ASSUME Careful, IdentityInv, Running, HandleDisconnect PROVE RowsInv' /\ ControlInv'
<1>0. /\ exec /\ worker.step = "lost" /\ exec' = FALSE /\ op.step = "idle"
      /\ UNCHANGED <<fs, disk, mem, blocked, phase, queue, playing, op, worker>>
      /\ TypeOK /\ RowsInv /\ ControlInv
  BY InvTypes DEF HandleDisconnect
<1>1. playing = Nothing
  <2>1. WorkerMayDie BY <1>0 DEF ControlInv, MoveInv
  <2> QED BY <1>0, <2>1 DEF Careful, ControlInv, CheckpointInv
<1>2. \A r \in Rows : Tracked(r)' => Tracked(r) BY <1>0 DEF Tracked, Running
<1>3. RowsInv' BY <1>0, <1>2, RowsFollow
<1>4. JournalInv' BY <1>0 DEF ControlInv, JournalInv, Kept, Present
<1>5. QueueInv' BY <1>0 DEF ControlInv, QueueInv, Gone, Journaled, Present
<1>6. CheckpointInv' BY <1>0 DEF ControlInv, CheckpointInv, Running
<1>7. PlayInv' BY <1>0, <1>1 DEF PlayInv
<1>8. MoveInv' BY <1>0, NoMoveInv
<1>9. op' = IdleOp BY <1>0 DEF ControlInv, OpShape
<1>10. OpShape' /\ OpInv' BY <1>9, CallSettles, SettledOp
<1> QED BY <1>3, <1>4, <1>5, <1>6, <1>7, <1>8, <1>10 DEF ControlInv

-----------------------------------------------------------------------------
(* The user's requests and the ticks *)

\* A request that only starts a call, or changes nothing of this.
LEMMA IdCall ==
  ASSUME IdentityInv, Running, ~exec, UNCHANGED <<fs, disk, mem, blocked, playing, exec>>,
         UNCHANGED <<worker, queue>>, Settled, Running' => Running
  PROVE  RowsInv' /\ ControlInv'
<1>1. RowsInv' /\ JournalInv' /\ QueueInv' /\ CheckpointInv' /\ PlayInv'
  BY InvTypes, Undisturbed
<1>2. MoveInv' BY NoMoveInv
<1> QED BY <1>1, <1>2, SettledOp DEF ControlInv

LEMMA IdShutdown ==
  ASSUME IdentityInv, Running, Shutdown PROVE RowsInv' /\ ControlInv'
<1>1. CallPersist(TRUE, "exit") /\ "exit" \in Continuations
  BY DEF Shutdown, Continuations
<1>2. Settled BY <1>1, CallSettles
<1> QED BY <1>2, IdCall DEF Shutdown

LEMMA IdRequest ==
  ASSUME IdentityInv, Running, BeginMove \/ Quit \/ DismissMove PROVE RowsInv' /\ ControlInv'
<1>1. CASE BeginMove
  <2>1. CallPersist(TRUE, "begin") /\ "begin" \in Continuations
    BY <1>1 DEF BeginMove, Continuations
  <2>2. Settled BY <2>1, CallSettles
  <2> QED BY <1>1, <2>2, IdCall DEF BeginMove, Dispatching
<1>2. CASE Quit
  <2>1. CallPersist(TRUE, "quit") /\ "quit" \in Continuations
    BY <1>2 DEF Quit, Continuations
  <2>2. Settled BY <2>1, CallSettles
  <2> QED BY <1>2, <2>2, IdCall DEF Quit, Dispatching
<1>3. CASE DismissMove
  <2>1. op' = IdleOp
    BY <1>3, InvTypes DEF DismissMove, Dispatching, Ready, ControlInv, OpShape
  <2>2. Settled BY <2>1, CallSettles
  <2> QED BY <1>3, <2>2, IdCall DEF DismissMove, Dispatching
<1> QED BY <1>1, <1>2, <1>3

LEMMA IdAutosave ==
  ASSUME Careful, IdentityInv, Autosave PROVE RowsInv' /\ ControlInv'
<1>1. Running /\ ~exec BY DEF Careful, Autosave, Ready, Running
<1>2. CallPersist(FALSE, "none") /\ "none" \in Continuations
  BY DEF Autosave, Continuations
<1>3. Settled BY <1>2, CallSettles
<1> QED BY <1>1, <1>3, IdCall DEF Autosave

LEMMA IdSaves ==
  ASSUME IdentityInv, Running,
         UNCHANGED <<fs, disk, mem, blocked, exec, queue, playing, worker, phase>>,
         op'.step \in {"flush", "insert", "note"}, op'.batch = {}, op'.untouched = {},
         op'.then \in {"publish", "checkpoint"}
  PROVE  RowsInv' /\ ControlInv'
<1>0. ControlInv BY InvTypes
<1>1. RowsInv' /\ JournalInv' /\ QueueInv' /\ CheckpointInv' /\ PlayInv'
  BY <1>0, InvTypes, Undisturbed DEF Running
<1>2. MoveInv'
  BY <1>0 DEF ControlInv, MoveInv, Journaled, Gone, Kept, Present, Running
<1>3. OpShape' BY DEF OpShape
<1>4. OpInv' BY DEF OpInv, Remapping, Gone, Kept
<1> QED BY <1>1, <1>2, <1>3, <1>4 DEF ControlInv

LEMMA IdSavePosition ==
  ASSUME IdentityInv, NEW publish \in BOOLEAN, SavePosition(publish)
  PROVE  RowsInv' /\ ControlInv'
<1>1. Running /\ UNCHANGED <<fs, disk, mem, blocked, exec, queue, playing, worker, phase>>
  BY DEF SavePosition, Ready, Running
<1>2. /\ op'.step \in {"flush", "note"} /\ op'.batch = {} /\ op'.untouched = {}
      /\ op'.then \in {"publish", "checkpoint"}
  BY SaveStepType DEF SavePosition, IdleOp
<1> QED BY <1>1, <1>2, IdSaves

LEMMA IdPlaybackStarted ==
  ASSUME IdentityInv, PlaybackStarted PROVE RowsInv' /\ ControlInv'
<1>1. Running /\ UNCHANGED <<fs, disk, mem, blocked, exec, queue, playing, worker, phase>>
  BY DEF PlaybackStarted, Ready, Running
<1>2. /\ op'.step = "insert" /\ op'.batch = {} /\ op'.untouched = {}
      /\ op'.then = "checkpoint"
  BY DEF PlaybackStarted, IdleOp
<1> QED BY <1>1, <1>2, IdSaves

\* The intents of a move or a rename become durable.
LEMMA IntentsJournaled ==
  ASSUME IdentityInv, Running, ~exec, NEW ms \in SUBSET Mappings, NEW outcome,
         JournalIntent(ms, outcome), \A m \in ms : Movable(m),
         UNCHANGED <<fs, playing, blocked, queue, phase>>
  PROVE  /\ RowsInv' /\ JournalInv' /\ QueueInv' /\ CheckpointInv' /\ PlayInv'
         /\ outcome = "ok" => (ms \subseteq Journaled)'
<1>0. TypeOK /\ RowsInv /\ ControlInv /\ StoreInv BY InvTypes
<1>1. /\ Persist("journal", mem.journal \cup ms, outcome)
      /\ Compatible(ms) /\ ~Conflicts(mem.journal, ms)
      /\ mem' = IF outcome = "ok" THEN [mem EXCEPT !.journal = @ \cup ms] ELSE mem
  BY DEF JournalIntent, Accepts
<1>2. \A d \in Identities : disk'[d] = disk[d] BY <1>0, <1>1, WriteEffect, DocKinds
<1>3. \/ disk'.journal = disk.journal /\ outcome = "error"
      \/ /\ disk.journal = mem.journal /\ disk'.journal = disk.journal \cup ms
  <2>1. "journal" \notin Ahead BY DEF Ahead, Remapped
  <2>2. \/ disk'["journal"] = mem.journal \cup ms /\ ~blocked /\ "journal" \notin stale
        \/ outcome = "error" /\ disk'["journal"] = disk["journal"]
    BY <1>0, <1>1, WriteEffect, DocKinds
  <2>3. ~blocked /\ "journal" \notin stale => disk["journal"] = mem["journal"]
    BY <1>0, <2>1, Synced, DocKinds
  <2> QED BY <2>2, <2>3
<1>4. /\ mem'.checkpoint = mem.checkpoint
      /\ mem'.journal = IF outcome = "ok" THEN mem.journal \cup ms ELSE mem.journal
  BY <1>0, <1>1 DEF TypeOK, Documents
<1>5. disk.journal \subseteq disk'.journal /\ mem.journal \subseteq mem'.journal
  BY <1>3, <1>4
<1>6. RowsInv'
  <2> SUFFICES ASSUME NEW r \in Rows, Tracked(r)' PROVE Sound(r)' BY DEF RowsInv
  <2>1. Tracked(r) BY <1>2 DEF Tracked, Running
  <2>2. Sound(r) BY <1>0, <2>1 DEF RowsInv
  <2>3. CASE disk'.journal = disk.journal BY <2>2, <2>3, SoundFrame
  <2>4. CASE disk.journal = mem.journal /\ disk'.journal = disk.journal \cup ms
    BY <1>0, <1>1, <2>2, <2>4, SoundJournaling
  <2> QED BY <1>3, <2>3, <2>4
<1>7. JournalInv'
  <2>1. CASE disk'.journal = disk.journal /\ mem'.journal = mem.journal
    BY <1>0, <2>1 DEF ControlInv, JournalInv, Kept, Present
  <2>2. CASE disk.journal = mem.journal /\ disk'.journal = disk.journal \cup ms
    <3>1. Compatible(disk.journal)
      BY <1>0, CompatibleSubset DEF ControlInv, JournalInv
    <3>2. Compatible(disk'.journal) BY <1>1, <2>2, <3>1, CompatibleUnion
    <3>3. disk'.journal \cup mem'.journal = disk'.journal BY <1>4, <2>2
    <3>4. mem'.journal \ disk'.journal = {} BY <1>4, <2>2
    <3> QED BY <3>2, <3>3, <3>4 DEF JournalInv, Kept
  <2> QED BY <1>3, <1>4, <2>1, <2>2
<1>8. QueueInv'
  BY <1>0, <1>5 DEF ControlInv, QueueInv, Journaled, Gone, Present
<1>9. CheckpointInv'
  BY <1>0, <1>2, <1>4, DocKinds DEF ControlInv, CheckpointInv, Running
<1>10. PlayInv'
  <2>1. \A n \in disk'.journal : n \in disk.journal \/ Present(n.source)
    BY <1>3 DEF Movable
  <2> QED BY <1>0, <2>1 DEF ControlInv, PlayInv, Held, Present, Running
<1>11. outcome = "ok" => (ms \subseteq Journaled)' BY <1>3, <1>4 DEF Journaled
<1> QED BY <1>6, <1>7, <1>8, <1>9, <1>10, <1>11

LEMMA IdConfirmMove ==
  ASSUME IdentityInv, NEW plan \in SUBSET Mappings, ConfirmMove(plan)
  PROVE  RowsInv' /\ ControlInv'
<1>0. /\ Running /\ ~exec /\ op.step = "idle" /\ op = IdleOp /\ worker \in Workers
      /\ UNCHANGED <<fs, blocked, phase, queue, playing>> /\ \A m \in plan : Movable(m)
  BY InvTypes DEF ConfirmMove, Dispatching, Ready, Running, ControlInv, OpShape, TypeOK
<1>1. ASSUME NEW outcome, JournalIntent(plan, outcome)
      PROVE  /\ RowsInv' /\ JournalInv' /\ QueueInv' /\ CheckpointInv' /\ PlayInv'
             /\ outcome = "ok" => (plan \subseteq Journaled)'
  BY <1>0, <1>1, IntentsJournaled
<1>2. \A m \in plan : Present(m.source)' BY <1>0 DEF Movable, Present
<1>3. CASE /\ JournalIntent(plan, "ok")
           /\ op' = [IdleOp EXCEPT !.step = "undo", !.batch = plan]
           /\ UNCHANGED exec
  <2>1. op'.step = "undo" /\ op'.batch = plan /\ op'.then = "none"
    BY <1>3 DEF IdleOp
  <2>2. OpShape' BY <2>1 DEF OpShape, Continuations
  <2>3. OpInv' BY <1>1, <1>2, <1>3, <2>1 DEF OpInv, Remapping, Kept
  <2>4. MoveInv' BY <1>0, <1>3, NoMoveInv
  <2> QED BY <1>1, <1>3, <2>2, <2>3, <2>4 DEF ControlInv
<1>4. CASE /\ JournalIntent(plan, "ok")
           /\ worker' = [worker EXCEPT !.step = "queued", !.plan = plan, !.done = {}]
           /\ UNCHANGED op
  <2>1. worker'.step = "queued" /\ worker'.plan = plan /\ worker'.done = {}
    BY <1>0, <1>4 DEF Workers
  <2>2. OpShape' /\ OpInv' BY <1>0, <1>4, CallSettles, SettledOp
  <2>3. MoveInv'
    <3>1. op' = IdleOp /\ IdleOp.step = "idle" /\ IdleOp.batch = {} /\ IdleOp.then = "none"
      BY <1>0, <1>4 DEF IdleOp
    <3> QED BY <1>1, <1>2, <1>4, <2>1, <3>1 DEF MoveInv, Gone, Kept
  <2> QED BY <1>1, <1>4, <2>2, <2>3 DEF ControlInv
<1>5. CASE JournalIntent(plan, "error") /\ UNCHANGED <<exec, worker, op>>
  <2>1. OpShape' /\ OpInv' BY <1>0, <1>5, CallSettles, SettledOp
  <2>2. MoveInv' BY <1>0, <1>5, NoMoveInv
  <2> QED BY <1>1, <1>5, <2>1, <2>2 DEF ControlInv
<1> QED BY <1>3, <1>4, <1>5 DEF ConfirmMove

LEMMA IdSubmitRename ==
  ASSUME IdentityInv, NEW m \in Mappings, SubmitRename(m) PROVE RowsInv' /\ ControlInv'
<1>0. /\ Running /\ ~exec /\ op = IdleOp /\ {m} \in SUBSET Mappings
      /\ UNCHANGED <<fs, blocked, phase, exec, queue, playing>> /\ \A n \in {m} : Movable(n)
  BY InvTypes DEF SubmitRename, Dispatching, Ready, Running, ControlInv, OpShape
<1>1. ASSUME NEW outcome, JournalIntent({m}, outcome)
      PROVE  /\ RowsInv' /\ JournalInv' /\ QueueInv' /\ CheckpointInv' /\ PlayInv'
             /\ outcome = "ok" => ({m} \subseteq Journaled)'
  BY <1>0, <1>1, IntentsJournaled
<1>2. Present(m.source)' BY <1>0 DEF Movable, Present
<1>3. MoveInv' BY <1>0, NoMoveInv
<1>4. CASE /\ JournalIntent({m}, "ok")
           /\ op' = [IdleOp EXCEPT !.step = "rename", !.batch = {m}]
  <2>1. op'.step = "rename" /\ op'.batch = {m} /\ op'.then = "none"
    BY <1>4 DEF IdleOp
  <2>2. OpShape' BY <2>1 DEF OpShape, Continuations
  <2>3. OpInv' BY <1>1, <1>2, <1>4, <2>1 DEF OpInv, Remapping, Kept
  <2> QED BY <1>1, <1>3, <1>4, <2>2, <2>3 DEF ControlInv
<1>5. CASE JournalIntent({m}, "error") /\ UNCHANGED op
  <2>1. OpShape' /\ OpInv' BY <1>0, <1>5, CallSettles, SettledOp
  <2> QED BY <1>1, <1>3, <1>5, <2>1 DEF ControlInv
<1> QED BY <1>4, <1>5 DEF SubmitRename

LEMMA IdPlay ==
  ASSUME Careful, IdentityInv, NEW p \in Playable, Play(p) PROVE RowsInv' /\ ControlInv'
<1>0. /\ Running /\ ~exec /\ op = IdleOp /\ p \in Paths /\ fs[p] \in Files
      /\ UNCHANGED <<fs, disk, mem, blocked, phase, exec, queue, op, worker>>
      /\ playing' = [path |-> p, file |-> fs[p]]
      /\ RowsInv /\ ControlInv
  BY InvTypes, ConstantsAssumption
  DEF Play, Dispatching, Ready, Running, ControlInv, OpShape, TypeOK, Present
<1>1. \A m \in disk.journal : m.source # p /\ m.target # p
  BY DEF Careful, Play, Sources, Targets
<1>2. playing'.path = p /\ playing'.file = fs[p] BY <1>0
<1>3. \A r \in Rows : Tracked(r)' => Tracked(r) \/ Sound(r)
  <2> SUFFICES ASSUME NEW r \in Rows, r = playing' PROVE Sound(r)
    BY <1>0 DEF Tracked, Running
  <2>1. r.path = p /\ r.file = fs[p] BY <1>2
  <2> QED BY <1>1, <2>1 DEF Sound, Leads, Free
<1>4. RowsInv' BY <1>0, <1>3, RowsFollow
<1>5. JournalInv' BY <1>0 DEF ControlInv, JournalInv, Kept, Present
<1>6. QueueInv' BY <1>0 DEF ControlInv, QueueInv, Gone, Journaled, Present
<1>7. CheckpointInv' BY <1>0 DEF ControlInv, CheckpointInv, Running
<1>8. PlayInv' BY <1>0, <1>1, <1>2 DEF PlayInv, Held
<1>9. MoveInv' BY <1>0, NoMoveInv
<1>10. OpShape' /\ OpInv' BY <1>0, CallSettles, SettledOp
<1> QED BY <1>4, <1>5, <1>6, <1>7, <1>8, <1>9, <1>10 DEF ControlInv

-----------------------------------------------------------------------------
(* The worker *)

\* While a move executes no call relies on the files.
LEMMA ExecOp ==
  ASSUME ControlInv, Running, exec, UNCHANGED op PROVE OpShape' /\ OpInv'
<1>1. op.step \in {"idle", "flush", "clear", "insert", "note"} /\ op.batch = {}
  BY DEF ControlInv, MoveInv
<1>2. op.step \in {"flush", "clear"} => op.untouched = {} BY <1>1 DEF ControlInv, OpShape
<1>3. OpShape' BY DEF ControlInv, OpShape
<1>4. OpInv' BY <1>1, <1>2 DEF OpInv, Remapping, Gone, Kept
<1> QED BY <1>3, <1>4

\* The worker goes on or stops without touching a file.
LEMMA IdWorkerWaits ==
  ASSUME IdentityInv, Running, exec, UNCHANGED fs, WorkerFrame,
         worker'.plan = worker.plan, worker'.done = worker.done,
         worker'.step = "lost" => WorkerMayDie,
         worker.step = "lost" => worker'.step = "lost",
         worker'.step \in {"staged", "published"} =>
           worker'.entry \subseteq worker.plan \ worker.done
  PROVE  RowsInv' /\ ControlInv'
<1>0. /\ RowsInv /\ ControlInv
      /\ UNCHANGED <<fs, disk, mem, blocked, phase, exec, queue, playing, op>>
  BY InvTypes DEF WorkerFrame
<1>1. \A r \in Rows : Tracked(r)' => Tracked(r) BY <1>0 DEF Tracked, Running
<1>2. RowsInv' BY <1>0, <1>1, RowsFollow
<1>3. JournalInv' BY <1>0 DEF ControlInv, JournalInv, Kept, Present
<1>4. QueueInv' BY <1>0 DEF ControlInv, QueueInv, Gone, Journaled, Present
<1>5. CheckpointInv' BY <1>0 DEF ControlInv, CheckpointInv, Running
<1>6. PlayInv' BY <1>0 DEF ControlInv, PlayInv, Held, Present, Running
<1>7. MoveInv' BY <1>0 DEF ControlInv, MoveInv, Journaled, Gone, Kept, Present, Running
<1>8. OpShape' /\ OpInv' BY <1>0, ExecOp
<1> QED BY <1>2, <1>3, <1>4, <1>5, <1>6, <1>7, <1>8 DEF ControlInv

\* The worker moves the file of one entry; the entry is done when its source is
\* gone.
LEMMA IdWorkerMoves ==
  ASSUME IdentityInv, KeepsFiles, Running, exec, worker.step # "lost", WorkerFrame,
         NEW m \in worker.plan \ worker.done,
         \A p \in Paths : p \notin {m.source, m.target} => fs'[p] = fs[p],
         \A r \in Rows : Sound(r) => Sound(r)',
         worker'.plan = worker.plan, worker'.step # "lost",
         \/ /\ worker'.done = worker.done \cup {m} /\ ~Present(m.source)'
            /\ worker'.step \notin {"staged", "published"}
         \/ /\ worker'.done = worker.done /\ Present(m.source)'
            /\ worker'.entry \subseteq worker.plan \ worker.done
  PROVE  RowsInv' /\ ControlInv'
<1>0. /\ RowsInv /\ ControlInv /\ TypeOK
      /\ UNCHANGED <<disk, mem, blocked, phase, exec, queue, playing, op>>
  BY InvTypes DEF WorkerFrame
<1>1. /\ worker.plan \subseteq Journaled /\ worker.done \subseteq worker.plan
      /\ Gone(worker.done) /\ Kept(worker.plan \ worker.done) /\ m \in disk.journal
      /\ \A n \in worker.plan : n \in disk.journal
  BY <1>0 DEF ControlInv, MoveInv, Journaled
<1>2. \A r \in Rows : Tracked(r)' => Tracked(r) BY <1>0 DEF Tracked, Running
<1>3. RowsInv' BY <1>0, <1>2 DEF RowsInv
<1>4. JournalInv' /\ QueueInv'
  <2>1. CASE blocked BY <1>0, <2>1 DEF ControlInv, JournalInv, QueueInv
  <2>2. CASE ~blocked
    <3>1. m \notin queue
      BY <1>0, <1>1, <2>2 DEF ControlInv, QueueInv, Gone, Kept
    <3> QED BY <1>0, <1>1, <3>1, SourcesMoved
  <2> QED BY <2>1, <2>2
<1>5. CheckpointInv' BY <1>0 DEF ControlInv, CheckpointInv, Running
<1>6. \A n \in disk.journal : n # m => (Present(n.source)' <=> Present(n.source))
  BY <1>0, <1>1, OtherSources DEF Present
<1>7. PlayInv'
  <2>1. \A n \in disk.journal :
          Present(n.source) \/ (exec /\ n \in worker.done) =>
            Present(n.source)' \/ (exec' /\ n \in worker'.done)
    BY <1>0, <1>6
  <2> QED BY <1>0, <2>1, PlayStays
<1>8. MoveInv'
  <2>1. Gone(worker.done)' /\ worker'.done \subseteq worker'.plan
        /\ \A n \in worker'.plan \ worker'.done : Present(n.source)'
    <3>1. \A n \in worker.plan : n # m => (Present(n.source)' <=> Present(n.source))
      BY <1>1, <1>6
    <3> QED BY <1>1, <3>1 DEF Gone, Kept
  <2>2. Kept(worker.plan \ worker.done)' BY <2>1 DEF Kept
  <2> QED BY <1>0, <1>1, <2>1, <2>2 DEF ControlInv, MoveInv, Journaled, Running
<1>9. OpShape' /\ OpInv' BY <1>0, ExecOp
<1> QED BY <1>3, <1>4, <1>5, <1>7, <1>8, <1>9 DEF ControlInv

LEMMA IdWorkerStep ==
  ASSUME IdentityInv, KeepsFiles, Running, WorkerStep PROVE RowsInv' /\ ControlInv'
<1>0. TypeOK /\ RowsInv /\ ControlInv /\ TwinInv /\ worker \in Workers
  BY InvTypes DEF TypeOK
<1>1. worker.step \in Busy /\ exec /\ worker.step # "lost" /\ WorkerFrame
  BY <1>0 DEF WorkerStep, StartPlan, MoveEntry, PublishEntry, DetachSource, Busy, TwinInv
<1>2. /\ worker.plan \subseteq disk.journal
      /\ worker.step \in {"staged", "published"} =>
           worker.entry \subseteq worker.plan \ worker.done
      /\ Kept(worker.plan \ worker.done)
  BY <1>0, <1>1 DEF ControlInv, MoveInv, Journaled
<1>3. Compatible(disk.journal) BY <1>0, CompatibleSubset DEF ControlInv, JournalInv
<1>4. CASE StopMove /\ UNCHANGED fs
  <2>1. /\ worker'.plan = worker.plan /\ worker'.done = worker.done
        /\ worker'.step = "reported"
    BY <1>0, <1>4 DEF StopMove, Workers
  <2> QED BY <1>1, <1>4, <2>1, IdWorkerWaits
<1>5. ASSUME NEW m \in Mappings, FinishEntry(m)
      PROVE  /\ worker'.plan = worker.plan /\ worker'.done = worker.done \cup {m}
             /\ worker'.step \in {"entry", "reported"}
  BY <1>0, <1>5 DEF FinishEntry, Workers
<1>6. CASE StartPlan
  <2>1. CASE worker' = [worker EXCEPT !.step = "entry"] /\ UNCHANGED fs
    <3>1. /\ worker'.plan = worker.plan /\ worker'.done = worker.done
          /\ worker'.step = "entry"
      BY <1>0, <2>1 DEF Workers
    <3> QED BY <1>1, <2>1, <3>1, IdWorkerWaits
  <2> QED BY <1>4, <1>6, <2>1 DEF StartPlan
<1>7. ASSUME NEW m \in Mappings, MoveEntry(m) PROVE RowsInv' /\ ControlInv'
  <2>0. /\ m \in worker.plan \ worker.done /\ m \in disk.journal
        /\ m.source \in Paths /\ m.target \in Paths /\ m.source # m.target
    BY <1>2, <1>7, MappingPaths DEF MoveEntry, Remaining
  <2>1. CASE Movable(m) /\ fs' = Renamed(m) /\ FinishEntry(m)
    <3>1. \A p \in Paths : p \notin {m.source, m.target} => fs'[p] = fs[p]
      BY <1>0, <2>0, <2>1 DEF Renamed, TypeOK
    <3>2. ~Present(m.source)' BY <1>0, <2>0, <2>1 DEF Renamed, TypeOK, Present
    <3>3. disk' = disk BY <1>1 DEF WorkerFrame
    <3>4. \A r \in Rows : Sound(r) => Sound(r)'
      BY <1>0, <1>3, <2>0, <2>1, <3>3, SoundMoving
    <3> QED BY <1>1, <1>5, <2>0, <2>1, <3>1, <3>2, <3>4, IdWorkerMoves
  <2>2. CASE worker' = [worker EXCEPT !.step = "staged", !.entry = {m}] /\ UNCHANGED fs
    <3>1. /\ worker'.plan = worker.plan /\ worker'.done = worker.done
          /\ worker'.step = "staged" /\ worker'.entry = {m}
      BY <1>0, <2>2 DEF Workers
    <3> QED BY <1>1, <2>0, <2>2, <3>1, IdWorkerWaits
  <2> QED BY <1>4, <1>7, <2>1, <2>2 DEF MoveEntry
<1>8. ASSUME NEW m \in Mappings, PublishEntry(m) PROVE RowsInv' /\ ControlInv'
  <2>0. /\ worker.step = "staged" /\ worker.entry = {m}
        /\ m \in worker.plan \ worker.done /\ m \in disk.journal
        /\ m.source \in Paths /\ m.target \in Paths /\ m.source # m.target
    BY <1>2, <1>8, MappingPaths DEF PublishEntry
  <2>1. CASE /\ ~Present(m.target) /\ fs' = [fs EXCEPT ![m.target] = fs[m.source]]
             /\ worker' = [worker EXCEPT !.step = "published"]
    <3>1. Movable(m) BY <1>2, <2>0, <2>1 DEF Movable, Kept
    <3>2. \A p \in Paths : p \notin {m.source, m.target} => fs'[p] = fs[p]
      BY <1>0, <2>0, <2>1 DEF TypeOK
    <3>3. Present(m.source)' BY <1>0, <2>0, <2>1, <3>1 DEF TypeOK, Present, Movable
    <3>4. disk' = disk BY <1>1 DEF WorkerFrame
    <3>5. \A r \in Rows : Sound(r) => Sound(r)'
      BY <1>0, <1>3, <2>0, <2>1, <3>1, <3>4, SoundCopying
    <3>6. /\ worker'.plan = worker.plan /\ worker'.done = worker.done
          /\ worker'.step = "published" /\ worker'.entry = worker.entry
      BY <1>0, <2>1 DEF Workers
    <3> QED BY <1>1, <1>2, <2>0, <3>2, <3>3, <3>5, <3>6, IdWorkerMoves
  <2> QED BY <1>4, <1>8, <2>1 DEF PublishEntry
<1>9. ASSUME NEW m \in Mappings, DetachSource(m) PROVE RowsInv' /\ ControlInv'
  <2>0. /\ worker.step = "published" /\ worker.entry = {m}
        /\ m \in worker.plan \ worker.done /\ m \in disk.journal
        /\ m.source \in Paths /\ m.target \in Paths /\ m.source # m.target
    BY <1>2, <1>9, MappingPaths DEF DetachSource
  <2>1. CASE fs' = [fs EXCEPT ![m.source] = NoFile] /\ FinishEntry(m)
    <3>1. Twins(m) BY <1>0, <2>0 DEF TwinInv
    <3>2. \A p \in Paths : p \notin {m.source, m.target} => fs'[p] = fs[p]
      BY <1>0, <2>0, <2>1 DEF TypeOK
    <3>3. ~Present(m.source)' BY <1>0, <2>0, <2>1 DEF TypeOK, Present
    <3>4. disk' = disk BY <1>1 DEF WorkerFrame
    <3>5. \A r \in Rows : Sound(r) => Sound(r)'
      BY <1>0, <1>3, <2>0, <2>1, <3>1, <3>4, SoundDetaching
    <3> QED BY <1>1, <1>5, <2>0, <2>1, <3>2, <3>3, <3>5, IdWorkerMoves
  <2> QED BY <1>4, <1>9, <2>1 DEF DetachSource
<1> QED BY <1>6, <1>7, <1>8, <1>9 DEF WorkerStep

-----------------------------------------------------------------------------
(* The end of the process, its start, and the world around it *)

\* The process ends or is told to.
LEMMA IdEnds ==
  ASSUME IdentityInv, ExternalExit \/ Crash PROVE RowsInv' /\ ControlInv'
<1>0. /\ UNCHANGED <<fs, disk, mem, blocked, exec, queue, playing, op, worker>> /\ Running
      /\ ControlInv
  BY InvTypes DEF ExternalExit, Crash, Ready, Running
<1>1. RowsInv' /\ JournalInv' /\ QueueInv' /\ CheckpointInv' /\ PlayInv'
  BY <1>0, InvTypes, Undisturbed
<1>2. MoveInv' BY <1>0 DEF ControlInv, MoveInv, Journaled, Gone, Kept, Present
<1>3. OpShape' BY <1>0 DEF ControlInv, OpShape
<1>4. OpInv' BY <1>0 DEF ControlInv, OpInv, Journaled, Gone, Kept, Present
<1> QED BY <1>1, <1>2, <1>3, <1>4 DEF ControlInv

LEMMA IdWorkerPanic ==
  ASSUME IdentityInv, WorkerPanic PROVE RowsInv' /\ ControlInv'
<1>0. /\ Running /\ RowsInv /\ ControlInv /\ worker \in Workers
      /\ UNCHANGED <<fs, disk, mem, blocked, phase, exec, queue, playing, op>>
      /\ worker' = [worker EXCEPT !.step = "lost", !.entry = {}] /\ WorkerMayDie
      /\ WorkerFrame
  BY InvTypes DEF WorkerPanic, WorkerFrame, Running, TypeOK
<1>1. /\ worker'.plan = worker.plan /\ worker'.done = worker.done /\ worker'.step = "lost"
  BY <1>0 DEF Workers
<1>2. CASE exec BY <1>0, <1>1, <1>2, IdWorkerWaits
<1>3. CASE ~exec
  <2>1. \A r \in Rows : Tracked(r)' => Tracked(r) BY <1>0 DEF Tracked, Running
  <2>2. RowsInv' BY <1>0, <2>1, RowsFollow
  <2>3. JournalInv' BY <1>0 DEF ControlInv, JournalInv, Kept, Present
  <2>4. QueueInv' BY <1>0 DEF ControlInv, QueueInv, Gone, Journaled, Present
  <2>5. CheckpointInv' BY <1>0 DEF ControlInv, CheckpointInv, Running
  <2>6. PlayInv' BY <1>0, <1>3 DEF ControlInv, PlayInv, Held, Present, Running
  <2>7. MoveInv' BY <1>0, <1>3, NoMoveInv
  <2>8. OpShape' BY <1>0 DEF ControlInv, OpShape
  <2>9. OpInv' BY <1>0 DEF ControlInv, OpInv, Journaled, Gone, Kept, Present, Running
  <2> QED BY <2>2, <2>3, <2>4, <2>5, <2>6, <2>7, <2>8, <2>9 DEF ControlInv
<1> QED BY <1>2, <1>3

LEMMA IdIntrude ==
  ASSUME IdentityInv, KeepsFiles, NEW p \in Paths, NEW f \in Files, Intrude(p, f)
  PROVE  RowsInv' /\ ControlInv'
<1>0. /\ TypeOK /\ RowsInv /\ ControlInv /\ ~Present(p) /\ ~Held(f)
      /\ UNCHANGED <<disk, mem, blocked, phase, exec, queue, playing, op, worker>>
      /\ fs' = [fs EXCEPT ![p] = f]
  BY InvTypes DEF Intrude
<1>1. \A q \in Paths : fs'[q] = IF q = p THEN f ELSE fs[q] BY <1>0 DEF TypeOK
<1>2. \A q \in Paths : Present(q) => Present(q)' BY <1>0, <1>1 DEF Present
<1>3. \A q \in Paths : q # p => (Present(q)' <=> Present(q)) BY <1>1 DEF Present
<1>4. \A m \in Mappings : m.source \in Paths BY MappingPaths
<1>5. \A m \in disk.journal \cup worker.plan \cup queue : m.source # p
  BY DEF Intrude, Sources
<1>6. disk.journal \subseteq Mappings /\ mem.journal \subseteq Mappings
  BY <1>0, JournalTypes
<1>7. RowsInv'
  <2> SUFFICES ASSUME NEW r \in Rows, Tracked(r) PROVE Sound(r)'
    BY <1>0 DEF RowsInv, Tracked, Running
  <2>1. Sound(r) BY <1>0 DEF RowsInv
  <2>2. r.file # f
    <3>1. CASE \E d \in Identities : r \in disk[d] BY <3>1 DEF Intrude
    <3>2. CASE Running /\ playing # Nothing /\ r = playing
      BY <1>0, <3>2 DEF ControlInv, PlayInv
    <3> QED BY <3>1, <3>2 DEF Tracked
  <2>3. p \notin Sources(disk.journal) BY <1>5 DEF Sources
  <2> QED BY <1>0, <2>1, <2>2, <2>3, SoundIntruding
<1>8. JournalInv'
  BY <1>0, <1>2, <1>4, <1>6 DEF ControlInv, JournalInv, Kept
<1>9. QueueInv'
  BY <1>0, <1>3, <1>4, <1>5, <1>6 DEF ControlInv, QueueInv, Gone, Journaled
<1>10. MoveInv'
  <2> SUFFICES ASSUME Running, exec PROVE MoveInv' BY <1>0 DEF MoveInv, Running
  <2>1. worker.plan \subseteq disk.journal /\ worker.done \subseteq worker.plan
    BY <1>0 DEF ControlInv, MoveInv, Journaled
  <2>2. Gone(worker.done) => Gone(worker.done)'
    BY <1>0, <1>3, <1>4, <1>5, <1>6, <2>1 DEF Gone
  <2>3. Kept(worker.plan \ worker.done) => Kept(worker.plan \ worker.done)'
    BY <1>0, <1>2, <1>4, <1>6, <2>1 DEF Kept
  <2> QED BY <1>0, <2>2, <2>3 DEF ControlInv, MoveInv, Journaled
<1>11. OpShape' BY <1>0 DEF ControlInv, OpShape
<1>12. OpInv'
  <2> SUFFICES ASSUME Running PROVE OpInv' BY <1>0 DEF OpInv, Running
  <2>1. op.batch \subseteq disk.journal /\ Gone(op.batch) => Gone(op.batch)'
    BY <1>0, <1>3, <1>4, <1>5, <1>6 DEF Gone
  <2>2. \A ms \in SUBSET Mappings : Kept(ms) => \A m \in ms : Present(m.source)'
    BY <1>2, <1>4 DEF Kept
  <2>3. /\ op.untouched \subseteq Mappings /\ Kept(op.untouched) => Kept(op.untouched)'
        /\ op.batch \subseteq Mappings /\ Kept(op.batch) => Kept(op.batch)'
    BY <1>0, <2>2 DEF Kept
  <2>4. op.untouched \subseteq Mappings /\ op.batch \subseteq Mappings
    BY <1>0 DEF TypeOK, Ops
  <2> QED BY <1>0, <2>1, <2>3, <2>4 DEF ControlInv, OpInv, Journaled
<1>13. CheckpointInv' BY <1>0 DEF ControlInv, CheckpointInv, Running
<1>14. PlayInv'
  <2>1. CASE Running BY <1>0, <1>2, <1>4, <1>6, <2>1, PlayStays
  <2>2. CASE ~Running BY <1>0, <2>2 DEF PlayInv, Running
  <2> QED BY <2>1, <2>2
<1> QED BY <1>7, <1>8, <1>9, <1>10, <1>11, <1>12, <1>13, <1>14 DEF ControlInv

LEMMA IdRepair ==
  ASSUME Careful, IdentityInv, KeepsFiles, NEW m \in Mappings, Repair(m)
  PROVE  RowsInv' /\ ControlInv'
<1>0. /\ TypeOK /\ RowsInv /\ ControlInv /\ m \in disk.journal /\ Twins(m)
      /\ UNCHANGED <<disk, mem, blocked, phase, exec, queue, playing, op, worker>>
      /\ m.source \in Paths /\ m.target \in Paths /\ m.source # m.target
  BY InvTypes, MappingPaths DEF Repair, Twins
<1>1. PICK p \in {m.source, m.target} : fs' = [fs EXCEPT ![p] = NoFile]
  BY DEF Repair
<1>2. \A q \in Paths : q \notin {m.source, m.target} => fs'[q] = fs[q]
  BY <1>0, <1>1 DEF TypeOK
<1>3. Compatible(disk.journal) BY <1>0, CompatibleSubset DEF ControlInv, JournalInv
<1>4. RowsInv'
  <2> SUFFICES ASSUME NEW r \in Rows, Tracked(r) PROVE Sound(r)'
    BY <1>0 DEF RowsInv, Tracked, Running
  <2>1. Sound(r) BY <1>0 DEF RowsInv
  <2> QED BY <1>0, <1>1, <1>3, <2>1, SoundDetaching, SoundUndoing
<1>5. JournalInv' /\ QueueInv'
  <2>1. CASE blocked BY <1>0, <2>1 DEF ControlInv, JournalInv, QueueInv
  <2>2. CASE ~blocked
    <3>1. m \notin queue BY <1>0, <2>2 DEF ControlInv, QueueInv, Gone, Twins
    <3> QED BY <1>0, <1>2, <3>1, SourcesMoved
  <2> QED BY <2>1, <2>2
<1>6. Running => ~exec /\ op = IdleOp
  BY <1>0 DEF Repair, Dispatching, Ready, Running, ControlInv, OpShape
<1>7. MoveInv' BY <1>0, <1>6, NoMoveInv DEF MoveInv, Running
<1>8. OpShape' BY <1>0 DEF ControlInv, OpShape
<1>9. OpInv'
  <2>1. CASE Running
    <3>1. op' = IdleOp BY <1>0, <1>6, <2>1
    <3> QED BY <3>1, CallSettles, SettledOp
  <2>2. CASE ~Running BY <1>0, <2>2 DEF OpInv, Running
  <2> QED BY <2>1, <2>2
<1>10. CheckpointInv' BY <1>0 DEF ControlInv, CheckpointInv, Running
<1>11. PlayInv'
  <2>1. CASE ~Running BY <1>0, <2>1 DEF PlayInv, Running
  <2>2. CASE playing = Nothing BY <1>0, <2>2 DEF PlayInv
  <2>3. CASE Running /\ playing # Nothing
    <3>1. playing.path \notin {m.source, m.target}
      BY <1>0, <2>3 DEF Careful, Repair, ControlInv, CheckpointInv
    <3>2. \A n \in disk.journal : n.source = playing.path => fs'[n.source] = fs[n.source]
      BY <1>0, <1>2, <3>1, OtherSources
    <3> QED BY <1>0, <1>6, <2>3, <3>2, PlayStays DEF Present
  <2> QED BY <2>1, <2>2, <2>3
<1> QED BY <1>4, <1>5, <1>7, <1>8, <1>9, <1>10, <1>11 DEF ControlInv

LEMMA IdStart ==
  ASSUME IdentityInv, Start PROVE RowsInv' /\ ControlInv'
<1>0. /\ RowsInv /\ ControlInv /\ UNCHANGED <<fs, disk>> /\ mem' = disk
      /\ exec' = FALSE /\ queue' = {} /\ playing' = Nothing /\ blocked' = FALSE
  BY InvTypes DEF Start
<1>1. \A r \in Rows : Tracked(r)' => Tracked(r) BY <1>0 DEF Tracked
<1>2. RowsInv' BY <1>0, <1>1, RowsFollow
<1>3. JournalInv'
  <2>1. Compatible(disk'.journal \cup mem'.journal)
    BY <1>0, CompatibleSubset DEF ControlInv, JournalInv
  <2> QED BY <1>0, <2>1 DEF JournalInv, Kept
<1>4. QueueInv' BY <1>0 DEF QueueInv, Gone
<1>5. CheckpointInv' BY <1>0 DEF ControlInv, CheckpointInv
<1>6. PlayInv' BY <1>0 DEF PlayInv
<1>7. MoveInv' BY <1>0, NoMoveInv
<1>8. OpShape' /\ OpInv'
  <2>1. CASE CallReconcile(TRUE, "none")
    BY <2>1, CallSettles, SettledOp DEF Continuations
  <2>2. CASE op' = [IdleOp EXCEPT !.step = "flush", !.then = "start"]
    <3>1. op'.step = "flush" /\ op'.batch = {} /\ op'.untouched = {} BY <2>2 DEF IdleOp
    <3>2. OpShape' BY <3>1 DEF OpShape
    <3>3. OpInv' BY <3>1 DEF OpInv, Remapping, Gone, Kept
    <3> QED BY <3>2, <3>3
  <2> QED BY <2>1, <2>2 DEF Start
<1> QED BY <1>2, <1>3, <1>4, <1>5, <1>6, <1>7, <1>8 DEF ControlInv

-----------------------------------------------------------------------------
(* The theorem *)

LEMMA IdInit == ASSUME InStep, Init PROVE RowsInv /\ ControlInv
<1>0. /\ fs = InitialFs /\ disk.journal = {} /\ mem.journal = {} /\ disk.checkpoint = {}
      /\ mem.checkpoint = {} /\ playing = Nothing /\ op = IdleOp /\ ~exec /\ queue = {}
  BY DEF Init
<1>1. \A r \in Rows : Tracked(r) => r \in InitialRows
  BY <1>0, DocKinds DEF Init, Tracked
<1>2. RowsInv
  BY <1>0, <1>1 DEF RowsInv, Sound, Leads, Free, Held, InStep
<1>3. Compatible({}) BY DEF Compatible, Sources, Targets
<1>4. JournalInv BY <1>0, <1>3 DEF JournalInv, Kept
<1>5. MoveInv /\ QueueInv /\ CheckpointInv /\ PlayInv
  BY <1>0 DEF MoveInv, QueueInv, Gone, CheckpointInv, PlayInv
<1>6. op.step = "idle" /\ op.batch = {} /\ op.untouched = {} BY <1>0 DEF IdleOp
<1>7. OpShape BY <1>0, <1>6 DEF OpShape
<1>8. OpInv BY <1>6 DEF OpInv, Remapping
<1> QED BY <1>2, <1>4, <1>5, <1>7, <1>8 DEF ControlInv

LEMMA IdStutter ==
  ASSUME IdentityInv, UNCHANGED vars PROVE RowsInv' /\ ControlInv'
<1>0. RowsInv /\ ControlInv BY InvTypes
<1> USE DEF vars
<1>1. \A r \in Rows : Tracked(r)' => Tracked(r) BY DEF Tracked, Running
<1>2. RowsInv' BY <1>0, <1>1, RowsFollow
<1>3. JournalInv' BY <1>0 DEF ControlInv, JournalInv, Kept, Present
<1>4. QueueInv' BY <1>0 DEF ControlInv, QueueInv, Gone, Journaled, Present
<1>5. CheckpointInv' BY <1>0 DEF ControlInv, CheckpointInv, Running
<1>6. PlayInv' BY <1>0 DEF ControlInv, PlayInv, Held, Present, Running
<1>7. MoveInv' BY <1>0 DEF ControlInv, MoveInv, Journaled, Gone, Kept, Present, Running
<1>8. OpShape' BY <1>0 DEF ControlInv, OpShape
<1>9. OpInv' BY <1>0 DEF ControlInv, OpInv, Journaled, Gone, Kept, Present, Running
<1> QED BY <1>2, <1>3, <1>4, <1>5, <1>6, <1>7, <1>8, <1>9 DEF ControlInv

LEMMA IdNext ==
  ASSUME Careful, IdentityInv, TypeOK', [Next]_vars PROVE RowsInv' /\ ControlInv'
<1>0. KeepsFiles \/ UNCHANGED vars
  BY KeepsNext DEF IdentityInv, StoreInv, FilesInv
<1>1. CASE UNCHANGED vars BY <1>1, IdStutter
<1> SUFFICES ASSUME Next, KeepsFiles PROVE RowsInv' /\ ControlInv' BY <1>0, <1>1
<1>2. CASE ControllerStep
  <2>1. Running BY <1>2 DEF ControllerStep
  <2>2. CASE PersistPending \/ Reconcile \/ RemapIdentities \/ RemapJournal
    BY <2>1, <2>2, IdPersistPending, IdReconcile, IdRemapIdentities, IdRemapJournal
  <2>3. CASE FlushProgress \/ FlushClear \/ InsertHistory \/ NotePosition
    BY <2>1, <2>3, IdFlushProgress, IdFlushClear, IdInsertHistory, IdNotePosition
  <2>4. CASE DiscardUntouched \/ UndoIntent
    BY <2>1, <2>4, IdDiscardUntouched, IdUndoIntent
  <2>5. CASE \E m \in Mappings : LinkTarget(m) \/ UnlinkSource(m)
    BY <2>1, <2>5, IdLinkTarget, IdUnlinkSource
  <2>6. CASE HandleResponse \/ HandleDisconnect \/ Shutdown
    BY <2>1, <2>6, IdHandleResponse, IdHandleDisconnect, IdShutdown
  <2> QED BY <1>2, <2>2, <2>3, <2>4, <2>5, <2>6 DEF ControllerStep
<1>3. CASE UserStep
  <2>1. CASE BeginMove \/ DismissMove \/ Quit
    <3>1. Running BY <2>1 DEF BeginMove, DismissMove, Quit, Dispatching, Ready, Running
    <3> QED BY <2>1, <3>1, IdRequest
  <2> QED BY <1>3, <2>1, IdConfirmMove, IdSubmitRename, IdPlay DEF UserStep
<1>4. CASE Running /\ WorkerStep BY <1>4, IdWorkerStep
<1>5. CASE Autosave BY <1>5, IdAutosave
<1>6. ASSUME NEW publish \in BOOLEAN, SavePosition(publish) PROVE RowsInv' /\ ControlInv'
  BY <1>6, IdSavePosition
<1>7. CASE Start BY <1>7, IdStart
<1>8. CASE Environment BY <1>8, IdEnds, IdWorkerPanic, IdIntrude, IdRepair DEF Environment
<1>9. CASE PlaybackStarted BY <1>9, IdPlaybackStarted
<1> QED BY <1>2, <1>3, <1>4, <1>5, <1>6, <1>7, <1>8, <1>9 DEF Next

\* A process does not come up with a position in its hands.
LEMMA ComesUpIdle == ASSUME [Next]_vars, Running', ~Running PROVE Start
<1>1. ~ControllerStep BY DEF ControllerStep
<1>2. ~UserStep
  BY DEF UserStep, BeginMove, DismissMove, Quit, ConfirmMove, SubmitRename, Play,
         Dispatching, Ready, Running
<1>3. ~Autosave /\ ~PlaybackStarted /\ \A publish \in BOOLEAN : ~SavePosition(publish)
  BY DEF Autosave, PlaybackStarted, SavePosition, Ready, Running
<1>4. ~Environment
  BY DEF Environment, ExternalExit, Crash, WorkerPanic, WorkerFrame, Intrude, Repair,
         Ready, Running
<1>5. ~UNCHANGED vars BY DEF vars, Running
<1> QED BY <1>1, <1>2, <1>3, <1>4, <1>5 DEF Next

LEMMA HeldNext == ASSUME Careful, IdentityInv, [Next]_vars PROVE HeldRow'
<1> SUFFICES ASSUME Running', Saving(op') PROVE op'.row = playing' BY DEF HeldRow
<1>0. TypeInv /\ ControlInv /\ HeldRow BY InvTypes
<1>1. CASE Carried
  <2>1. CASE Running BY <1>0, <1>1, <2>1 DEF Carried, HeldRow
  <2>2. CASE ~Running
    <3>1. Start BY <2>2, ComesUpIdle
    <3>2. ~Saving([IdleOp EXCEPT !.step = "flush", !.then = "start"]) BY DEF IdleOp, Saving
    <3>3. CallReconcile(TRUE, "none") => ~Saving(op') BY DEF CallReconcile, IdleOp, Saving
    <3> QED BY <3>1, <3>2, <3>3 DEF Start
  <2> QED BY <2>1, <2>2
<1>2. CASE Taken BY <1>2 DEF Taken
<1>3. CASE Chosen
  <2>1. op' = IdleOp BY <1>0, <1>3 DEF Chosen, ControlInv, OpShape
  <2> QED BY <2>1 DEF IdleOp, Saving
<1>4. CASE PlaybackStarted
  <2>1. starting # Nothing /\ playing # Nothing
    BY <1>0, <1>4 DEF PlaybackStarted, TypeInv, PositionHeld
  <2>2. ~LateStarts BY <1>0, <2>1 DEF Careful, ControlInv, CheckpointInv
  <2>3. starting = playing BY <1>4, <2>2 DEF PlaybackStarted, StartsInPlace
  <2>4. op'.row = starting /\ UNCHANGED playing BY <1>4 DEF PlaybackStarted, IdleOp
  <2> QED BY <2>3, <2>4
<1> QED BY <1>0, <1>1, <1>2, <1>3, <1>4, SavesGoOn

LEMMA IdImplies == IdentityInv => IdentityRecoverable
<1> SUFFICES ASSUME IdentityInv, NEW d \in Identities, NEW r \in disk[d], Held(r.file)
             PROVE  \/ fs[r.path] = r.file
                    \/ \E m \in disk.journal : m.source = r.path /\ fs[m.target] = r.file
  BY DEF IdentityRecoverable
<1>1. TypeOK /\ RowsInv BY InvTypes
<1>2. r \in Rows BY <1>1, DocKinds DEF TypeOK, Documents
<1>3. Sound(r) BY <1>1, <1>2 DEF RowsInv, Tracked
<1> QED BY <1>3 DEF Sound, Leads

LEMMA IdentityInit == ASSUME InStep PROVE Init => IdentityInv
<1>1. Init => HeldRow BY DEF Init, HeldRow, Saving, IdleOp
<1> QED BY <1>1, IdInit, TypeInit, TwinInit, PublishInit DEF IdentityInv, StoreInv

LEMMA IdentityNext == ASSUME Careful PROVE IdentityInv /\ [Next]_vars => IdentityInv'
<1> SUFFICES ASSUME IdentityInv, [Next]_vars PROVE IdentityInv' OBVIOUS
<1>1. TypeInv /\ StoreInv /\ FilesInv BY DEF IdentityInv, StoreInv, FilesInv
<1>2. TypeInv' BY <1>1, TypeNext, PositionNext DEF TypeInv
<1>3. PublishInv' /\ TwinInv' BY <1>1, PublishNext, TwinNext
<1>4. RowsInv' /\ ControlInv' BY <1>2, IdNext DEF TypeInv
<1>5. HeldRow' BY HeldNext
<1> QED BY <1>2, <1>3, <1>4, <1>5 DEF IdentityInv, StoreInv

\* Wherever a move, a rename, a save, a remap or a recovery is cut short, what is
\* on disk leads from every durable identity to its file.
THEOREM IdentitiesRecovered ==
  ASSUME Careful, InStep PROVE Spec => []IdentityRecoverable
BY IdentityInit, IdentityNext, IdImplies, PTL DEF Spec

-----------------------------------------------------------------------------
(* A journaled move that happened can be remapped.                          *)
(*                                                                          *)
(* What the steps do, seen from outside the store: each replaces at most    *)
(* one document or changes at most one file, in one of a few ways.          *)

\* Every write is reported as what it was.
Clean == ~LateErrors \/ MaxFaults = 0

LEMMA CleanWrite ==
  ASSUME Clean, TypeOK, stale = {}, NEW doc \in Docs, NEW new, NEW outcome,
         Persist(doc, new, outcome)
  PROVE  /\ stale' = {}
         /\ outcome = "error" => disk' = disk
         /\ outcome # "error" => ~blocked /\ disk' = [disk EXCEPT ![doc] = new]
<1>1. ~(Fault /\ LateErrors) BY ConstantsAssumption DEF Clean, Fault, TypeOK
<1> QED BY <1>1 DEF Persist

\* The checkpoint goes into the progress document, is emptied, or is written.
Merged == disk' = [disk EXCEPT !.progress = Merge(@, disk.checkpoint)]
Cleared == op.step = "clear" /\ disk' = [disk EXCEPT !.checkpoint = {}]
Noted == op.step = "note" /\ disk' = [disk EXCEPT !.checkpoint = {playing}]

\* What starts playing is entered into the history.
Inserted == op.step = "insert" /\ disk' = [disk EXCEPT !.history = @ \cup {playing}]

\* A document is remapped by moves of the journal that have happened.
Led(d) ==
  /\ op.step = d /\ disk' = [disk EXCEPT ![d] = Remap(@, op.batch)]
  /\ op.batch \subseteq disk.journal /\ Gone(op.batch)
  /\ disk.checkpoint = {} /\ ~exec
  /\ d = "progress" => ~Collides(disk.progress, op.batch)

\* Intents are forgotten: all rows follow the moves already, or they never began.
Settles == op.step = "journal" /\ disk' = [disk EXCEPT !.journal = @ \ op.batch]
Withdraws ==
  /\ ~exec
  /\ \/ /\ op.step = "discard" /\ disk' = [disk EXCEPT !.journal = @ \ op.untouched]
        /\ Kept(op.untouched)
     \/ /\ op.step = "undo" /\ disk' = [disk EXCEPT !.journal = @ \ op.batch]
        /\ Kept(op.batch)

\* Intents that the library accepts are added.
Adds(ms) ==
  /\ disk' = [disk EXCEPT !.journal = @ \cup ms]
  /\ Running /\ ~exec /\ Compatible(ms) /\ \A m \in ms : Movable(m)
  /\ ~Collides(disk.progress, ms) /\ ~Conflicts(disk.journal, ms)

Rewrites ==
  \/ Merged \/ Cleared \/ Noted \/ Inserted \/ Led("progress") \/ Led("history")
  \/ Settles \/ Withdraws \/ \E ms \in SUBSET Mappings : Adds(ms)

\* One document at most, in one of these ways.
OneWrite ==
  /\ stale' = {}
  /\ UNCHANGED disk \/ (Running /\ ~blocked /\ Rewrites /\ UNCHANGED <<fs, playing>>)

LEMMA Agreed ==
  ASSUME IdentityInv, Running, stale = {}, ~blocked, NEW d \in Docs, d \notin Ahead
  PROVE  disk[d] = mem[d]
BY Synced DEF IdentityInv

LEMMA WriteFlush ==
  ASSUME Clean, IdentityInv, stale = {}, Running, FlushProgress \/ FlushClear PROVE OneWrite
<1>0. TypeOK /\ UNCHANGED <<fs, playing>> /\ "progress" \in Docs /\ "checkpoint" \in Docs
  BY InvTypes, DocKinds DEF FlushProgress, FlushClear
<1>1. CASE FlushProgress
  <2> DEFINE rows == Merge(mem.progress, mem.checkpoint)
  <2>1. UNCHANGED <<disk, stale>> \/ \E outcome : Persist("progress", rows, outcome)
    BY <1>1 DEF FlushProgress
  <2>2. CASE UNCHANGED <<disk, stale>> BY <2>2 DEF OneWrite
  <2>3. CASE \E outcome : Persist("progress", rows, outcome)
    <3>1. PICK outcome : Persist("progress", rows, outcome) BY <2>3
    <3>2. CASE outcome = "error" BY <1>0, <3>1, <3>2, CleanWrite DEF OneWrite
    <3>3. CASE outcome # "error"
      <4>1. stale' = {} /\ ~blocked /\ disk' = [disk EXCEPT !["progress"] = rows]
        BY <1>0, <3>1, <3>3, CleanWrite
      <4>2. disk["progress"] = mem["progress"]
        BY <1>0, <1>1, <4>1, Agreed DEF FlushProgress, Ahead
      <4>3. disk.checkpoint = mem.checkpoint BY InvTypes DEF ControlInv, CheckpointInv
      <4>4. Merged BY <4>1, <4>2, <4>3 DEF Merged
      <4> QED BY <1>0, <4>1, <4>4 DEF OneWrite, Rewrites
    <3> QED BY <3>2, <3>3
  <2> QED BY <2>1, <2>2, <2>3
<1>2. CASE FlushClear
  <2>1. PICK outcome : Persist("checkpoint", {}, outcome) BY <1>2 DEF FlushClear
  <2>2. CASE outcome = "error" BY <1>0, <2>1, <2>2, CleanWrite DEF OneWrite
  <2>3. CASE outcome # "error"
    <3>1. stale' = {} /\ ~blocked /\ disk' = [disk EXCEPT !["checkpoint"] = {}]
      BY <1>0, <2>1, <2>3, CleanWrite
    <3>2. Cleared BY <1>2, <3>1 DEF Cleared, FlushClear
    <3> QED BY <1>0, <2>1, <2>3, <3>1, <3>2 DEF OneWrite, Rewrites
  <2> QED BY <2>2, <2>3
<1> QED BY <1>1, <1>2

LEMMA WriteNote ==
  ASSUME Clean, IdentityInv, stale = {}, Running, NotePosition PROVE OneWrite
<1>0. /\ TypeOK /\ UNCHANGED <<fs, playing>> /\ "checkpoint" \in Docs /\ op.step = "note"
      /\ op.row = playing
  BY InvTypes, DocKinds DEF NotePosition, HeldRow, Saving
<1>1. PICK outcome : Persist("checkpoint", {playing}, outcome) BY <1>0 DEF NotePosition
<1>2. CASE outcome = "error" BY <1>0, <1>1, <1>2, CleanWrite DEF OneWrite
<1>3. CASE outcome # "error"
  <2>1. stale' = {} /\ ~blocked /\ disk' = [disk EXCEPT !["checkpoint"] = {playing}]
    BY <1>0, <1>1, <1>3, CleanWrite
  <2> QED BY <1>0, <2>1 DEF OneWrite, Rewrites, Noted
<1> QED BY <1>2, <1>3

LEMMA WriteInsert ==
  ASSUME Clean, IdentityInv, stale = {}, Running, InsertHistory PROVE OneWrite
<1> DEFINE rows == mem.history \cup {playing}
<1>0. /\ TypeOK /\ UNCHANGED <<fs, playing>> /\ "history" \in Docs /\ op.step = "insert"
      /\ "history" \notin Ahead
  BY InvTypes, DocKinds DEF InsertHistory, Ahead
<1>1. UNCHANGED <<disk, stale>> \/ \E outcome : Persist("history", rows, outcome)
  BY DEF InsertHistory
<1> HIDE DEF rows
<1>2. CASE UNCHANGED <<disk, stale>> BY <1>2 DEF OneWrite
<1>3. ASSUME NEW outcome, Persist("history", rows, outcome) PROVE OneWrite
  <2>1. CASE outcome = "error" BY <1>0, <1>3, <2>1, CleanWrite DEF OneWrite
  <2>2. CASE outcome # "error"
    <3>1. stale' = {} /\ ~blocked /\ disk' = [disk EXCEPT !["history"] = rows]
      BY <1>0, <1>3, <2>2, CleanWrite
    <3>2. disk["history"] = mem["history"] BY <1>0, <3>1, Agreed
    <3>3. Inserted BY <1>0, <3>1, <3>2 DEF Inserted, rows
    <3> QED BY <1>0, <3>1, <3>3 DEF OneWrite, Rewrites
  <2> QED BY <2>1, <2>2
<1> QED BY <1>1, <1>2, <1>3

LEMMA WriteRemap ==
  ASSUME Clean, IdentityInv, stale = {}, Running, RemapIdentities PROVE OneWrite
<1> DEFINE rows == Remap(mem[op.step], op.batch)
<1>0. /\ TypeOK /\ ControlInv /\ UNCHANGED <<fs, playing>> /\ op.step \in Remapped
      /\ op.step \in Docs /\ op.step \notin Ahead
  BY InvTypes, DocKinds DEF RemapIdentities, Ahead, Remapped
<1>1. CASE UNCHANGED <<disk, stale>> BY <1>1 DEF OneWrite
<1>2. CASE /\ \E outcome : Persist(op.step, rows, outcome)
           /\ op.step = "progress" => ~Collides(mem.progress, op.batch)
  <2>1. PICK outcome : Persist(op.step, rows, outcome) BY <1>2
  <2>2. CASE outcome = "error" BY <1>0, <2>1, <2>2, CleanWrite DEF OneWrite
  <2>3. CASE outcome # "error"
    <3>1. stale' = {} /\ ~blocked /\ disk' = [disk EXCEPT ![op.step] = rows]
      BY <1>0, <2>1, <2>3, CleanWrite
    <3>2. disk[op.step] = mem[op.step] BY <1>0, <3>1, Agreed
    <3>3. op.batch \subseteq disk.journal /\ Gone(op.batch) /\ disk.checkpoint = {}
      BY <1>0, <3>1 DEF ControlInv, OpInv, Remapping, Remapped, Journaled
    <3>4. ~exec BY <1>0, NoMove DEF Remapped
    <3>5. op.step = "progress" => ~Collides(disk.progress, op.batch)
      BY <1>2, <3>2
    <3>6. disk' = [disk EXCEPT ![op.step] = Remap(@, op.batch)] BY <3>1, <3>2
    <3>7. Led("progress") \/ Led("history")
      BY <1>0, <3>3, <3>4, <3>5, <3>6 DEF Led, Remapped
    <3> QED BY <1>0, <3>1, <3>7 DEF OneWrite, Rewrites
  <2> QED BY <2>2, <2>3
<1> QED BY <1>1, <1>2 DEF RemapIdentities

\* Intents ms are taken out of the journal.
LEMMA WriteForget ==
  ASSUME Clean, IdentityInv, stale = {}, Running, UNCHANGED <<fs, playing>>,
         NEW ms, NEW outcome, Persist("journal", mem.journal \ ms, outcome),
         ~blocked /\ disk' = [disk EXCEPT !.journal = @ \ ms] => Settles \/ Withdraws
  PROVE  OneWrite
<1>0. TypeOK /\ "journal" \in Docs /\ "journal" \notin Ahead
  BY InvTypes, DocKinds DEF Ahead, Remapped
<1>1. CASE outcome = "error" BY <1>0, <1>1, CleanWrite DEF OneWrite
<1>2. CASE outcome # "error"
  <2>1. stale' = {} /\ ~blocked /\ disk' = [disk EXCEPT !["journal"] = mem.journal \ ms]
    BY <1>0, <1>2, CleanWrite
  <2>2. disk["journal"] = mem["journal"] BY <1>0, <2>1, Agreed
  <2>3. disk' = [disk EXCEPT !.journal = @ \ ms] BY <2>1, <2>2
  <2> QED BY <2>1, <2>3 DEF OneWrite, Rewrites
<1> QED BY <1>1, <1>2

LEMMA WriteJournal ==
  ASSUME Clean, IdentityInv, stale = {}, Running,
         RemapJournal \/ DiscardUntouched \/ UndoIntent
  PROVE  OneWrite
<1>0. ControlInv /\ UNCHANGED <<fs, playing>>
  BY InvTypes DEF RemapJournal, DiscardUntouched, UndoIntent
<1>1. CASE RemapJournal
  <2>1. op.step = "journal" /\ \E outcome : Persist("journal", mem.journal \ op.batch, outcome)
    BY <1>1 DEF RemapJournal
  <2> QED BY <1>0, <2>1, WriteForget DEF Settles
<1>2. CASE DiscardUntouched
  <2>1. /\ op.step = "discard"
        /\ \E outcome : Persist("journal", mem.journal \ op.untouched, outcome)
    BY <1>2 DEF DiscardUntouched
  <2>2. ~exec /\ (~blocked => Kept(op.untouched))
    BY <1>0, <2>1, NoMove DEF ControlInv, OpInv
  <2> QED BY <1>0, <2>1, <2>2, WriteForget DEF Withdraws
<1>3. CASE UndoIntent
  <2>1. /\ op.step = "undo"
        /\ \E outcome : Persist("journal", mem.journal \ op.batch, outcome)
    BY <1>3 DEF UndoIntent
  <2>2. ~exec /\ Kept(op.batch) BY <1>0, <2>1, NoMove DEF ControlInv, OpInv
  <2> QED BY <1>0, <2>1, <2>2, WriteForget DEF Withdraws
<1> QED BY <1>1, <1>2, <1>3

LEMMA WriteIntent ==
  ASSUME Clean, IdentityInv, stale = {}, Running, ~exec, op.step = "idle",
         UNCHANGED <<fs, playing>>, NEW ms \in SUBSET Mappings, NEW outcome,
         JournalIntent(ms, outcome), \A m \in ms : Movable(m)
  PROVE  OneWrite
<1>0. /\ TypeOK /\ "journal" \in Docs /\ "progress" \in Docs /\ Ahead = {}
      /\ Persist("journal", mem.journal \cup ms, outcome) /\ Accepts(ms)
  BY InvTypes, DocKinds DEF Ahead, Remapped, JournalIntent
<1>1. CASE outcome = "error" BY <1>0, <1>1, CleanWrite DEF OneWrite
<1>2. CASE outcome # "error"
  <2>1. stale' = {} /\ ~blocked /\ disk' = [disk EXCEPT !["journal"] = mem.journal \cup ms]
    BY <1>0, <1>2, CleanWrite
  <2>2. disk["journal"] = mem["journal"] /\ disk["progress"] = mem["progress"]
    BY <1>0, <2>1, Agreed
  <2>3. Adds(ms) BY <1>0, <2>1, <2>2 DEF Adds, Accepts
  <2> QED BY <2>1, <2>3 DEF OneWrite, Rewrites
<1> QED BY <1>1, <1>2

\* A step that is not among the above leaves the documents alone.
LEMMA WriteNext ==
  ASSUME Clean, IdentityInv, stale = {}, [Next]_vars PROVE OneWrite
<1>1. CASE UNCHANGED vars BY <1>1 DEF vars, OneWrite
<1>2. CASE ControllerStep
  <2>1. CASE UNCHANGED <<disk, stale>> BY <2>1 DEF OneWrite
  <2>2. Running BY <1>2 DEF ControllerStep
  <2>3. PersistPending \/ Reconcile => UNCHANGED <<disk, stale>>
    BY DEF PersistPending, Reconcile
  <2>4. HandleResponse \/ HandleDisconnect \/ Shutdown => UNCHANGED <<disk, stale>>
    BY DEF HandleResponse, HandleDisconnect, Shutdown
  <2>5. ASSUME NEW m \in Mappings, LinkTarget(m) \/ UnlinkSource(m)
        PROVE  UNCHANGED <<disk, stale>>
    BY <2>5 DEF LinkTarget, UnlinkSource
  <2> QED BY <1>2, <2>1, <2>2, <2>3, <2>4, <2>5, WriteFlush, WriteNote, WriteInsert,
             WriteRemap, WriteJournal
          DEF ControllerStep
<1>3. CASE UserStep
  <2>1. CASE BeginMove \/ DismissMove \/ Quit \/ \E p \in Playable : Play(p)
    BY <2>1 DEF BeginMove, DismissMove, Quit, Play, OneWrite
  <2>2. ASSUME NEW plan \in SUBSET Mappings, ConfirmMove(plan) PROVE OneWrite
    <3>1. /\ Running /\ ~exec /\ op.step = "idle" /\ UNCHANGED <<fs, playing>>
          /\ \A m \in plan : Movable(m)
      BY <2>2 DEF ConfirmMove, Dispatching, Ready, Running
    <3>2. JournalIntent(plan, "ok") \/ JournalIntent(plan, "error")
      BY <2>2 DEF ConfirmMove
    <3> QED BY <3>1, <3>2, WriteIntent
  <2>3. ASSUME NEW m \in Mappings, SubmitRename(m) PROVE OneWrite
    <3>1. /\ Running /\ ~exec /\ op.step = "idle" /\ UNCHANGED <<fs, playing>>
          /\ \A n \in {m} : Movable(n)
      BY <2>3 DEF SubmitRename, Dispatching, Ready, Running
    <3>2. JournalIntent({m}, "ok") \/ JournalIntent({m}, "error")
      BY <2>3 DEF SubmitRename
    <3> QED BY <3>1, <3>2, WriteIntent
  <2> QED BY <1>3, <2>1, <2>2, <2>3 DEF UserStep
<1>4. CASE WorkerStep
  <2>1. WorkerFrame BY <1>4 DEF WorkerStep, StartPlan, MoveEntry, PublishEntry, DetachSource
  <2> QED BY <2>1 DEF WorkerFrame, OneWrite
<1>5. CASE Autosave \/ (\E publish \in BOOLEAN : SavePosition(publish)) \/ PlaybackStarted \/ Start
  BY <1>5 DEF Autosave, SavePosition, PlaybackStarted, Start, OneWrite
<1>6. CASE Environment
  BY <1>6 DEF Environment, ExternalExit, Crash, WorkerPanic, WorkerFrame, Intrude, Repair,
              OneWrite
<1> QED BY <1>1, <1>2, <1>3, <1>4, <1>5, <1>6 DEF Next

\* A journaled file is copied, moved, or one of its two copies goes.
Copies(m) == Movable(m) /\ fs' = [fs EXCEPT ![m.target] = fs[m.source]]
Moves(m) == Movable(m) /\ fs' = Renamed(m)
Detaches(m) == Twins(m) /\ fs' = [fs EXCEPT ![m.source] = NoFile]
Retracts(m) == Twins(m) /\ fs' = [fs EXCEPT ![m.target] = NoFile]

OneChange ==
  \/ UNCHANGED fs
  \/ \E m \in disk.journal : Copies(m) \/ Moves(m) \/ Detaches(m) \/ Retracts(m)
  \/ \E p \in Paths, f \in Files : Intrude(p, f)

LEMMA ChangeNext ==
  ASSUME IdentityInv, [Next]_vars PROVE OneChange
<1>0. TypeOK /\ ControlInv /\ TwinInv BY InvTypes
<1>1. CASE UNCHANGED fs BY <1>1 DEF OneChange
<1>2. ASSUME NEW m \in Mappings, Running, LinkTarget(m) \/ UnlinkSource(m) PROVE OneChange
  <2>1. m \in disk.journal
    BY <1>0, <1>2 DEF LinkTarget, UnlinkSource, ControlInv, OpInv, Journaled
  <2>2. CASE LinkTarget(m) BY <2>1, <2>2 DEF LinkTarget, OneChange, Copies
  <2>3. CASE UnlinkSource(m)
    BY <1>0, <1>2, <2>1, <2>3 DEF UnlinkSource, TwinInv, OneChange, Detaches, Retracts
  <2> QED BY <1>2, <2>2, <2>3
<1>3. CASE Running /\ WorkerStep
  <2>1. exec /\ worker.step # "lost"
    BY <1>0, <1>3
    DEF WorkerStep, StartPlan, MoveEntry, PublishEntry, DetachSource, Busy, TwinInv
  <2>2. /\ worker.plan \subseteq disk.journal
        /\ worker.step \in {"staged", "published"} =>
             worker.entry \subseteq worker.plan \ worker.done
        /\ Kept(worker.plan \ worker.done)
    BY <1>0, <1>3, <2>1 DEF ControlInv, MoveInv, Journaled
  <2>3. CASE StartPlan BY <1>1, <2>3 DEF StartPlan
  <2>4. ASSUME NEW m \in Mappings, MoveEntry(m) PROVE OneChange
    BY <1>1, <2>2, <2>4 DEF MoveEntry, Remaining, OneChange, Moves
  <2>5. ASSUME NEW m \in Mappings, PublishEntry(m) PROVE OneChange
    BY <1>1, <2>2, <2>5 DEF PublishEntry, OneChange, Copies, Movable, Kept
  <2>6. ASSUME NEW m \in Mappings, DetachSource(m) PROVE OneChange
    BY <1>0, <1>1, <1>3, <2>2, <2>6 DEF DetachSource, OneChange, Detaches, TwinInv
  <2> QED BY <1>3, <2>3, <2>4, <2>5, <2>6 DEF WorkerStep
<1>4. ASSUME NEW m \in Mappings, Repair(m) PROVE OneChange
  <2>1. Twins(m) BY <1>4 DEF Repair, Twins
  <2> QED BY <1>4, <2>1 DEF Repair, OneChange, Detaches, Retracts
<1>5. CASE \E p \in Paths, f \in Files : Intrude(p, f) BY <1>5 DEF OneChange
<1>6. CASE UNCHANGED vars BY <1>1, <1>6 DEF vars
<1>7. CASE ControllerStep
  BY <1>1, <1>2, <1>7
  DEF ControllerStep, PersistPending, Reconcile, RemapIdentities, RemapJournal, FlushProgress,
      FlushClear, InsertHistory, NotePosition, DiscardUntouched, UndoIntent, HandleResponse,
      HandleDisconnect, Shutdown
<1>8. CASE UserStep
  BY <1>1, <1>8 DEF UserStep, BeginMove, DismissMove, Quit, ConfirmMove, SubmitRename, Play
<1>9. CASE Autosave \/ (\E publish \in BOOLEAN : SavePosition(publish)) \/ PlaybackStarted \/ Start
  BY <1>1, <1>9 DEF Autosave, SavePosition, PlaybackStarted, Start
<1>10. CASE Environment
  BY <1>1, <1>4, <1>5, <1>10 DEF Environment, ExternalExit, Crash, WorkerPanic
<1> QED BY <1>3, <1>6, <1>7, <1>8, <1>9, <1>10 DEF Next

\* The move of m has not happened, or is not reported yet.
Underway(m) == Present(m.source) \/ (Running /\ exec /\ m \in worker.done)

\* No step takes a journaled move back.
LEMMA SourcesStay ==
  ASSUME IdentityInv, [Next]_vars, NEW m \in disk.journal, Present(m.source)'
  PROVE  Present(m.source)
<1>0. TypeOK /\ Compatible(disk.journal) /\ m.source \in Paths
  BY InvTypes, CompatibleSubset, JournalTypes, MappingPaths DEF ControlInv, JournalInv
<1>1. CASE UNCHANGED fs BY <1>1 DEF Present
<1>2. ASSUME NEW n \in disk.journal, Copies(n) \/ Moves(n) \/ Detaches(n) \/ Retracts(n)
      PROVE  Present(m.source)
  <2>1. n.target # m.source BY <1>0, CompatibleFacts
  <2>2. n \in Mappings BY <1>0, JournalTypes
  <2>3. n.source \in Paths /\ n.target \in Paths BY <2>2, MappingPaths
  <2> QED BY <1>0, <1>2, <2>1, <2>3
          DEF Copies, Moves, Detaches, Retracts, Renamed, Present, TypeOK
<1>3. ASSUME NEW p \in Paths, NEW f \in Files, Intrude(p, f) PROVE Present(m.source)
  <2>1. p # m.source BY <1>3 DEF Intrude, Sources
  <2> QED BY <1>0, <1>3, <2>1 DEF Intrude, Present, TypeOK
<1> QED BY <1>1, <1>2, <1>3, ChangeNext DEF OneChange

LEMMA DoneNext ==
  ASSUME IdentityInv, [Next]_vars, Running', exec', NEW m \in worker'.done
  PROVE  Running /\ exec /\ (m \in worker.done \/ Present(m.source))
<1>0. TypeOK /\ ControlInv /\ TwinInv /\ worker \in Workers BY InvTypes DEF TypeOK
<1>1. CASE (Running' => Running) /\ UNCHANGED <<exec, worker>> BY <1>1
<1>2. CASE Running /\ WorkerStep
  <2>1. exec /\ worker.step # "lost" /\ exec' = exec
    BY <1>0, <1>2
    DEF WorkerStep, StartPlan, MoveEntry, PublishEntry, DetachSource, Busy, TwinInv, WorkerFrame
  <2>2. /\ worker.step = "published" => worker.entry \subseteq worker.plan \ worker.done
        /\ Kept(worker.plan \ worker.done)
    BY <1>0, <1>2, <2>1 DEF ControlInv, MoveInv
  <2>3. \/ worker'.done = worker.done
        \/ \E n \in worker.plan \ worker.done : worker'.done = worker.done \cup {n}
    BY <1>0, <1>2, <2>2
    DEF WorkerStep, StartPlan, MoveEntry, PublishEntry, DetachSource, StopMove, FinishEntry,
        Workers, Remaining
  <2> QED BY <1>2, <2>1, <2>2, <2>3 DEF Kept
<1>3. CASE ControllerStep
  <2>1. Running BY <1>3 DEF ControllerStep
  <2> QED BY <1>1, <1>3, <2>1
          DEF ControllerStep, PersistPending, Reconcile, RemapIdentities, RemapJournal,
              FlushProgress, FlushClear, InsertHistory, NotePosition, DiscardUntouched, UndoIntent,
              LinkTarget, UnlinkSource, HandleResponse, HandleDisconnect, Shutdown
<1>4. CASE UserStep
  <2>1. ASSUME NEW plan \in SUBSET Mappings, ConfirmMove(plan) PROVE FALSE
    <3>1. ~exec BY <2>1 DEF ConfirmMove, Dispatching
    <3>2. worker'.done = {} BY <1>0, <2>1, <3>1 DEF ConfirmMove, Workers
    <3> QED BY <3>2
  <2> QED BY <1>1, <1>4, <2>1
          DEF UserStep, BeginMove, DismissMove, Quit, SubmitRename, Play, Dispatching, Ready,
              Running
<1>5. CASE Environment
  <2>1. WorkerPanic => worker'.done = worker.done /\ UNCHANGED <<exec, phase>>
    BY <1>0 DEF WorkerPanic, WorkerFrame, Workers
  <2> QED BY <1>1, <1>5, <2>1
          DEF Environment, ExternalExit, Crash, Intrude, Repair, Running, Ready
<1>6. CASE Autosave \/ (\E publish \in BOOLEAN : SavePosition(publish)) \/ PlaybackStarted \/ Start
  BY <1>1, <1>6 DEF Autosave, SavePosition, PlaybackStarted, Start, Running
<1>7. CASE UNCHANGED vars BY <1>1, <1>7 DEF vars, Running
<1> QED BY <1>2, <1>3, <1>4, <1>5, <1>6, <1>7 DEF Next

LEMMA UnderwayNext ==
  ASSUME IdentityInv, [Next]_vars, NEW m \in disk.journal, Underway(m)'
  PROVE  Underway(m)
BY SourcesStay, DoneNext DEF Underway

\* What plays stays, ends, begins away from every intent, or follows a move that
\* is reported.
Follows ==
  \E m \in disk.journal : m \in queue' /\ playing'.path = m.target /\ ~Underway(m)'

PlaysOn ==
  \/ UNCHANGED playing
  \/ playing' = Nothing
  \/ /\ UNCHANGED disk
     /\ Follows \/ playing'.path \notin Sources(disk.journal) \cup Targets(disk.journal)

LEMMA CompletedFollows ==
  ASSUME TypeOK, ControlInv, NEW ms \in SUBSET disk.journal, ApplyCompleted(ms),
         \A m \in ms : ~Present(m.source)', ~exec', UNCHANGED disk
  PROVE  PlaysOn
<1>1. CASE playing.path \notin Sources(ms) BY <1>1 DEF ApplyCompleted, PlaysOn
<1>2. CASE playing.path \in Sources(ms)
  <2>1. Compatible(ms) BY CompatibleSubset DEF ControlInv, JournalInv
  <2>2. PICK m \in ms : m.source = playing.path /\ RemapPath(playing.path, ms) = m.target
    BY <1>2, <2>1, RemapPathFacts
  <2>3. m \in Mappings BY JournalTypes
  <2>4. playing \in Rows
    BY <2>2, <2>3, MappingPaths, ConstantsAssumption DEF TypeOK, Nothing
  <2>5. playing'.path = m.target
    BY <1>2, <2>2, <2>4 DEF ApplyCompleted, RemapRow, Rows
  <2>6. m \in queue' /\ ~Underway(m)' BY DEF ApplyCompleted, Underway
  <2> QED BY <2>5, <2>6 DEF PlaysOn, Follows
<1> QED BY <1>1, <1>2

LEMMA PlayNext ==
  ASSUME Careful, IdentityInv, [Next]_vars PROVE PlaysOn
<1>0. TypeOK /\ ControlInv BY InvTypes
<1>1. CASE UNCHANGED playing BY <1>1 DEF PlaysOn
<1>2. ASSUME NEW m \in Mappings, Running, UnlinkSource(m) PROVE PlaysOn
  <2>1. m \in disk.journal /\ ~exec
    BY <1>0, <1>2, NoMove DEF UnlinkSource, ControlInv, OpInv, Journaled
  <2>2. CASE UNCHANGED playing BY <2>2 DEF PlaysOn
  <2>3. CASE fs' = [fs EXCEPT ![m.source] = NoFile] /\ ApplyCompleted({m})
    <3>1. ~Present(m.source)' BY <1>0, <2>3, MappingPaths DEF TypeOK, Present
    <3> QED BY <1>0, <1>2, <2>1, <2>3, <3>1, CompletedFollows DEF UnlinkSource
  <2> QED BY <1>2, <2>2, <2>3 DEF UnlinkSource
<1>3. CASE Running /\ HandleResponse
  <2>1. worker.done \in SUBSET disk.journal /\ Gone(worker.done)
    BY <1>0, <1>3 DEF HandleResponse, ControlInv, MoveInv, Journaled
  <2>2. \A m \in worker.done : ~Present(m.source)' BY <1>3, <2>1 DEF HandleResponse, Gone, Present
  <2> QED BY <1>0, <1>3, <2>1, <2>2, CompletedFollows DEF HandleResponse
<1>4. ASSUME NEW p \in Playable, Play(p) PROVE PlaysOn
  <2>1. playing'.path = p /\ p \notin Sources(disk.journal) \cup Targets(disk.journal)
    BY <1>4 DEF Play, Careful
  <2> QED BY <1>4, <2>1 DEF PlaysOn, Play
<1>5. CASE ControllerStep
  BY <1>1, <1>2, <1>3, <1>5
  DEF ControllerStep, PersistPending, Reconcile, RemapIdentities, RemapJournal, FlushProgress,
      FlushClear, InsertHistory, NotePosition, DiscardUntouched, UndoIntent, LinkTarget,
      HandleDisconnect, Shutdown
<1>6. CASE UserStep
  BY <1>1, <1>4, <1>6 DEF UserStep, BeginMove, DismissMove, Quit, ConfirmMove, SubmitRename
<1>7. CASE WorkerStep
  BY <1>1, <1>7 DEF WorkerStep, StartPlan, MoveEntry, PublishEntry, DetachSource, WorkerFrame
<1>8. CASE Environment
  BY <1>1, <1>8 DEF Environment, ExternalExit, Crash, WorkerPanic, WorkerFrame, Intrude, Repair
<1>9. CASE Autosave \/ (\E publish \in BOOLEAN : SavePosition(publish)) \/ PlaybackStarted \/ Start
  BY <1>1, <1>9 DEF Autosave, SavePosition, PlaybackStarted, Start, PlaysOn
<1>10. CASE UNCHANGED vars BY <1>1, <1>10 DEF vars
<1> QED BY <1>5, <1>6, <1>7, <1>8, <1>9, <1>10 DEF Next

-----------------------------------------------------------------------------
(* The invariant: no journaled move has a row at both of its ends.  Rows      *)
(* come from what plays, so it must not play at the target of a move either,  *)
(* before the controller has remapped what it knows.                          *)

RowAt(p) == \E r \in disk.progress \cup disk.checkpoint : r.path = p
Keyed(rows) == \A r, s \in rows : r.path = s.path => r = s

\* A document of several rows for one path is never remapped.
ApartInv ==
  /\ disk.journal # {} => Keyed(disk.progress)
  /\ \A r, s \in disk.checkpoint : r = s
  /\ \A m \in disk.journal : ~RowAt(m.source) \/ ~RowAt(m.target)

\* Until a move is reported nothing plays, and no row waits, at its target.
ClearInv ==
  \A m \in disk.journal : Underway(m) =>
    /\ Playable # {} => ~RowAt(m.target)
    /\ playing.path # m.target

\* What plays at the target of a move waits for that move's remap.
InHand(m) == m \in queue \/ (m \in op.batch /\ ~op.scan)

PlaysInv ==
  Running /\ playing # Nothing =>
    \A m \in disk.journal : playing.path = m.target => InHand(m)

\* Positions are saved only while no remap that led what plays away is queued.
SaveInv ==
  Running =>
    /\ op.then \in {"checkpoint", "publish"} => playing.path \notin Targets(queue)
    /\ op.step \in {"insert", "note"} => op.then \in {"checkpoint", "publish"}
    /\ op.step \in {"idle", "persist", "reconcile"} => ~op.scan
    /\ op.step = "discard" => op.batch = {}

\* The library may foresee every collision: nothing plays, or no row has lost its
\* file, or every file there ever is has its rows from the start.
NothingGone == \A r \in InitialRows : \E p \in Paths : InitialFs[p] = r.file
AllKnown ==
  /\ \A f \in Files : \E r \in InitialRows : r.file = f
  /\ \A p \in Paths : InitialFs[p] # NoFile => \E r \in InitialRows : r.path = p
Foreseen == Playable = {} \/ NothingGone \/ AllKnown

HoldInv ==
  /\ \A r \in disk.checkpoint : Held(r.file)
  /\ NothingGone => \A r \in disk.progress : Held(r.file)

\* p has a row, or will have when a move is remapped.
Covered(p) ==
  \/ \E r \in disk.progress : r.path = p
  \/ \E m \in disk.journal : m.target = p /\ \E r \in disk.progress : r.path = m.source

\* No target appears behind the back of a call that takes its intent away.
AbsentInv ==
  Running =>
    /\ op.step \in {"rename", "undo"} => \A m \in op.batch : ~Present(m.target)
    /\ op.step \in Remapping \cup {"discard"} => \A m \in op.untouched : ~Present(m.target)

KnownInv ==
  AllKnown =>
    /\ \A f \in Files : \E r \in disk.history : r.file = f
    /\ \A p \in Paths : Present(p) => Covered(p)
    /\ AbsentInv

ReserveInv ==
  IdentityInv /\ stale = {} /\ ApartInv /\ ClearInv /\ PlaysInv /\ SaveInv /\ HoldInv /\ KnownInv

-----------------------------------------------------------------------------
(* What the library accepts *)

\* No row of a file that still exists waits where a file may go.
LEMMA NoRowWaits ==
  ASSUME IdentityInv, NEW r \in Rows, Tracked(r), Held(r.file), ~Present(r.path)
  PROVE  \E n \in disk.journal : n.source = r.path
<1>1. Leads(r) BY InvTypes DEF RowsInv, Sound
<1> QED BY <1>1, RowFields DEF Leads, Present

LEMMA TargetsClear ==
  ASSUME Foreseen, ReserveInv, NEW ms \in SUBSET Mappings, Adds(ms), NEW m \in ms
  PROVE  /\ Playable # {} => ~RowAt(m.target)
         /\ ~RowAt(m.source) \/ ~RowAt(m.target)
         /\ playing.path # m.target
<1>0. /\ IdentityInv /\ TypeOK /\ ControlInv /\ Running /\ ~exec
      /\ Present(m.source) /\ ~Present(m.target)
      /\ m.source \in Paths /\ m.target \in Paths /\ m.source # m.target
      /\ Compatible(ms) /\ ~Collides(disk.progress, ms)
  BY InvTypes, MappingPaths DEF ReserveInv, Adds, Movable
<1>1. \A n \in disk.journal : n.source # m.target /\ n.target # m.source
  BY DEF Adds, Conflicts, Sources, Targets
<1>2. \A r \in Rows : Tracked(r) /\ Held(r.file) => r.path # m.target
  BY <1>0, <1>1, NoRowWaits
<1>3. playing.path # m.target
  <2>1. CASE playing = Nothing BY <1>0, <2>1, ConstantsAssumption DEF Nothing
  <2>2. CASE playing # Nothing
    <3>1. playing \in Rows /\ Held(playing.file)
      BY <1>0, <2>2 DEF TypeOK, ControlInv, PlayInv
    <3> QED BY <1>0, <1>2, <2>2, <3>1 DEF Tracked
  <2> QED BY <2>1, <2>2
<1>4. \A r \in disk.checkpoint : r.path # m.target
  BY <1>0, <1>2, DocKinds DEF ReserveInv, HoldInv, Tracked, TypeOK, Documents
<1>5. NothingGone => \A r \in disk.progress : r.path # m.target
  BY <1>0, <1>2, DocKinds DEF ReserveInv, HoldInv, Tracked, TypeOK, Documents
<1>6. ASSUME NEW r \in disk.progress, NEW s \in disk.progress,
             r.path = m.source, s.path = m.target
      PROVE  FALSE
  <2>1. m.source \in Sources(ms) /\ m.target \in Targets(ms) BY DEF Sources, Targets
  <2>2. m.target \notin Sources(ms) BY <1>0, <2>1 DEF Compatible
  <2>3. RemapPath(m.target, ms) = m.target BY <2>2 DEF RemapPath
  <2>4. RemapPath(m.source, ms) = m.target
    BY <1>0, <2>1, RemapPathFacts, CompatibleFacts
  <2> QED BY <1>0, <1>6, <2>3, <2>4 DEF Collides
<1>7. AllKnown => \E r \in disk.progress : r.path = m.source
  BY <1>0, <1>1 DEF ReserveInv, KnownInv, Covered
<1>8. Playable = {} => disk.checkpoint = {} BY <1>0 DEF ControlInv, CheckpointInv
<1>9. Playable # {} => ~RowAt(m.target) BY <1>4, <1>5, <1>6, <1>7 DEF RowAt, Foreseen
<1>10. ~RowAt(m.source) \/ ~RowAt(m.target) BY <1>6, <1>8, <1>9 DEF RowAt
<1> QED BY <1>3, <1>9, <1>10

\* Rows that do not collide have paths of their own.
LEMMA AcceptedKeyed ==
  ASSUME NEW rows \in SUBSET Rows, NEW ms, ~Collides(rows, ms)
  PROVE  Keyed(rows) /\ Keyed(Remap(rows, ms))
<1>1. Keyed(rows) BY DEF Collides, Keyed
<1>2. \A r \in rows : RemapRow(r, ms).path = RemapPath(r.path, ms) BY DEF RemapRow, Rows
<1> QED BY <1>1, <1>2 DEF Collides, Keyed, Remap

-----------------------------------------------------------------------------
(* The steps keep rows apart *)

LEMMA SameRows ==
  ASSUME disk'.progress = disk.progress, disk'.checkpoint = disk.checkpoint, NEW p
  PROVE  RowAt(p)' <=> RowAt(p)
BY DEF RowAt

LEMMA MergedRows ==
  ASSUME TypeOK, Merged, NEW p PROVE RowAt(p)' => RowAt(p)
<1>1. /\ disk'.progress = Merge(disk.progress, disk.checkpoint)
      /\ disk'.checkpoint = disk.checkpoint
  BY DEF Merged, TypeOK, Documents
<1> QED BY <1>1 DEF RowAt, Merge

LEMMA ClearedRows ==
  ASSUME TypeOK, Cleared, NEW p PROVE RowAt(p)' => RowAt(p)
<1>1. disk'.progress = disk.progress /\ disk'.checkpoint = {}
  BY DEF Cleared, TypeOK, Documents
<1> QED BY <1>1 DEF RowAt

LEMMA NotedRows ==
  ASSUME TypeOK, Noted, NEW p PROVE RowAt(p)' => RowAt(p) \/ p = playing.path
<1>1. disk'.progress = disk.progress /\ disk'.checkpoint = {playing}
  BY DEF Noted, TypeOK, Documents
<1> QED BY <1>1 DEF RowAt

\* A remap takes rows away from the sources it leads away from, and to no end of
\* another move.
LEMMA LedRows ==
  ASSUME TypeOK, Compatible(disk.journal), Led("progress"), NEW m \in disk.journal
  PROVE  /\ m \in op.batch => ~RowAt(m.source)'
         /\ m \notin op.batch => \A p \in {m.source, m.target} : RowAt(p)' => RowAt(p)
<1>1. /\ disk'.progress = Remap(disk.progress, op.batch) /\ disk'.checkpoint = {}
      /\ op.batch \in SUBSET disk.journal /\ Compatible(op.batch)
      /\ disk.progress \in SUBSET Rows
  BY CompatibleSubset DEF Led, TypeOK, Documents
<1>2. ASSUME NEW r \in disk.progress
      PROVE  RemapRow(r, op.batch).path = RemapPath(r.path, op.batch)
  BY <1>1 DEF RemapRow, Rows
<1>3. m \in op.batch => ~RowAt(m.source)'
  <2>1. m \in op.batch => m.source \in Sources(op.batch) BY DEF Sources
  <2> QED BY <1>1, <1>2, <2>1, RemapPathFacts DEF RowAt, Remap
<1>4. ASSUME m \notin op.batch, NEW p \in {m.source, m.target}, RowAt(p)' PROVE RowAt(p)
  <2>1. PICK r \in disk.progress : RemapPath(r.path, op.batch) = p
    BY <1>1, <1>2, <1>4 DEF RowAt, Remap
  <2>2. \A n \in op.batch : n.target # p BY <1>1, <1>4, CompatibleFacts
  <2>3. r.path = p BY <1>1, <2>1, <2>2, RemapPathFacts
  <2> QED BY <2>3 DEF RowAt
<1> QED BY <1>3, <1>4

\* The other writes leave these rows, and the journal only grows by Adds.
LEMMA OtherWrites ==
  ASSUME TypeOK
  PROVE  /\ Merged \/ Cleared \/ Noted \/ Inserted \/ Led("progress") \/ Led("history") =>
              disk'.journal = disk.journal
         /\ Inserted \/ Led("history") \/ Settles \/ Withdraws =>
              /\ disk'.progress = disk.progress /\ disk'.checkpoint = disk.checkpoint
              /\ disk'.journal \subseteq disk.journal
         /\ \A ms : Adds(ms) =>
              /\ disk'.progress = disk.progress /\ disk'.checkpoint = disk.checkpoint
              /\ disk'.journal = disk.journal \cup ms
<1>1. disk \in Documents BY DEF TypeOK
<1>2. Merged \/ Cleared \/ Noted \/ Inserted \/ Led("progress") \/ Led("history") =>
        disk'.journal = disk.journal
  BY <1>1 DEF Merged, Cleared, Noted, Inserted, Led, Documents
<1>3. Inserted \/ Led("history") \/ Settles \/ Withdraws =>
        /\ disk'.progress = disk.progress /\ disk'.checkpoint = disk.checkpoint
        /\ disk'.journal \subseteq disk.journal
  BY <1>1 DEF Inserted, Led, Settles, Withdraws, Documents
<1>4. ASSUME NEW ms, Adds(ms)
      PROVE  /\ disk'.progress = disk.progress /\ disk'.checkpoint = disk.checkpoint
             /\ disk'.journal = disk.journal \cup ms
  BY <1>1, <1>4 DEF Adds, Documents
<1> QED BY <1>2, <1>3, <1>4

LEMMA NotedClear ==
  ASSUME ReserveInv, Running, op.step = "note"
  PROVE  /\ playing # Nothing /\ playing \in Rows /\ Playable # {}
         /\ \A m \in disk.journal : playing.path # m.target
         /\ \A m \in disk.journal : playing.path = m.source => Underway(m)
<1>0. TypeOK /\ ControlInv /\ PositionHeld
  BY InvTypes DEF ReserveInv, TypeInv
<1>1. playing # Nothing /\ playing \in Rows /\ Playable # {}
  BY <1>0 DEF PositionHeld, Saving, TypeOK, ControlInv, CheckpointInv
<1>2. playing.path \notin Targets(queue) /\ op.batch = {}
  BY <1>0 DEF ReserveInv, SaveInv, ControlInv, OpShape
<1>3. \A m \in disk.journal : playing.path # m.target
  BY <1>1, <1>2 DEF ReserveInv, PlaysInv, InHand, Targets
<1>4. \A m \in disk.journal : playing.path = m.source => Underway(m)
  BY <1>0, <1>1 DEF ControlInv, PlayInv, Underway
<1> QED BY <1>1, <1>2, <1>3, <1>4

LEMMA ApartNext ==
  ASSUME Careful, Clean, Foreseen, ReserveInv, [Next]_vars PROVE ApartInv'
<1>0. /\ IdentityInv /\ TypeOK /\ ControlInv /\ ApartInv /\ disk.progress \in SUBSET Rows
  BY InvTypes DEF ReserveInv, TypeOK, Documents
<1>1. OneWrite BY WriteNext DEF ReserveInv
<1>2. Compatible(disk.journal) BY <1>0, CompatibleSubset DEF ControlInv, JournalInv
<1>3. CASE UNCHANGED disk BY <1>0, <1>3 DEF ApartInv, Keyed, RowAt
<1>4. CASE Merged
  <2>1. /\ disk'.progress = Merge(disk.progress, disk.checkpoint)
        /\ disk'.checkpoint = disk.checkpoint /\ disk'.journal = disk.journal
    BY <1>0, <1>4 DEF Merged, TypeOK, Documents
  <2>2. Keyed(disk.progress) => Keyed(disk'.progress)
    BY <1>0, <2>1 DEF Keyed, Merge, ApartInv
  <2>3. \A p : RowAt(p)' => RowAt(p) BY <1>0, <1>4, MergedRows
  <2> QED BY <1>0, <2>1, <2>2, <2>3 DEF ApartInv
<1>5. CASE Cleared
  <2>1. /\ disk'.progress = disk.progress /\ disk'.checkpoint = {}
        /\ disk'.journal = disk.journal
    BY <1>0, <1>5 DEF Cleared, TypeOK, Documents
  <2>2. \A p : RowAt(p)' => RowAt(p) BY <1>0, <1>5, ClearedRows
  <2> QED BY <1>0, <2>1, <2>2 DEF ApartInv
<1>6. CASE Running /\ Noted
  <2>1. /\ disk'.progress = disk.progress /\ disk'.checkpoint = {playing}
        /\ disk'.journal = disk.journal
    BY <1>0, <1>6 DEF Noted, TypeOK, Documents
  <2>2. /\ \A m \in disk.journal : playing.path # m.target
        /\ \A m \in disk.journal : playing.path = m.source => ~RowAt(m.target)
    BY <1>6, NotedClear DEF Noted, ReserveInv, ClearInv
  <2>3. \A p : RowAt(p)' => RowAt(p) \/ p = playing.path BY <1>0, <1>6, NotedRows
  <2>4. \A m \in disk.journal : m.source # m.target BY <1>0, JournalTypes, MappingPaths
  <2> QED BY <1>0, <2>1, <2>2, <2>3, <2>4 DEF ApartInv
<1>7. CASE Led("progress")
  <2>1. /\ disk'.progress = Remap(disk.progress, op.batch) /\ disk'.checkpoint = {}
        /\ disk'.journal = disk.journal
    BY <1>0, <1>7, OtherWrites DEF Led, TypeOK, Documents
  <2>2. Keyed(disk'.progress) BY <1>0, <1>7, <2>1, AcceptedKeyed DEF Led
  <2>3. \A m \in disk.journal : ~RowAt(m.source)' \/ ~RowAt(m.target)'
    BY <1>0, <1>2, <1>7, LedRows DEF ApartInv
  <2> QED BY <2>1, <2>2, <2>3 DEF ApartInv
<1>8. CASE Inserted \/ Led("history") \/ Settles \/ Withdraws
  BY <1>0, <1>8, OtherWrites, SameRows DEF ApartInv
<1>9. ASSUME NEW ms \in SUBSET Mappings, Adds(ms) PROVE ApartInv'
  <2>1. /\ disk'.progress = disk.progress /\ disk'.checkpoint = disk.checkpoint
        /\ disk'.journal = disk.journal \cup ms
    BY <1>0, <1>9, OtherWrites
  <2>2. Keyed(disk.progress) BY <1>0, <1>9, AcceptedKeyed DEF Adds
  <2>3. \A m \in ms : ~RowAt(m.source) \/ ~RowAt(m.target) BY <1>9, TargetsClear
  <2>4. \A p : RowAt(p)' <=> RowAt(p) BY <2>1, SameRows
  <2> QED BY <1>0, <2>1, <2>2, <2>3, <2>4 DEF ApartInv
<1> QED BY <1>1, <1>3, <1>4, <1>5, <1>6, <1>7, <1>8, <1>9 DEF OneWrite, Rewrites

LEMMA ClearNext ==
  ASSUME Careful, Clean, Foreseen, ReserveInv, [Next]_vars PROVE ClearInv'
<1>0. /\ IdentityInv /\ TypeOK /\ ControlInv /\ ClearInv /\ OneWrite /\ PlaysOn
  BY InvTypes, WriteNext, PlayNext DEF ReserveInv
<1>1. Compatible(disk.journal) BY <1>0, CompatibleSubset DEF ControlInv, JournalInv
<1>2. \A m \in disk.journal : m.target \in Paths BY <1>0, JournalTypes, MappingPaths
<1> SUFFICES ASSUME NEW m \in disk'.journal, Underway(m)'
             PROVE  (Playable # {} => ~RowAt(m.target)') /\ playing'.path # m.target
  BY DEF ClearInv
<1>3. m \in disk.journal => /\ Underway(m) /\ playing.path # m.target
                            /\ Playable # {} => ~RowAt(m.target)
  BY <1>0, UnderwayNext DEF ClearInv
<1>4. CASE UNCHANGED disk
  <2>1. playing'.path # m.target
    <3>1. CASE playing' = Nothing BY <1>2, <1>4, <3>1, ConstantsAssumption DEF Nothing
    <3>2. CASE Follows
      <4>1. PICK n \in disk.journal : playing'.path = n.target /\ ~Underway(n)'
        BY <3>2 DEF Follows
      <4>2. n # m BY <4>1
      <4> QED BY <1>1, <1>4, <4>1, <4>2, CompatibleFacts
    <3> QED BY <1>0, <1>3, <1>4, <3>1, <3>2 DEF PlaysOn, Targets
  <2> QED BY <1>3, <1>4, <2>1 DEF RowAt
<1>5. CASE Running /\ Rewrites /\ UNCHANGED playing
  <2>1. CASE Merged BY <1>0, <1>3, <1>5, <2>1, OtherWrites, MergedRows
  <2>2. CASE Cleared BY <1>0, <1>3, <1>5, <2>2, OtherWrites, ClearedRows
  <2>3. CASE Noted BY <1>0, <1>3, <1>5, <2>3, OtherWrites, NotedRows, NotedClear DEF Noted
  <2>4. CASE Led("progress")
    <3>1. m \in disk.journal BY <1>0, <2>4, OtherWrites
    <3>2. m \notin op.batch BY <1>3, <2>4, <3>1 DEF Led, Gone, Underway
    <3> QED BY <1>0, <1>1, <1>3, <1>5, <2>4, <3>1, <3>2, LedRows
  <2>5. CASE Inserted \/ Led("history") \/ Settles \/ Withdraws
    BY <1>0, <1>3, <1>5, <2>5, OtherWrites, SameRows
  <2>6. ASSUME NEW ms \in SUBSET Mappings, Adds(ms)
        PROVE  (Playable # {} => ~RowAt(m.target)') /\ playing'.path # m.target
    <3>1. /\ disk'.progress = disk.progress /\ disk'.checkpoint = disk.checkpoint
          /\ disk'.journal = disk.journal \cup ms
      BY <1>0, <2>6, OtherWrites
    <3>2. RowAt(m.target)' <=> RowAt(m.target) BY <3>1, SameRows
    <3>3. CASE m \in ms BY <1>5, <2>6, <3>2, <3>3, TargetsClear
    <3> QED BY <1>3, <1>5, <3>1, <3>2, <3>3
  <2> QED BY <1>5, <2>1, <2>2, <2>3, <2>4, <2>5, <2>6 DEF Rewrites
<1> QED BY <1>0, <1>4, <1>5 DEF OneWrite

-----------------------------------------------------------------------------
(* What the calls have in hand *)

\* A call that has just begun, or the end of one.
Fresh == Settled /\ ~op'.scan

LEMMA CallFresh ==
  /\ \A e : \A t \in Continuations : CallPersist(e, t) \/ CallReconcile(e, t) => Fresh
  /\ op' = IdleOp => Fresh
  /\ \A ok : Return(ok) \/ Reconciled(ok) => Fresh
  /\ RemapFailed \/ FlushFailed => Fresh
<1>1. \A e : \A t \in Continuations : CallPersist(e, t) \/ CallReconcile(e, t) => ~op'.scan
  BY CallUnladen DEF Unladen
<1>2. op' = IdleOp => ~op'.scan BY IdleUnladen DEF Unladen
<1>3. \A ok : Return(ok) \/ Reconciled(ok) => ~op'.scan
  BY ReturnUnladen DEF Unladen, Reconciled
<1>4. RemapFailed \/ FlushFailed => ~op'.scan BY <1>2, <1>3 DEF RemapFailed, FlushFailed
<1> QED BY <1>1, <1>2, <1>3, <1>4, CallSettles DEF Fresh

\* What a step does to the calls: the remap of the move that what plays has made
\* stays in hand.
Handed ==
  Running => \A m \in disk.journal \cap disk'.journal :
    playing.path = m.target /\ InHand(m) => InHand(m)'

CallsGoal == SaveInv' /\ Handed /\ (AllKnown => AbsentInv')

LEMMA FreshCalls ==
  ASSUME Fresh, Handed PROVE CallsGoal
<1>1. SaveInv' BY DEF Fresh, Settled, SaveInv, Continuations
<1>2. AbsentInv' BY DEF Fresh, Settled, AbsentInv, Remapping
<1> QED BY <1>1, <1>2 DEF CallsGoal

\* No remap is in hand while nothing of it is: the queue is all there is.
LEMMA QueueOnly ==
  ASSUME op.batch = {}, queue \subseteq queue' PROVE Handed
BY DEF Handed, InHand

LEMMA CallsPersistPending ==
  ASSUME ReserveInv, Running, PersistPending PROVE CallsGoal
<1>0. op.step = "persist" /\ op \in Ops /\ op.batch = {} /\ op.untouched = {} /\ ~op.scan
      /\ op.then \in Continuations
  BY InvTypes DEF PersistPending, ReserveInv, ControlInv, OpShape, TypeOK, SaveInv
<1>1. CASE (CallReconcile(op.explicit, op.then) \/ Return(FALSE)) /\ queue \subseteq queue'
  BY <1>0, <1>1, CallFresh, QueueOnly, FreshCalls
<1>2. CASE op' = [op EXCEPT !.step = FirstStep, !.batch = queue] /\ queue' = {}
  <2>1. /\ op'.step = FirstStep /\ op'.batch = queue /\ op'.untouched = {}
        /\ op'.then = op.then /\ ~op'.scan
    BY <1>0, <1>2 DEF Ops
  <2>2. FirstStep \in {"flush", "progress"} BY DEF FirstStep
  <2>3. SaveInv' BY <1>0, <2>1, <2>2 DEF SaveInv, Continuations
  <2>4. Handed BY <1>0, <2>1 DEF Handed, InHand
  <2>5. AbsentInv' BY <2>1, <2>2 DEF AbsentInv
  <2> QED BY <2>3, <2>4, <2>5 DEF CallsGoal
<1> QED BY <1>1, <1>2 DEF PersistPending

LEMMA CallsReconcile ==
  ASSUME ReserveInv, Running, Reconcile PROVE CallsGoal
<1>0. op.step = "reconcile" /\ op \in Ops /\ op.batch = {} /\ op.then \in Continuations
      /\ UNCHANGED <<fs, queue>>
  BY InvTypes DEF Reconcile, ReserveInv, ControlInv, OpShape, TypeOK
<1>1. Handed BY <1>0, QueueOnly
<1> DEFINE found == Completed(mem.journal)
           untouched == Untouched(mem.journal)
           some == Unresolved(mem.journal) # {}
           first == IF found # {} THEN FirstStep ELSE "discard"
<1>2. \A m \in untouched : ~Present(m.target) BY DEF Untouched, Movable
<1>3. FirstStep \in {"flush", "progress"} BY DEF FirstStep
<1>4. first \in {"flush", "progress", "discard"} /\ (first = "discard" => found = {}) BY <1>3
<1> HIDE DEF found, untouched, some, first
<1>5. CASE Return(FALSE) \/ Return(TRUE) \/ Reconciled(some)
  BY <1>1, <1>5, CallFresh, FreshCalls
<1>6. CASE op' = [op EXCEPT !.step = first, !.batch = found, !.scan = TRUE,
                            !.untouched = untouched, !.unresolved = some]
  <2>1. /\ op'.step = first /\ op'.batch = found /\ op'.untouched = untouched
        /\ op'.then = op.then
    BY <1>0, <1>6 DEF Ops
  <2>2. SaveInv' BY <1>0, <1>4, <2>1 DEF SaveInv, Continuations
  <2>3. AbsentInv' BY <1>0, <1>2, <1>4, <2>1 DEF AbsentInv, Present
  <2> QED BY <1>1, <2>2, <2>3 DEF CallsGoal
<1> QED BY <1>5, <1>6 DEF Reconcile, found, untouched, some, first

\* A remap goes on.
LEMMA CallsGoOn ==
  ASSUME ReserveInv, Running, op \in Ops, UNCHANGED <<fs, queue, playing>>, op.step \in Remapping,
         NEW step, op' = [op EXCEPT !.step = step],
         \/ step \in {"clear", "progress", "history", "journal"}
         \/ step = "note" /\ op.then \in {"checkpoint", "publish"}
  PROVE  CallsGoal
<1>1. /\ op'.step = step /\ op'.batch = op.batch /\ op'.untouched = op.untouched
      /\ op'.then = op.then /\ op'.scan = op.scan
  BY DEF Ops
<1>2. SaveInv' BY <1>1 DEF SaveInv, ReserveInv
<1>3. Handed BY <1>1 DEF Handed, InHand
<1>4. AllKnown => AbsentInv'
  BY <1>1 DEF ReserveInv, KnownInv, AbsentInv, Remapping, Present
<1> QED BY <1>2, <1>3, <1>4 DEF CallsGoal

\* A remap fails, and its batch is queued again.
LEMMA CallsFail ==
  ASSUME ReserveInv, Running, op.step \in Remapping,
         (RemapFailed /\ op.step \notin {"flush", "clear"}) \/ FlushFailed
  PROVE  CallsGoal
<1>0. op.step \in {"progress", "history", "journal"} \/ op.batch # {} => queue = {}
  BY InvTypes DEF ReserveInv, ControlInv, OpInv, Remapping
<1>1. CASE op.batch = {} /\ UNCHANGED queue BY <1>1, CallFresh, QueueOnly, FreshCalls
<1>2. CASE RemapFailed /\ (op.batch # {} \/ op.step \notin {"flush", "clear"})
  <2>1. Handed BY <1>0, <1>2 DEF RemapFailed, Handed, InHand, Remapping
  <2> QED BY <1>2, <2>1, CallFresh, FreshCalls
<1> QED BY <1>1, <1>2 DEF FlushFailed

LEMMA CallsRemap ==
  ASSUME ReserveInv, Running,
         FlushProgress \/ FlushClear \/ RemapIdentities \/ InsertHistory \/ NotePosition
  PROVE  CallsGoal
<1>0. /\ op \in Ops /\ UNCHANGED <<fs, playing>> /\ ControlInv /\ SaveInv
      /\ InsertHistory \/ NotePosition \/ op.step \in Remapping
  BY InvTypes
  DEF TypeOK, FlushProgress, FlushClear, RemapIdentities, InsertHistory, NotePosition, Remapping,
      Remapped, ReserveInv
<1>1. CASE FlushProgress
  <2>1. op.step \in Remapping BY <1>1 DEF FlushProgress, Remapping
  <2>2. CASE FlushFailed BY <2>1, <2>2, CallsFail
  <2>3. CASE UNCHANGED queue /\ op' = [op EXCEPT !.step = "clear"]
    BY <1>0, <2>1, <2>3, CallsGoOn
  <2> QED BY <1>1, <2>2, <2>3 DEF FlushProgress
<1>2. CASE FlushClear
  <2>1. CASE FlushFailed BY <1>0, <1>2, <2>1, CallsFail DEF FlushClear, Remapping
  <2>2. CASE UNCHANGED queue /\ op' = [op EXCEPT !.step = "progress"]
    BY <1>0, <1>2, <2>2, CallsGoOn DEF FlushClear, Remapping
  <2>3. CASE /\ UNCHANGED queue /\ op.then \in {"checkpoint", "publish"}
             /\ op' = [op EXCEPT !.step = "note"]
    BY <1>0, <1>2, <2>3, CallsGoOn DEF FlushClear, Remapping
  <2>4. CASE UNCHANGED queue /\ op.batch = {} /\ (CallReconcile(TRUE, "none") \/ op' = IdleOp)
    <3>1. Fresh BY <2>4, CallFresh DEF Continuations
    <3> QED BY <2>4, <3>1, QueueOnly, FreshCalls
  <2>5. CASE /\ CASE op.batch # {} -> op' = [op EXCEPT !.step = "progress"]
                  [] op.then = "start" -> CallReconcile(TRUE, "none")
                  [] op.then \in {"checkpoint", "publish"} -> op' = [op EXCEPT !.step = "note"]
                  [] OTHER -> op' = IdleOp
             /\ UNCHANGED queue
    <3>1. op.batch # {} => op.then \notin {"start", "checkpoint", "publish"}
      BY <1>0 DEF ControlInv, OpShape, Continuations
    <3>2. op.batch # {} => op' = [op EXCEPT !.step = "progress"] BY <2>5, <3>1
    <3>3. op.batch = {} /\ op.then = "start" => CallReconcile(TRUE, "none") BY <2>5
    <3>4. op.batch = {} /\ op.then \in {"checkpoint", "publish"} =>
            op' = [op EXCEPT !.step = "note"]
      BY <2>5
    <3>5. op.batch = {} /\ op.then \notin {"start", "checkpoint", "publish"} => op' = IdleOp
      BY <2>5
    <3> QED BY <2>2, <2>3, <2>4, <2>5, <3>2, <3>3, <3>4, <3>5
  <2> QED BY <1>2, <2>1, <2>5 DEF FlushClear
<1>3. CASE RemapIdentities
  <2>1. CASE RemapFailed BY <1>0, <1>3, <2>1, CallsFail DEF RemapIdentities, Remapping, Remapped
  <2>2. CASE UNCHANGED queue /\ op' = [op EXCEPT !.step = NextStep(@)]
    <3>1. NextStep(op.step) \in {"history", "journal"}
      BY <1>3 DEF RemapIdentities, Remapped, NextStep
    <3>2. op.step \in Remapping BY <1>3 DEF RemapIdentities, Remapped, Remapping
    <3>3. op' = [op EXCEPT !.step = NextStep(op.step)] BY <2>2
    <3> QED BY <1>0, <2>2, <3>1, <3>2, <3>3, CallsGoOn
  <2> QED BY <1>3, <2>1, <2>2 DEF RemapIdentities
<1>4. CASE NotePosition
  <2>1. op.batch = {} /\ UNCHANGED queue BY <1>0, <1>4 DEF NotePosition, ControlInv, OpShape
  <2>2. Handed BY <2>1, QueueOnly
  <2>3. CASE op' = IdleOp BY <2>2, <2>3, CallFresh, FreshCalls
  <2>4. CASE op' = [IdleOp EXCEPT !.step = "flush"]
    <3>1. op'.step = "flush" /\ op'.untouched = {} /\ op'.then = "none" BY <2>4 DEF IdleOp
    <3> QED BY <2>2, <3>1 DEF CallsGoal, SaveInv, AbsentInv
  <2> QED BY <1>4, <2>3, <2>4 DEF NotePosition
<1>5. CASE InsertHistory
  <2>1. /\ op.batch = {} /\ op.untouched = {} /\ op.step = "insert" /\ UNCHANGED queue
        /\ op' = [op EXCEPT !.step = SaveStep(op.row)]
    BY <1>0, <1>5 DEF InsertHistory, ControlInv, OpShape
  <2>2. /\ op'.step \in {"flush", "note"} /\ op'.then = op.then /\ op'.untouched = {}
    BY <1>0, <2>1, SaveStepType DEF Ops
  <2>3. SaveInv' BY <1>0, <2>1, <2>2 DEF SaveInv
  <2>4. AbsentInv' BY <2>2 DEF AbsentInv
  <2> QED BY <2>1, <2>3, <2>4, QueueOnly DEF CallsGoal
<1> QED BY <1>1, <1>2, <1>3, <1>4, <1>5

\* No step that leaves the calls and the queue alone makes a file appear at a
\* target that the journal's call in progress takes away.
LEMMA CallsWait ==
  ASSUME ReserveInv, Running, UNCHANGED <<op, queue, playing>>,
         \/ UNCHANGED fs
         \/ op.step \in {"idle", "flush", "clear", "insert", "note"} /\ op.batch = {}
  PROVE  CallsGoal
<1>1. SaveInv' BY DEF ReserveInv, SaveInv
<1>2. Handed BY DEF Handed, InHand
<1>3. AllKnown => AbsentInv'
  <2>1. CASE UNCHANGED fs BY <2>1 DEF ReserveInv, KnownInv, AbsentInv, Present
  <2>2. CASE op.step \in {"idle", "flush", "clear", "insert", "note"} /\ op.batch = {}
    <3>1. op.step \in {"flush", "clear"} => op.untouched = {}
      BY <2>2, InvTypes DEF ReserveInv, ControlInv, OpShape
    <3> QED BY <2>2, <3>1 DEF AbsentInv, Remapping
  <2> QED BY <2>1, <2>2
<1> QED BY <1>1, <1>2, <1>3 DEF CallsGoal

LEMMA CallsJournal ==
  ASSUME ReserveInv, Running, RemapJournal \/ DiscardUntouched PROVE CallsGoal
<1>0. TypeOK /\ op \in Ops /\ UNCHANGED fs /\ ControlInv /\ op.step \in {"journal", "discard"}
  BY InvTypes DEF TypeOK, RemapJournal, DiscardUntouched, ReserveInv
<1>1. CASE RemapJournal
  <2>1. op.step = "journal" /\ queue = {}
    BY <1>0, <1>1 DEF RemapJournal, ControlInv, OpInv
  <2>2. CASE RemapFailed BY <2>1, <2>2, CallsFail DEF Remapping
  <2>3. CASE /\ Persist("journal", mem.journal \ op.batch, "ok") /\ UNCHANGED queue
             /\ \/ Return(TRUE) \/ Reconciled(op.unresolved)
                \/ op' = [op EXCEPT !.step = "discard", !.batch = {}]
    <3>1. disk'["journal"] = mem.journal \ op.batch
      BY <1>0, <2>3, WriteEffect, DocKinds
    <3>2. Handed BY <2>1, <3>1 DEF Handed, InHand
    <3>3. CASE Return(TRUE) \/ Reconciled(op.unresolved) BY <3>2, <3>3, CallFresh, FreshCalls
    <3>4. CASE op' = [op EXCEPT !.step = "discard", !.batch = {}]
      <4>1. /\ op'.step = "discard" /\ op'.batch = {} /\ op'.untouched = op.untouched
            /\ op'.then = op.then
        BY <1>0, <3>4 DEF Ops
      <4>2. SaveInv' BY <2>1, <2>3, <4>1 DEF ReserveInv, SaveInv, Targets
      <4>3. AllKnown => AbsentInv'
        BY <1>0, <2>1, <4>1 DEF ReserveInv, KnownInv, AbsentInv, Remapping, Present
      <4> QED BY <3>2, <4>2, <4>3 DEF CallsGoal
    <3> QED BY <2>3, <3>3, <3>4
  <2> QED BY <1>1, <2>2, <2>3 DEF RemapJournal
<1>2. CASE DiscardUntouched
  <2>1. op.batch = {} /\ UNCHANGED queue
    BY <1>2 DEF DiscardUntouched, ReserveInv, SaveInv
  <2>2. Fresh BY <1>2, CallFresh DEF DiscardUntouched
  <2> QED BY <2>1, <2>2, QueueOnly, FreshCalls
<1> QED BY <1>1, <1>2

\* The intent of a rename: nothing plays at its target before it is done.
LEMMA CallsRename ==
  ASSUME ReserveInv, Running,
         UndoIntent \/ \E m \in Mappings : LinkTarget(m) \/ UnlinkSource(m)
  PROVE  CallsGoal
<1>0. /\ TypeOK /\ op \in Ops /\ ControlInv /\ op.step \in {"rename", "unlink", "undo"}
      /\ SaveInv /\ (op.then \in Continuations \/ op.batch = {})
  BY InvTypes
  DEF TypeOK, UndoIntent, LinkTarget, UnlinkSource, ReserveInv, ControlInv, OpShape
<1>1. CASE UndoIntent
  <2>1. Kept(op.batch) BY <1>0, <1>1 DEF UndoIntent, ControlInv, OpInv
  <2>2. \A m \in disk.journal : playing.path = m.target => m \notin op.batch
    BY <2>1 DEF ReserveInv, ClearInv, Underway, Kept
  <2>3. Handed BY <1>1, <2>2 DEF UndoIntent, Handed, InHand
  <2> QED BY <1>1, <2>3, CallFresh, FreshCalls DEF UndoIntent
<1>2. ASSUME NEW m \in Mappings, LinkTarget(m) PROVE CallsGoal
  <2>1. /\ op'.step \in {"unlink", "undo"} /\ op'.batch = op.batch /\ op'.scan = op.scan
        /\ op'.then = op.then /\ op.batch = {m} /\ op.step = "rename" /\ UNCHANGED queue
    BY <1>0, <1>2 DEF LinkTarget, Ops
  <2>2. SaveInv' BY <1>0, <2>1 DEF SaveInv, Continuations
  <2>3. Handed BY <2>1 DEF Handed, InHand
  <2>4. AllKnown => AbsentInv'
    <3> SUFFICES ASSUME AllKnown PROVE AbsentInv' OBVIOUS
    <3>1. ~Present(m.target) BY <2>1 DEF ReserveInv, KnownInv, AbsentInv
    <3>2. op'.step = "undo" => UNCHANGED fs BY <1>0, <1>2 DEF LinkTarget, Ops
    <3> QED BY <2>1, <3>1, <3>2 DEF AbsentInv, Remapping, Present
  <2> QED BY <2>2, <2>3, <2>4 DEF CallsGoal
<1>3. ASSUME NEW m \in Mappings, UnlinkSource(m) PROVE CallsGoal
  <2>1. op.batch = {m} /\ op.step = "unlink" BY <1>3 DEF UnlinkSource
  <2>2. CASE ApplyCompleted({m}) /\ CallPersist(FALSE, "none")
    <3>1. Handed BY <2>1, <2>2 DEF ApplyCompleted, Handed, InHand
    <3> QED BY <2>2, <3>1, CallFresh, FreshCalls DEF Continuations
  <2>3. CASE /\ fs' = [fs EXCEPT ![m.target] = NoFile]
             /\ op' = [op EXCEPT !.step = "undo"] /\ UNCHANGED queue
    <3>1. /\ op'.step = "undo" /\ op'.batch = {m} /\ op'.scan = op.scan /\ op'.then = op.then
      BY <1>0, <2>1, <2>3 DEF Ops
    <3>2. SaveInv' BY <1>0, <2>1, <3>1 DEF SaveInv, Continuations
    <3>3. Handed BY <2>1, <2>3, <3>1 DEF Handed, InHand
    <3>4. ~Present(m.target)' BY <1>0, <2>3, MappingPaths DEF TypeOK, Present
    <3>5. AbsentInv' BY <3>1, <3>4 DEF AbsentInv, Remapping
    <3> QED BY <3>2, <3>3, <3>5 DEF CallsGoal
  <2> QED BY <1>3, <2>2, <2>3 DEF UnlinkSource
<1> QED BY <1>1, <1>2, <1>3

LEMMA AtRest ==
  ASSUME ReserveInv, op.step = "idle"
  PROVE  op = IdleOp /\ op.batch = {} /\ op.untouched = {}
<1>1. OpShape BY InvTypes DEF ReserveInv, ControlInv
<1>2. op = IdleOp BY <1>1 DEF OpShape
<1>3. IdleOp.batch = {} /\ IdleOp.untouched = {} BY DEF IdleOp
<1> QED BY <1>2, <1>3

LEMMA CallsController ==
  ASSUME ReserveInv, ControllerStep PROVE CallsGoal
<1>0. Running /\ ControlInv BY InvTypes DEF ControllerStep, ReserveInv
<1>1. CASE HandleResponse \/ HandleDisconnect \/ Shutdown
  <2>1. op.batch = {} /\ (op' = op => op' = IdleOp)
    <3>1. op.step = "idle" BY <1>1 DEF HandleResponse, HandleDisconnect, Shutdown
    <3> QED BY <3>1, AtRest
  <2>2. queue \subseteq queue'
    BY <1>1 DEF HandleResponse, HandleDisconnect, Shutdown, ApplyCompleted
  <2>3. Fresh
    <3>1. CASE HandleResponse
      <4> DEFINE next == IF worker.done = worker.plan THEN "none" ELSE "reconcile"
      <4>1. CallPersist(FALSE, next) \/ CallReconcile(FALSE, "none")
        BY <3>1 DEF HandleResponse
      <4>2. next \in Continuations /\ "none" \in Continuations BY DEF Continuations
      <4> HIDE DEF next
      <4> QED BY <4>1, <4>2, CallFresh
    <3>2. CASE HandleDisconnect BY <2>1, <3>2, CallFresh DEF HandleDisconnect
    <3>3. CASE Shutdown BY <3>3, CallFresh DEF Shutdown, Continuations
    <3> QED BY <1>1, <3>1, <3>2, <3>3
  <2> QED BY <2>1, <2>2, <2>3, QueueOnly, FreshCalls
<1> QED BY <1>0, <1>1, CallsPersistPending, CallsReconcile, CallsRemap, CallsJournal, CallsRename
        DEF ControllerStep

LEMMA CallsUser ==
  ASSUME ReserveInv, UserStep PROVE CallsGoal
<1>0. Running /\ op = IdleOp /\ op.batch = {} /\ UNCHANGED <<fs, queue>>
  <2>1. Dispatching /\ UNCHANGED <<fs, queue>>
    BY DEF UserStep, BeginMove, DismissMove, Quit, ConfirmMove, SubmitRename, Play
  <2>2. Running /\ op.step = "idle" BY <2>1 DEF Dispatching, Ready, Running
  <2> QED BY <2>1, <2>2, AtRest
<1>1. Handed BY <1>0, QueueOnly
<1>2. CASE op' = IdleOp BY <1>1, <1>2, CallFresh, FreshCalls
<1>3. CASE BeginMove \/ Quit
  <2>1. Fresh BY <1>3, CallFresh DEF BeginMove, Quit, Continuations
  <2> QED BY <1>1, <2>1, FreshCalls
<1>4. ASSUME NEW ms \in SUBSET Mappings, \A m \in ms : Movable(m),
             op' = [IdleOp EXCEPT !.step = "undo", !.batch = ms] \/
               op' = [IdleOp EXCEPT !.step = "rename", !.batch = ms]
      PROVE  CallsGoal
  <2>1. op'.step \in {"undo", "rename"} /\ op'.batch = ms /\ op'.then = "none"
    BY <1>4 DEF IdleOp
  <2>2. SaveInv' BY <2>1 DEF SaveInv
  <2>3. AbsentInv' BY <1>0, <1>4, <2>1 DEF AbsentInv, Remapping, Movable, Present
  <2> QED BY <1>1, <2>2, <2>3 DEF CallsGoal
<1>5. ASSUME NEW plan \in SUBSET Mappings, ConfirmMove(plan) PROVE CallsGoal
  BY <1>0, <1>2, <1>4, <1>5 DEF ConfirmMove
<1>6. ASSUME NEW m \in Mappings, SubmitRename(m) PROVE CallsGoal
  BY <1>0, <1>2, <1>4, <1>6 DEF SubmitRename
<1>7. DismissMove \/ (\E p \in Playable : Play(p)) => op' = IdleOp
  BY <1>0 DEF DismissMove, Play
<1> QED BY <1>2, <1>3, <1>5, <1>6, <1>7 DEF UserStep

LEMMA CallsNext ==
  ASSUME Careful, ReserveInv, [Next]_vars, Running' PROVE CallsGoal
<1>1. CASE Running /\ WorkerStep
  <2>1. exec
    BY <1>1, InvTypes
    DEF WorkerStep, StartPlan, MoveEntry, PublishEntry, DetachSource, Busy, TwinInv, ReserveInv
  <2>2. op.step \in {"idle", "flush", "clear", "insert", "note"} /\ op.batch = {}
    BY <1>1, <2>1, InvTypes DEF ReserveInv, ControlInv, MoveInv
  <2>3. UNCHANGED <<op, queue, playing>>
    BY <1>1 DEF WorkerStep, StartPlan, MoveEntry, PublishEntry, DetachSource, WorkerFrame
  <2> QED BY <1>1, <2>2, <2>3, CallsWait
<1>2. CASE Autosave
  <2>0. "none" \in Continuations BY DEF Continuations
  <2>1. Running /\ op.step = "idle" /\ UNCHANGED queue /\ CallPersist(FALSE, "none")
    BY <1>2 DEF Autosave, Ready, Running
  <2>2. op.batch = {} /\ Fresh BY <2>0, <2>1, AtRest, CallFresh
  <2> QED BY <2>1, <2>2, QueueOnly, FreshCalls
<1>3. ASSUME NEW publish \in BOOLEAN, SavePosition(publish) PROVE CallsGoal
  <2>1. /\ Running /\ op.batch = {} /\ UNCHANGED queue /\ queue = {}
    BY <1>3, AtRest DEF SavePosition, MaySave, Ready, Running
  <2>2. /\ op'.step \in {"flush", "note"} /\ op'.then \in {"publish", "checkpoint"}
        /\ op'.untouched = {} /\ ~op'.scan
    BY <1>3, SaveStepType DEF SavePosition, IdleOp
  <2>3. SaveInv' BY <2>1, <2>2 DEF SaveInv, Targets
  <2>4. AbsentInv' BY <2>2 DEF AbsentInv
  <2> QED BY <2>1, <2>3, <2>4, QueueOnly DEF CallsGoal
<1>4. CASE Start
  <2>1. Handed BY <1>4 DEF Start, Handed, Running
  <2>2. CASE CallReconcile(TRUE, "none")
    <3>1. Fresh BY <2>2, CallFresh DEF Continuations
    <3> QED BY <2>1, <3>1, FreshCalls
  <2>3. CASE op' = [IdleOp EXCEPT !.step = "flush", !.then = "start"]
    <3>1. op'.step = "flush" /\ op'.untouched = {} /\ op'.then = "start" BY <2>3 DEF IdleOp
    <3> QED BY <2>1, <3>1 DEF CallsGoal, SaveInv, AbsentInv
  <2> QED BY <1>4, <2>2, <2>3 DEF Start
<1>5. CASE ExternalExit \/ WorkerPanic \/ UNCHANGED vars
  <2>1. UNCHANGED <<fs, op, queue, playing>> /\ Running
    BY <1>5 DEF ExternalExit, WorkerPanic, WorkerFrame, vars, Ready, Running
  <2> QED BY <2>1, CallsWait
<1>6. ASSUME NEW m \in Mappings, Repair(m) PROVE CallsGoal
  <2>1. Running /\ op.step = "idle" /\ op.batch = {} /\ UNCHANGED <<op, queue, playing>>
    BY <1>6, AtRest DEF Repair, Dispatching, Ready, Running
  <2> QED BY <2>1, CallsWait
<1>7. ASSUME NEW p \in Paths, NEW f \in Files, Intrude(p, f) PROVE CallsGoal
  <2>1. ~AllKnown BY <1>7, DocKinds DEF Intrude, ReserveInv, KnownInv
  <2>2. UNCHANGED <<op, queue, playing>> /\ Running BY <1>7 DEF Intrude, Running
  <2>3. SaveInv' BY <2>2 DEF ReserveInv, SaveInv
  <2>4. Handed BY <2>2 DEF Handed, InHand
  <2> QED BY <2>1, <2>3, <2>4 DEF CallsGoal
<1>8. ~Crash BY DEF Crash, Running
<1>9. CASE PlaybackStarted
  <2>1. /\ Running /\ op.step = "idle" /\ UNCHANGED <<queue, playing>> /\ starting # Nothing
        /\ LateStarts \/ StartsInPlace
    BY <1>9 DEF PlaybackStarted, Ready, Running
  <2>2. op.batch = {} BY <2>1, AtRest
  <2>3. playing.path \notin Targets(queue)
    <3>1. playing # Nothing /\ (Playable = {} => playing = Nothing)
      BY <2>1, InvTypes DEF ReserveInv, TypeInv, PositionHeld, ControlInv, CheckpointInv
    <3> QED BY <2>1, <3>1 DEF Careful, StartsInPlace
  <2>4. /\ op'.step = "insert" /\ op'.then = "checkpoint" /\ op'.untouched = {} /\ ~op'.scan
    BY <1>9 DEF PlaybackStarted, IdleOp
  <2>5. SaveInv' BY <2>1, <2>3, <2>4 DEF SaveInv, Targets
  <2>6. AbsentInv' BY <2>4 DEF AbsentInv
  <2> QED BY <2>1, <2>2, <2>5, <2>6, QueueOnly DEF CallsGoal
<1> QED BY <1>1, <1>2, <1>3, <1>4, <1>5, <1>6, <1>7, <1>8, <1>9, CallsController, CallsUser
        DEF Next, Environment

-----------------------------------------------------------------------------
(* The rest of the invariant *)

LEMMA BeginsAfresh ==
  ASSUME [Next]_vars, ~Running, Running' PROVE playing' = Nothing
BY ComesUpIdle DEF Start

\* A step that adds an intent adds intents that the library accepts.
LEMMA NewIntents ==
  ASSUME Clean, ReserveInv, [Next]_vars, NEW m \in disk'.journal, m \notin disk.journal
  PROVE  UNCHANGED playing /\ \E ms \in SUBSET Mappings : Adds(ms) /\ m \in ms
<1>1. OneWrite /\ TypeOK BY InvTypes, WriteNext DEF ReserveInv
<1>2. Rewrites /\ UNCHANGED playing BY <1>1 DEF OneWrite
<1>3. PICK ms \in SUBSET Mappings : Adds(ms) BY <1>1, <1>2, OtherWrites DEF Rewrites
<1>4. m \in ms BY <1>1, <1>3, OtherWrites
<1> QED BY <1>2, <1>3, <1>4

LEMMA PlaysNext ==
  ASSUME Careful, Clean, Foreseen, ReserveInv, [Next]_vars PROVE PlaysInv'
<1> SUFFICES ASSUME Running', playing' # Nothing, NEW m \in disk'.journal,
                    playing'.path = m.target
             PROVE  InHand(m)'
  BY DEF PlaysInv
<1>0. IdentityInv /\ TypeOK /\ ControlInv /\ PlaysOn BY InvTypes, PlayNext DEF ReserveInv
<1>1. Compatible(disk.journal) BY <1>0, CompatibleSubset DEF ControlInv, JournalInv
<1>2. Running BY BeginsAfresh
<1>3. m \in disk.journal
  <2> SUFFICES ASSUME m \notin disk.journal PROVE FALSE OBVIOUS
  <2>1. UNCHANGED playing /\ \E ms \in SUBSET Mappings : Adds(ms) /\ m \in ms BY NewIntents
  <2> QED BY <2>1, TargetsClear
<1>4. CASE UNCHANGED playing
  <2>1. InHand(m) BY <1>2, <1>3, <1>4 DEF ReserveInv, PlaysInv
  <2>2. Handed BY CallsNext DEF CallsGoal
  <2> QED BY <1>2, <1>3, <1>4, <2>1, <2>2 DEF Handed
<1>5. CASE Follows
  <2>1. PICK n \in disk.journal : n \in queue' /\ playing'.path = n.target BY <1>5 DEF Follows
  <2>2. n = m BY <1>1, <1>3, <2>1, CompatibleFacts
  <2> QED BY <2>1, <2>2 DEF InHand
<1> QED BY <1>0, <1>3, <1>4, <1>5 DEF PlaysOn, Targets

LEMMA HoldNext ==
  ASSUME Clean, ReserveInv, [Next]_vars PROVE HoldInv'
<1>0. /\ IdentityInv /\ TypeOK /\ ControlInv /\ HoldInv /\ OneWrite
      /\ disk.progress \in SUBSET Rows /\ disk.checkpoint \in SUBSET Rows
  BY InvTypes, WriteNext DEF ReserveInv, TypeOK, Documents
<1>1. KeepsFiles \/ UNCHANGED fs
  BY <1>0, KeepsNext DEF IdentityInv, StoreInv, FilesInv, vars
<1>2. ASSUME NEW f \in Files, Held(f) PROVE Held(f)'
  BY <1>0, <1>1, <1>2, HeldStays DEF Held
<1>3. \A r \in disk'.checkpoint :
        r \in disk.checkpoint \/ (r = playing /\ r \in Rows /\ Held(r.file))
  <2>1. CASE Running /\ Noted
    <3>1. disk'.checkpoint = {playing} BY <1>0, <2>1 DEF Noted, TypeOK, Documents
    <3>2. playing \in Rows /\ playing # Nothing BY <2>1, NotedClear DEF Noted
    <3> QED BY <1>0, <2>1, <3>1, <3>2 DEF ControlInv, PlayInv
  <2>2. CASE Merged \/ Cleared
    BY <1>0, <2>2 DEF Merged, Cleared, TypeOK, Documents
  <2>3. CASE Led("progress") BY <1>0, <2>3 DEF Led, TypeOK, Documents
  <2>4. CASE UNCHANGED disk \/ Inserted \/ Led("history") \/ Settles \/ Withdraws \/
             \E ms \in SUBSET Mappings : Adds(ms)
    BY <1>0, <2>4, OtherWrites
  <2> QED BY <1>0, <2>1, <2>2, <2>3, <2>4 DEF OneWrite, Rewrites
<1>4. \A r \in disk'.progress :
        \E s \in disk.progress \cup disk.checkpoint : r.file = s.file
  <2>1. CASE Merged
    <3>1. disk'.progress = Merge(disk.progress, disk.checkpoint)
      BY <1>0, <2>1 DEF Merged, TypeOK, Documents
    <3> QED BY <3>1 DEF Merge
  <2>2. CASE Cleared \/ Noted BY <1>0, <2>2 DEF Cleared, Noted, TypeOK, Documents
  <2>3. CASE Led("progress")
    <3>1. disk'.progress = Remap(disk.progress, op.batch)
      BY <1>0, <2>3 DEF Led, TypeOK, Documents
    <3>2. \A s \in disk.progress : RemapRow(s, op.batch).file = s.file
      BY <1>0 DEF RemapRow, Rows
    <3> QED BY <3>1, <3>2 DEF Remap
  <2>4. CASE UNCHANGED disk \/ Inserted \/ Led("history") \/ Settles \/ Withdraws \/
             \E ms \in SUBSET Mappings : Adds(ms)
    BY <1>0, <2>4, OtherWrites
  <2> QED BY <1>0, <2>1, <2>2, <2>3, <2>4 DEF OneWrite, Rewrites
<1>5. \A r \in disk'.checkpoint : Held(r.file)'
  BY <1>0, <1>2, <1>3, RowFields DEF HoldInv
<1>6. NothingGone => \A r \in disk'.progress : Held(r.file)'
  BY <1>0, <1>2, <1>4, RowFields DEF HoldInv
<1> QED BY <1>5, <1>6 DEF HoldInv

\* Files appear only at targets of journaled moves, and their rows with them.
LEMMA FilesCovered ==
  ASSUME ReserveInv, AllKnown, [Next]_vars, UNCHANGED disk, NEW p \in Paths, Present(p)'
  PROVE  Covered(p)
<1>0. /\ IdentityInv /\ TypeOK /\ ControlInv /\ OneChange
      /\ \A q \in Paths : Present(q) => Covered(q)
  BY InvTypes, ChangeNext DEF ReserveInv, KnownInv
<1>1. Compatible(disk.journal) BY <1>0, CompatibleSubset DEF ControlInv, JournalInv
<1>2. CASE Present(p) BY <1>0, <1>2
<1>3. ASSUME NEW m \in disk.journal, Movable(m), p = m.target PROVE Covered(p)
  <2>1. m.source \in Paths BY <1>0, JournalTypes, MappingPaths
  <2>2. Covered(m.source) BY <1>0, <1>3, <2>1 DEF Movable
  <2>3. \A n \in disk.journal : n.target # m.source BY <1>1, CompatibleFacts
  <2> QED BY <1>3, <2>2, <2>3 DEF Covered
<1>4. ASSUME NEW m \in disk.journal, Copies(m) \/ Moves(m) \/ Detaches(m) \/ Retracts(m)
      PROVE  Covered(p)
  <2>1. m.source \in Paths /\ m.target \in Paths BY <1>0, JournalTypes, MappingPaths
  <2>2. p = m.target \/ Present(p) \/ fs'[p] = NoFile
    BY <1>0, <1>4, <2>1
    DEF Copies, Moves, Detaches, Retracts, Renamed, Present, TypeOK
  <2>3. CASE Copies(m) \/ Moves(m) BY <1>2, <1>3, <2>2, <2>3 DEF Copies, Moves, Present
  <2>4. CASE Detaches(m) \/ Retracts(m)
    <3>1. Present(p) BY <1>0, <2>1, <2>4 DEF Detaches, Retracts, Present, TypeOK
    <3> QED BY <1>2, <3>1
  <2> QED BY <1>4, <2>3, <2>4
<1>5. ASSUME NEW q \in Paths, NEW f \in Files, Intrude(q, f) PROVE FALSE
  BY <1>5, DocKinds DEF Intrude, ReserveInv, KnownInv
<1> QED BY <1>0, <1>2, <1>4, <1>5 DEF OneChange, Present

LEMMA RowsCover ==
  ASSUME ReserveInv, AllKnown, Running, Rewrites, UNCHANGED fs, NEW p \in Paths, Present(p)
  PROVE  Covered(p)'
<1>0. /\ IdentityInv /\ TypeOK /\ ControlInv /\ Covered(p) /\ AbsentInv
      /\ disk \in Documents /\ disk.progress \in SUBSET Rows
  BY InvTypes DEF ReserveInv, KnownInv, TypeOK, Documents
<1>1. Compatible(disk.journal) BY <1>0, CompatibleSubset DEF ControlInv, JournalInv
<1>2. CASE Merged
  <2>1. /\ disk'.progress = Merge(disk.progress, disk.checkpoint)
        /\ disk'.journal = disk.journal
    BY <1>0, <1>2 DEF Merged, Documents
  <2>2. ASSUME NEW r \in disk.progress PROVE \E s \in disk'.progress : s.path = r.path
    BY <2>1 DEF Merge
  <2> QED BY <1>0, <2>1, <2>2 DEF Covered
<1>3. CASE Cleared \/ Noted
  BY <1>0, <1>3 DEF Cleared, Noted, Documents, Covered
<1>4. CASE Inserted \/ Led("history")
  BY <1>0, <1>4, OtherWrites DEF Covered
<1>5. CASE Led("progress")
  <2>1. /\ disk'.progress = Remap(disk.progress, op.batch) /\ disk'.journal = disk.journal
        /\ op.batch \in SUBSET disk.journal /\ Compatible(op.batch) /\ Gone(op.batch)
    BY <1>0, <1>1, <1>5, CompatibleSubset DEF Led, Documents
  <2>2. ASSUME NEW r \in disk.progress
        PROVE  \E s \in disk'.progress : s.path = RemapPath(r.path, op.batch)
    <3>1. RemapRow(r, op.batch).path = RemapPath(r.path, op.batch) BY <1>0 DEF RemapRow, Rows
    <3> QED BY <2>1, <3>1 DEF Remap
  <2>3. CASE \E r \in disk.progress : r.path = p
    <3>1. p \notin Sources(op.batch) BY <2>1 DEF Gone, Sources
    <3> QED BY <2>1, <2>2, <2>3, <3>1, RemapPathFacts DEF Covered
  <2>4. ASSUME NEW m \in disk.journal, m.target = p,
               NEW r \in disk.progress, r.path = m.source
        PROVE  Covered(p)'
    <3>1. CASE m.source \in Sources(op.batch)
      <4>1. PICK n \in op.batch : n.source = m.source /\ RemapPath(m.source, op.batch) = n.target
        BY <2>1, <3>1, RemapPathFacts
      <4>2. n = m BY <1>1, <2>1, <4>1, CompatibleFacts
      <4> QED BY <2>2, <2>4, <4>1, <4>2 DEF Covered
    <3>2. CASE m.source \notin Sources(op.batch)
      <4>1. RemapPath(m.source, op.batch) = m.source BY <2>1, <3>2, RemapPathFacts
      <4>2. \E s \in disk'.progress : s.path = m.source BY <2>2, <2>4, <4>1
      <4> QED BY <2>1, <2>4, <4>2 DEF Covered
    <3> QED BY <3>1, <3>2
  <2> QED BY <1>0, <2>3, <2>4 DEF Covered
<1>6. CASE Settles
  <2>1. disk'.progress = disk.progress /\ disk'.journal = disk.journal \ op.batch
    BY <1>0, <1>6 DEF Settles, Documents
  <2>2. \A r \in disk.progress : \A m \in op.batch : r.path # m.source
    BY <1>0, <1>6 DEF Settles, ControlInv, OpInv, Sources
  <2> QED BY <1>0, <2>1, <2>2 DEF Covered
<1>7. CASE Withdraws
  <2>1. /\ disk'.progress = disk.progress
        /\ \/ op.step = "discard" /\ disk'.journal = disk.journal \ op.untouched
           \/ op.step = "undo" /\ disk'.journal = disk.journal \ op.batch
    BY <1>0, <1>7 DEF Withdraws, Documents
  <2>2. /\ op.step = "discard" => \A m \in op.untouched : m.target # p
        /\ op.step = "undo" => \A m \in op.batch : m.target # p
    BY <1>0 DEF AbsentInv
  <2> QED BY <1>0, <2>1, <2>2 DEF Covered
<1>8. ASSUME NEW ms \in SUBSET Mappings, Adds(ms) PROVE Covered(p)'
  BY <1>0, <1>8, OtherWrites DEF Covered
<1> QED BY <1>2, <1>3, <1>4, <1>5, <1>6, <1>7, <1>8 DEF Rewrites

LEMMA KnownNext ==
  ASSUME Careful, Clean, ReserveInv, [Next]_vars PROVE KnownInv'
<1> SUFFICES ASSUME AllKnown
             PROVE  /\ \A f \in Files : \E r \in disk'.history : r.file = f
                    /\ \A p \in Paths : Present(p)' => Covered(p)'
                    /\ AbsentInv'
  BY DEF KnownInv, AllKnown
<1>0. /\ IdentityInv /\ TypeOK /\ OneWrite /\ disk \in Documents
      /\ \A f \in Files : \E r \in disk.history : r.file = f
  BY InvTypes, WriteNext DEF ReserveInv, KnownInv, TypeOK
<1>1. \A f \in Files : \E r \in disk'.history : r.file = f
  <2>1. CASE disk'.history = disk.history BY <1>0, <2>1
  <2>2. CASE Led("history")
    <3>1. disk'.history = Remap(disk.history, op.batch) BY <1>0, <2>2 DEF Led, Documents
    <3>2. \A r \in disk.history : RemapRow(r, op.batch).file = r.file
      BY <1>0 DEF RemapRow, Rows, Documents
    <3> QED BY <1>0, <3>1, <3>2 DEF Remap
  <2>3. /\ Merged \/ Cleared \/ Noted \/ Led("progress") \/ Settles \/ Withdraws =>
             disk'.history = disk.history
        /\ Inserted => disk.history \subseteq disk'.history
    BY <1>0 DEF Merged, Cleared, Noted, Inserted, Led, Settles, Withdraws, Documents
  <2>4. ASSUME NEW ms \in SUBSET Mappings, Adds(ms) PROVE disk'.history = disk.history
    BY <1>0, <2>4 DEF Adds, Documents
  <2> QED BY <1>0, <2>1, <2>2, <2>3, <2>4 DEF OneWrite, Rewrites
<1>2. ASSUME NEW p \in Paths, Present(p)' PROVE Covered(p)'
  <2>1. CASE UNCHANGED disk
    <3>1. Covered(p) BY <1>2, <2>1, FilesCovered
    <3> QED BY <2>1, <3>1 DEF Covered
  <2>2. CASE Running /\ Rewrites /\ UNCHANGED fs BY <1>2, <2>2, RowsCover DEF Present
  <2> QED BY <1>0, <2>1, <2>2 DEF OneWrite
<1>3. AbsentInv'
  <2>1. CASE Running' BY <2>1, CallsNext DEF CallsGoal
  <2>2. CASE ~Running' BY <2>2 DEF AbsentInv
  <2> QED BY <2>1, <2>2
<1> QED BY <1>1, <1>2, <1>3

LEMMA ReserveNext ==
  ASSUME Careful, Clean, Foreseen, ReserveInv, IdentityInv', [Next]_vars PROVE ReserveInv'
<1>1. stale' = {} BY WriteNext DEF ReserveInv, OneWrite
<1>2. SaveInv'
  <2>1. CASE Running' BY <2>1, CallsNext DEF CallsGoal
  <2>2. CASE ~Running' BY <2>2 DEF SaveInv
  <2> QED BY <2>1, <2>2
<1> QED BY <1>1, <1>2, ApartNext, ClearNext, PlaysNext, HoldNext, KnownNext DEF ReserveInv

LEMMA ReserveInit == ASSUME IdentityInv, Init PROVE ReserveInv
<1>0. /\ fs = InitialFs /\ disk.journal = {} /\ disk.checkpoint = {} /\ stale = {}
      /\ disk.progress = InitialRows /\ disk.history = InitialRows
      /\ playing = Nothing /\ op = IdleOp
  BY DEF Init
<1>1. op.step = "idle" /\ op.then = "none" /\ ~op.scan BY <1>0 DEF IdleOp
<1>2. ApartInv /\ ClearInv /\ PlaysInv BY <1>0 DEF ApartInv, ClearInv, PlaysInv
<1>3. SaveInv /\ AbsentInv BY <1>1 DEF SaveInv, AbsentInv, Remapping
<1>4. HoldInv BY <1>0 DEF HoldInv, NothingGone, Held
<1>5. KnownInv BY <1>0, <1>3 DEF KnownInv, AllKnown, Covered, Present
<1> QED BY <1>0, <1>2, <1>3, <1>4, <1>5 DEF ReserveInv

LEMMA ReserveImplies == ReserveInv => RemapStaysPossible
<1> SUFFICES ASSUME ReserveInv, NEW m \in disk.journal,
                    NEW r \in Merge(disk.progress, disk.checkpoint),
                    NEW s \in Merge(disk.progress, disk.checkpoint),
                    r # s, RemapPath(r.path, {m}) = RemapPath(s.path, {m})
             PROVE  FALSE
  BY DEF RemapStaysPossible, Completed, Collides
<1>1. ApartInv /\ Keyed(disk.progress) BY DEF ReserveInv, ApartInv
<1>2. r.path # s.path BY <1>1 DEF ApartInv, Keyed, Merge
<1>3. \A p : RemapPath(p, {m}) = IF p = m.source THEN m.target ELSE p
  <2>1. Sources({m}) = {m.source} BY DEF Sources
  <2>2. m.source = m.source => (CHOOSE n \in {m} : n.source = m.source) = m OBVIOUS
  <2> QED BY <2>1, <2>2 DEF RemapPath
<1>4. \/ r.path = m.source /\ s.path = m.target
      \/ s.path = m.source /\ r.path = m.target
  BY <1>2, <1>3
<1>5. RowAt(r.path) /\ RowAt(s.path) BY DEF RowAt, Merge
<1> QED BY <1>1, <1>4, <1>5 DEF ApartInv

\* What a move made acceptable stays acceptable: when a journaled move has
\* happened, no second identity waits at its target, whatever was played, saved,
\* cut short or recovered meanwhile.
THEOREM RemapsStayPossible ==
  ASSUME Careful, InStep, Clean, Foreseen PROVE Spec => []RemapStaysPossible
<1>1. Init => ReserveInv BY IdentityInit, ReserveInit
<1>2. ReserveInv /\ [Next]_vars => ReserveInv'
  BY IdentityNext, ReserveNext DEF ReserveInv
<1> QED BY <1>1, <1>2, ReserveImplies, PTL DEF Spec
-----------------------------------------------------------------------------
(* Unsettled intents block.  When no write fails and nothing is renamed,    *)
(* every remap succeeds at once (its collisions are excluded above), so     *)
(* that what is left of the journal is what the popup still selects, or     *)
(* what a reconciliation has reported as unresolved.                        *)

FaultFree == ~Renames /\ MaxFaults = 0

PromptInv ==
  Running =>
    /\ ~blocked
    /\ queue # {} => op.step = "persist" /\ op.then \in {"none", "reconcile"} /\ ~failure
    /\ op.batch # {} /\ ~op.scan => op.then \in {"none", "reconcile"}
    /\ exec => ~failure
    /\ failure /\ ~op.scan => mem.journal # {}
    /\ op.scan /\ op.unresolved => ~(mem.journal \subseteq op.batch \cup op.untouched)
    /\ selection # {} => \A m \in mem.journal : InHand(m) \/ m.source \in selection

BlockInv == ReserveInv /\ FlagInv /\ PromptInv

Prompt == PromptInv' /\ SettledFirst

LEMMA NothingFails ==
  ASSUME FaultFree, BlockInv, Running, NEW doc, NEW new PROVE ~Persist(doc, new, "error")
<1>1. TypeOK /\ stale = {} /\ ~blocked BY InvTypes DEF BlockInv, ReserveInv, PromptInv
<1>2. ~Fault BY <1>1, ConstantsAssumption DEF TypeOK, FaultFree, Fault
<1> QED BY <1>1, <1>2 DEF Persist

\* The batch of a remap does not collide.
LEMMA NoCollision ==
  ASSUME BlockInv, Running, op.step = "progress"
  PROVE  Compatible(op.batch) /\ ~Collides(mem.progress, op.batch)
<1>0. /\ IdentityInv /\ TypeOK /\ ControlInv /\ ApartInv /\ stale = {} /\ ~blocked
      /\ op.batch # {}
  BY InvTypes DEF BlockInv, ReserveInv, PromptInv, FlagInv
<1>1. op.batch \in SUBSET disk.journal
  BY <1>0 DEF ControlInv, OpInv, Remapping, Journaled
<1>2. Compatible(op.batch) BY <1>0, <1>1, CompatibleSubset DEF ControlInv, JournalInv
<1>3. disk["progress"] = mem["progress"] BY <1>0, DocKinds, Agreed DEF Ahead
<1>4. disk.progress = mem.progress /\ Keyed(disk.progress) BY <1>0, <1>1, <1>3 DEF ApartInv
<1>5. ASSUME NEW r \in disk.progress, NEW s \in disk.progress, r.path \in Sources(op.batch),
             s.path \notin Sources(op.batch),
             RemapPath(r.path, op.batch) = RemapPath(s.path, op.batch)
      PROVE  FALSE
  <2>1. PICK m \in op.batch : m.source = r.path /\ RemapPath(r.path, op.batch) = m.target
    BY <1>2, <1>5, RemapPathFacts
  <2>2. s.path = m.target BY <1>2, <1>5, <2>1, RemapPathFacts
  <2>3. RowAt(m.source) /\ RowAt(m.target) BY <2>1, <2>2 DEF RowAt
  <2> QED BY <1>0, <1>1, <2>3 DEF ApartInv
<1>6. ASSUME NEW r \in disk.progress, NEW s \in disk.progress, r.path \in Sources(op.batch),
             s.path \in Sources(op.batch),
             RemapPath(r.path, op.batch) = RemapPath(s.path, op.batch)
      PROVE  r = s
  <2>1. PICK m \in op.batch : m.source = r.path /\ RemapPath(r.path, op.batch) = m.target
    BY <1>2, <1>6, RemapPathFacts
  <2>2. PICK n \in op.batch : n.source = s.path /\ RemapPath(s.path, op.batch) = n.target
    BY <1>2, <1>6, RemapPathFacts
  <2>3. m = n BY <1>2, <1>6, <2>1, <2>2, CompatibleFacts
  <2> QED BY <1>4, <2>1, <2>2, <2>3 DEF Keyed
<1>7. ASSUME NEW r \in disk.progress, NEW s \in disk.progress, r.path \notin Sources(op.batch),
             s.path \notin Sources(op.batch),
             RemapPath(r.path, op.batch) = RemapPath(s.path, op.batch)
      PROVE  r = s
  BY <1>2, <1>4, <1>7, RemapPathFacts DEF Keyed
<1>8. ~Collides(disk.progress, op.batch) BY <1>5, <1>6, <1>7 DEF Collides
<1> QED BY <1>2, <1>4, <1>8

\* A step to a call with nothing in hand.
LEMMA PromptRest ==
  ASSUME op'.batch = {}, ~op'.scan, queue' = {}, ~blocked', exec' => ~failure',
         failure' => mem'.journal # {},
         selection' # {} => \A m \in mem'.journal : m.source \in selection'
  PROVE  PromptInv'
BY DEF PromptInv

\* A call starts with nothing in hand.
LEMMA FreshCall ==
  ASSUME NEW explicit, NEW then,
         CallReconcile(explicit, then) \/ CallPersist(explicit, then) \/ op' = IdleOp
  PROVE  op'.batch = {} /\ ~op'.scan
<1>1. IdleOp.batch = {} /\ IdleOp.scan = FALSE BY DEF IdleOp
<1>2. CASE CallReconcile(explicit, then) BY <1>2 DEF CallReconcile, IdleOp
<1>3. CASE CallPersist(explicit, then) BY <1>3 DEF CallPersist, IdleOp
<1> QED BY <1>1, <1>2, <1>3

\* A step that ends a call: what a successful one allows needs an empty journal.
LEMMA PromptReturn ==
  ASSUME TypeOK, NEW ok, Return(ok), ok => mem'.journal = {} \/ op.then \in {"none", "reconcile"},
         queue' = {}, ~blocked', ~exec', failure' => mem'.journal # {},
         selection # {} => \A m \in mem'.journal : m.source \in selection
  PROVE  Prompt
<1>1. op' = IdleOp \/ \E explicit, then : CallReconcile(explicit, then) BY DEF Return
<1>2. op'.batch = {} /\ ~op'.scan BY <1>1, FreshCall
<1>3. selection' # {} => \A m \in mem'.journal : m.source \in selection'
  BY DEF Return
<1>4. PromptInv' BY <1>2, <1>3, PromptRest
<1>5. op.then = "quit" /\ phase = "up" /\ phase' = "exiting" => ok BY DEF Return
<1>6. SettledFirst BY <1>5 DEF SettledFirst
<1> QED BY <1>4, <1>6 DEF Prompt

LEMMA PromptPersist ==
  ASSUME BlockInv, Running, PersistPending PROVE Prompt
<1>0. /\ TypeOK /\ op \in Ops /\ PromptInv /\ ControlInv
      /\ op.step = "persist" /\ op.batch = {} /\ ~op.scan
      /\ UNCHANGED <<mem, exec, failure, blocked>>
  BY InvTypes DEF BlockInv, ReserveInv, TypeOK, FlagInv, PersistPending
<1>1. ~exec BY <1>0, NoMove
<1>2. CASE /\ queue = {} /\ CallReconcile(op.explicit, op.then)
           /\ UNCHANGED <<queue, phase, selection>>
  <2>1. op'.batch = {} /\ ~op'.scan BY <1>2, FreshCall
  <2>2. selection # {} => \A m \in mem.journal : m.source \in selection
    BY <1>0, <1>2 DEF PromptInv, InHand
  <2>3. PromptInv' BY <1>0, <1>1, <1>2, <2>1, <2>2, PromptRest DEF PromptInv
  <2> QED BY <1>0, <1>2, <2>3 DEF Prompt, SettledFirst
<1>3. CASE queue # {} /\ failure BY <1>0, <1>3 DEF PromptInv
<1>4. CASE /\ queue # {} /\ op' = [op EXCEPT !.step = FirstStep, !.batch = queue]
           /\ queue' = {} /\ UNCHANGED <<phase, selection>>
  <2>1. op'.batch = queue /\ ~op'.scan /\ op'.then = op.then BY <1>0, <1>4 DEF Ops
  <2>2. \A m : InHand(m) => InHand(m)' BY <1>0, <1>4, <2>1 DEF InHand
  <2>3. PromptInv' BY <1>0, <1>4, <2>1, <2>2 DEF PromptInv
  <2> QED BY <1>0, <1>4, <2>3 DEF Prompt, SettledFirst
<1> QED BY <1>2, <1>3, <1>4 DEF PersistPending

LEMMA PromptReconcile ==
  ASSUME BlockInv, Running, Reconcile PROVE Prompt
<1>0. /\ TypeOK /\ op \in Ops /\ PromptInv /\ ControlInv /\ Flagged
      /\ op.step = "reconcile" /\ op.batch = {} /\ ~op.scan /\ queue = {}
      /\ UNCHANGED <<mem, exec, blocked, queue>>
  BY InvTypes DEF BlockInv, ReserveInv, TypeOK, FlagInv, Reconcile, PromptInv
<1>1. ~exec BY <1>0, NoMove
<1>2. selection # {} => \A m \in mem.journal : m.source \in selection
  BY <1>0 DEF PromptInv, InHand
<1>3. failure => mem.journal # {} BY <1>0 DEF PromptInv
<1> DEFINE found == Completed(mem.journal)
           left == Untouched(mem.journal)
           open == Unresolved(mem.journal) # {}
<1>4. mem.journal \subseteq found \cup left \/ open BY IntentKinds
<1>5. open => ~(mem.journal \subseteq found \cup left)
  BY DEF Unresolved, Completed, Untouched, Movable
<1>6. open => mem.journal # {} BY DEF Unresolved
<1> HIDE DEF found, left, open
<1>7. CASE Return(FALSE) /\ UNCHANGED failure
  BY <1>0, <1>1, <1>2, <1>3, <1>7, PromptReturn DEF PromptInv
<1>8. CASE ~pending /\ Return(TRUE) /\ UNCHANGED failure
  <2>1. mem.journal = {} BY <1>0, <1>8 DEF Flagged
  <2> QED BY <1>0, <1>1, <1>2, <1>3, <1>8, <2>1, PromptReturn DEF PromptInv
<1>9. CASE found \cup left = {} /\ Reconciled(open)
  <2>1. ~open => mem.journal = {} BY <1>4, <1>9
  <2>2. Return(~open) /\ failure' = open BY <1>9 DEF Reconciled
  <2> QED BY <1>0, <1>1, <1>2, <1>6, <2>1, <2>2, PromptReturn DEF PromptInv
<1>10. CASE /\ op' = [op EXCEPT !.step = IF found # {} THEN FirstStep ELSE "discard",
                                !.batch = found, !.scan = TRUE,
                                !.untouched = left, !.unresolved = open]
            /\ UNCHANGED <<pending, failure, phase, selection>>
  <2>1. op'.batch = found /\ op'.scan /\ op'.untouched = left /\ op'.unresolved = open
    BY <1>0, <1>10 DEF Ops
  <2>2. PromptInv' BY <1>0, <1>1, <1>2, <1>5, <1>10, <2>1 DEF PromptInv
  <2> QED BY <1>0, <1>10, <2>2 DEF Prompt, SettledFirst
<1> QED BY <1>7, <1>8, <1>9, <1>10 DEF Reconcile, found, left, open

\* A call goes on.
LEMMA PromptGoOn ==
  ASSUME BlockInv, Running, NEW step, op' = [op EXCEPT !.step = step], op.step # "persist",
         UNCHANGED <<exec, queue, failure, blocked, phase, selection>>,
         mem'.journal = mem.journal
  PROVE  Prompt
<1>0. TypeOK /\ op \in Ops /\ PromptInv /\ queue = {}
  BY InvTypes DEF BlockInv, ReserveInv, TypeOK, PromptInv
<1>1. /\ op'.batch = op.batch /\ op'.untouched = op.untouched /\ op'.then = op.then
      /\ op'.scan = op.scan /\ op'.unresolved = op.unresolved
  BY <1>0 DEF Ops
<1>2. \A m : InHand(m) => InHand(m)' BY <1>1 DEF InHand
<1>3. PromptInv' BY <1>0, <1>1, <1>2 DEF PromptInv
<1> QED BY <1>3 DEF Prompt, SettledFirst

\* A call that has nothing in hand ends, begins or begins another one.
LEMMA PromptCall ==
  ASSUME BlockInv, Running, op.batch = {}, ~op.scan, queue = {}, op'.batch = {}, ~op'.scan,
         UNCHANGED <<exec, queue, failure, blocked, phase>>,
         selection' \in {{}, selection}, mem'.journal = mem.journal
  PROVE  Prompt
<1>0. PromptInv BY DEF BlockInv
<1>1. selection # {} => \A m \in mem.journal : m.source \in selection
  BY <1>0 DEF PromptInv, InHand
<1>2. PromptInv' BY <1>0, <1>1, PromptRest DEF PromptInv
<1> QED BY <1>2 DEF Prompt, SettledFirst

LEMMA PromptFlush ==
  ASSUME FaultFree, BlockInv, Running,
         FlushProgress \/ FlushClear \/ InsertHistory \/ NotePosition
  PROVE  Prompt
<1>0. /\ TypeOK /\ op \in Ops /\ mem \in Documents
      /\ op.step \in {"flush", "clear", "insert", "note"} /\ UNCHANGED exec
  BY InvTypes
  DEF BlockInv, ReserveInv, TypeOK, FlushProgress, FlushClear, InsertHistory, NotePosition
<1>1. queue = {} /\ (op.batch = {} => ~op.scan) /\ (op.step = "note" => op.batch = {})
  BY <1>0 DEF BlockInv, PromptInv, FlagInv
<1>2. CASE FlushProgress
  <2>1. /\ op' = [op EXCEPT !.step = "clear"]
        /\ \E rows : mem' = [mem EXCEPT !.progress = rows]
        /\ UNCHANGED <<queue, failure, blocked, phase, selection>>
    BY <1>2, NothingFails DEF FlushProgress
  <2>2. mem'.journal = mem.journal BY <1>0, <2>1 DEF Documents
  <2> QED BY <1>0, <2>1, <2>2, PromptGoOn
<1>3. CASE FlushClear
  <2>1. /\ mem' = [mem EXCEPT !.checkpoint = {}]
        /\ UNCHANGED <<queue, failure, blocked, phase, selection>>
        /\ CASE op.batch # {} -> op' = [op EXCEPT !.step = "progress"]
             [] op.then = "start" -> CallReconcile(TRUE, "none")
             [] op.then \in {"checkpoint", "publish"} -> op' = [op EXCEPT !.step = "note"]
             [] OTHER -> op' = IdleOp
    BY <1>3, NothingFails DEF FlushClear
  <2>2. mem'.journal = mem.journal BY <1>0, <2>1 DEF Documents
  <2>3. CASE op' = [op EXCEPT !.step = "progress"] \/ op' = [op EXCEPT !.step = "note"]
    BY <1>0, <2>1, <2>2, <2>3, PromptGoOn
  <2>4. CASE op.batch = {} /\ (CallReconcile(TRUE, "none") \/ op' = IdleOp)
    <3>1. op'.batch = {} /\ ~op'.scan BY <2>4, FreshCall
    <3> QED BY <1>0, <1>1, <2>1, <2>2, <2>4, <3>1, PromptCall
  <2>5. op.batch # {} => op.then \in Continuations BY DEF BlockInv, FlagInv
  <2>6. op.batch # {} => op' = [op EXCEPT !.step = "progress"]
    BY <2>1, <2>5 DEF Continuations
  <2> QED BY <2>1, <2>3, <2>4, <2>6
<1>4. CASE NotePosition
  <2>1. /\ mem' = [mem EXCEPT !.checkpoint = {op.row}]
        /\ op' = IF op.then = "publish" THEN [IdleOp EXCEPT !.step = "flush"] ELSE IdleOp
        /\ UNCHANGED <<queue, failure, blocked, phase, selection>>
    BY <1>4, NothingFails DEF NotePosition
  <2>2. mem'.journal = mem.journal BY <1>0, <2>1 DEF Documents
  <2>3. op'.batch = {} /\ ~op'.scan BY <2>1 DEF IdleOp
  <2>4. op.batch = {} BY <1>1, <1>4 DEF NotePosition
  <2> QED BY <1>0, <1>1, <2>1, <2>2, <2>3, <2>4, PromptCall
<1>5. CASE InsertHistory
  <2> DEFINE next == SaveStep(op.row)
  <2>1. /\ op' = [op EXCEPT !.step = next]
        /\ UNCHANGED mem \/ \E rows : mem' = [mem EXCEPT !.history = rows]
        /\ UNCHANGED <<queue, failure, blocked, phase, selection>>
    BY <1>5 DEF InsertHistory
  <2> HIDE DEF next
  <2>2. mem'.journal = mem.journal BY <1>0, <2>1 DEF Documents
  <2> QED BY <1>0, <2>1, <2>2, PromptGoOn
<1> QED BY <1>2, <1>3, <1>4, <1>5

LEMMA PromptRemapIdentities ==
  ASSUME FaultFree, BlockInv, Running, RemapIdentities PROVE Prompt
<1>1. op.step = "progress" => Compatible(op.batch) /\ ~Collides(mem.progress, op.batch)
  BY NoCollision
<1>2. /\ op' = [op EXCEPT !.step = NextStep(@)] /\ op.step # "persist"
      /\ UNCHANGED <<mem, exec, queue, failure, blocked, phase, selection>>
  BY <1>1, NothingFails DEF RemapIdentities, Remapped
<1>3. op' = [op EXCEPT !.step = NextStep(op.step)] BY <1>2
<1> QED BY <1>2, <1>3, PromptGoOn

\* The end of a scan: whatever it left in the journal is unresolved.
LEMMA PromptReconciled ==
  ASSUME BlockInv, Running, Reconciled(op.unresolved), queue' = {}, ~exec,
         UNCHANGED <<exec, blocked>>,
         op.unresolved => mem'.journal # {}, ~op.unresolved => mem'.journal = {},
         selection # {} => \A m \in mem'.journal : m.source \in selection
  PROVE  Prompt
<1>1. TypeOK /\ ~blocked' BY InvTypes DEF BlockInv, ReserveInv, PromptInv
<1>2. Return(~op.unresolved) /\ failure' = op.unresolved BY DEF Reconciled
<1> DEFINE ok == ~op.unresolved
<1>3. Return(ok) /\ (ok => mem'.journal = {}) /\ (failure' => mem'.journal # {}) BY <1>2
<1> HIDE DEF ok
<1> QED BY <1>1, <1>3, PromptReturn

LEMMA PromptRemapJournal ==
  ASSUME FaultFree, BlockInv, Running, RemapJournal PROVE Prompt
<1>0. /\ TypeOK /\ op \in Ops /\ mem \in Documents /\ PromptInv /\ ControlInv
      /\ op.step = "journal" /\ op.batch # {} /\ queue = {} /\ UNCHANGED exec
      /\ op.unresolved \in BOOLEAN
  BY InvTypes
  DEF BlockInv, ReserveInv, TypeOK, RemapJournal, FlagInv, PromptInv, Ops
<1>1. ~exec BY <1>0, NoMove
<1>2. /\ mem' = [mem EXCEPT !.progress = Remap(@, op.batch),
                            !.history = Remap(@, op.batch), !.journal = mem.journal \ op.batch]
      /\ IF ~op.scan
         THEN /\ failure' = FALSE /\ pending' = (mem.journal \ op.batch # {})
              /\ Return(TRUE)
         ELSE IF op.untouched # {}
         THEN /\ op' = [op EXCEPT !.step = "discard", !.batch = {}]
              /\ UNCHANGED <<failure, pending, phase, selection>>
         ELSE Reconciled(op.unresolved)
      /\ UNCHANGED <<queue, blocked>>
  BY NothingFails DEF RemapJournal
<1>3. mem'.journal = mem.journal \ op.batch BY <1>0, <1>2 DEF Documents
<1>4. selection # {} => \A m \in mem'.journal : m.source \in selection
  BY <1>0, <1>3 DEF PromptInv, InHand
<1>5. CASE ~op.scan /\ failure' = FALSE /\ Return(TRUE)
  <2>1. op.then \in {"none", "reconcile"} BY <1>0, <1>5 DEF PromptInv
  <2> QED BY <1>0, <1>1, <1>2, <1>4, <1>5, <2>1, PromptReturn DEF PromptInv
<1>6. CASE /\ op.scan /\ op' = [op EXCEPT !.step = "discard", !.batch = {}]
           /\ UNCHANGED <<failure, phase, selection>>
  <2>1. /\ op'.batch = {} /\ op'.untouched = op.untouched /\ op'.scan
        /\ op'.unresolved = op.unresolved
    BY <1>0, <1>6 DEF Ops
  <2>2. op.unresolved => ~(mem'.journal \subseteq op.untouched)
    BY <1>0, <1>3, <1>6 DEF PromptInv
  <2>3. PromptInv' BY <1>0, <1>1, <1>2, <1>4, <1>6, <2>1, <2>2 DEF PromptInv
  <2> QED BY <1>0, <1>6, <2>3 DEF Prompt, SettledFirst
<1>7. CASE op.scan /\ op.untouched = {} /\ Reconciled(op.unresolved)
  <2>1. op.unresolved => mem'.journal # {} BY <1>0, <1>3, <1>7 DEF PromptInv
  <2>2. ~op.unresolved => mem'.journal = {} BY <1>3, <1>7 DEF BlockInv, FlagInv
  <2> QED BY <1>0, <1>1, <1>2, <1>4, <1>7, <2>1, <2>2, PromptReconciled
<1> QED BY <1>2, <1>5, <1>6, <1>7

LEMMA PromptDiscard ==
  ASSUME FaultFree, BlockInv, Running, DiscardUntouched PROVE Prompt
<1>0. /\ TypeOK /\ op \in Ops /\ mem \in Documents /\ PromptInv /\ ControlInv
      /\ op.step = "discard" /\ op.batch = {} /\ op.scan /\ queue = {} /\ UNCHANGED exec
  BY InvTypes
  DEF BlockInv, ReserveInv, TypeOK, DiscardUntouched, FlagInv, PromptInv
<1>1. ~exec BY <1>0, NoMove
<1>2. /\ mem' = [mem EXCEPT !.journal = mem.journal \ op.untouched]
      /\ Reconciled(op.unresolved) /\ UNCHANGED <<queue, blocked>>
  BY NothingFails DEF DiscardUntouched
<1>3. mem'.journal = mem.journal \ op.untouched BY <1>0, <1>2 DEF Documents
<1>4. selection # {} => \A m \in mem'.journal : m.source \in selection
  BY <1>0, <1>3 DEF PromptInv, InHand
<1>5. op.unresolved => mem'.journal # {} BY <1>0, <1>3 DEF PromptInv
<1>6. ~op.unresolved => mem'.journal = {} BY <1>0, <1>3 DEF BlockInv, FlagInv
<1> QED BY <1>0, <1>1, <1>2, <1>4, <1>5, <1>6, PromptReconciled

LEMMA PromptIdle ==
  ASSUME BlockInv, Running, op.step = "idle"
  PROVE  /\ op = IdleOp /\ op.batch = {} /\ ~op.scan /\ op.then = "none" /\ queue = {}
         /\ worker.step # "lost" /\ (failure => mem.journal # {}) /\ (exec => ~failure) /\ ~blocked
         /\ selection # {} => \A m \in mem.journal : m.source \in selection
<1>1. op = IdleOp /\ op.batch = {} BY AtRest DEF BlockInv
<1>2. IdleOp.then = "none" /\ ~IdleOp.scan BY DEF IdleOp
<1>3. op.then = "none" /\ ~op.scan BY <1>1, <1>2
<1>4. queue = {} /\ worker.step # "lost" BY DEF BlockInv, PromptInv, FlagInv
<1> QED BY <1>1, <1>3, <1>4 DEF BlockInv, PromptInv, InHand

LEMMA PromptResponse ==
  ASSUME BlockInv, Running, HandleResponse PROVE Prompt
<1>0. /\ TypeOK /\ ControlInv /\ op.step = "idle" /\ exec /\ ~exec'
      /\ UNCHANGED <<mem, blocked, phase, failure>> /\ queue' = queue \cup worker.done
  BY InvTypes DEF BlockInv, ReserveInv, HandleResponse, ApplyCompleted
<1>1. /\ queue' = worker.done /\ ~failure /\ ~blocked
      /\ selection # {} => \A m \in mem.journal : m.source \in selection
  BY <1>0, PromptIdle
<1>2. worker.done \subseteq mem.journal /\ Compatible(mem.journal)
  BY <1>0, CompatibleSubset DEF ControlInv, MoveInv, Journaled, JournalInv
<1>3. selection' # {} => \A m \in mem.journal : m \in queue' \/ m.source \in selection'
  <2> SUFFICES ASSUME selection' # {}, NEW m \in mem.journal, m \notin worker.done
               PROVE  m.source \in selection'
    BY <1>1
  <2>1. selection' = selection \ Sources(worker.done) BY DEF HandleResponse
  <2>2. \A n \in worker.done : n.source # m.source BY <1>2, CompatibleFacts
  <2>3. m.source \in selection BY <1>1, <2>1
  <2> QED BY <2>1, <2>2, <2>3 DEF Sources
<1> DEFINE next == IF worker.done = worker.plan THEN "none" ELSE "reconcile"
<1>4. /\ worker.done # {} => CallPersist(FALSE, next)
      /\ worker.done = {} => CallReconcile(FALSE, "none")
      /\ next \in {"none", "reconcile"}
  BY DEF HandleResponse
<1> HIDE DEF next
<1>5. /\ op'.batch = {} /\ ~op'.scan
      /\ worker.done # {} => op'.step = "persist" /\ op'.then \in {"none", "reconcile"}
  BY <1>4 DEF CallPersist, CallReconcile, IdleOp
<1>6. PromptInv' BY <1>0, <1>1, <1>3, <1>5 DEF PromptInv, InHand
<1> QED BY <1>0, <1>6 DEF Prompt, SettledFirst

LEMMA PromptConfirm ==
  ASSUME FaultFree, BlockInv, NEW plan \in SUBSET Mappings, ConfirmMove(plan) PROVE Prompt
<1>0. /\ Running /\ op.step = "idle" /\ Sources(plan) = selection /\ plan # {}
      /\ TypeOK /\ mem \in Documents
      /\ UNCHANGED <<blocked, phase, selection, queue, failure>>
  BY InvTypes
  DEF ConfirmMove, Dispatching, Ready, Running, BlockInv, ReserveInv, TypeOK
<1>1. /\ op = IdleOp /\ op.batch = {} /\ ~op.scan /\ op.then = "none" /\ queue = {} /\ ~blocked
      /\ worker.step # "lost" /\ (failure => mem.journal # {})
      /\ selection # {} => \A m \in mem.journal : m.source \in selection
  BY <1>0, PromptIdle
<1>2. /\ Accepts(plan) /\ mem' = [mem EXCEPT !.journal = @ \cup plan] /\ UNCHANGED op
  BY <1>0, <1>1, NothingFails DEF ConfirmMove, JournalIntent
<1>3. PICK n \in plan : TRUE BY <1>0
<1>4. selection # {} BY <1>0, <1>3 DEF Sources
<1>5. mem.journal = {}
  <2> SUFFICES ASSUME NEW m \in mem.journal PROVE FALSE OBVIOUS
  <2>1. m.source \in Sources(plan) /\ m.source \in Sources(mem.journal)
    BY <1>0, <1>1, <1>4 DEF Sources
  <2> QED BY <1>2, <2>1 DEF Accepts, Conflicts
<1>6. mem'.journal = plan BY <1>0, <1>2, <1>5 DEF Documents
<1>7. \A m \in mem'.journal : m.source \in selection' BY <1>0, <1>6 DEF Sources
<1>8. PromptInv' BY <1>0, <1>1, <1>2, <1>5, <1>7, PromptRest
<1> QED BY <1>0, <1>1, <1>5, <1>8 DEF Prompt, SettledFirst

LEMMA PromptNext ==
  ASSUME FaultFree, BlockInv, [Next]_vars PROVE Prompt
<1>0. TypeOK /\ ControlInv /\ PromptInv BY InvTypes DEF BlockInv, ReserveInv
<1>1. CASE UNCHANGED <<op, mem, queue, failure, blocked, selection, exec>>
           /\ (Running' => Running)
           /\ (phase' = "exiting" /\ phase = "up" => op.step = "idle")
  <2>1. PromptInv' BY <1>0, <1>1 DEF PromptInv, InHand
  <2>2. op.step = "idle" /\ Running => op.then = "none" BY PromptIdle
  <2> QED BY <1>1, <2>1, <2>2 DEF Prompt, SettledFirst, Running
<1>2. ASSUME Running, op.step = "idle", op'.batch = {}, ~op'.scan,
             UNCHANGED <<exec, queue, failure, blocked, phase, mem>>,
             selection' \in {{}, selection}
      PROVE  Prompt
  BY <1>2, PromptIdle, PromptCall
<1>3. \A e, t : CallPersist(e, t) \/ CallReconcile(e, t) => op'.batch = {} /\ ~op'.scan
  BY FreshCall
<1>4. CASE ControllerStep
  <2>1. Running BY <1>4 DEF ControllerStep
  <2>2. ~UndoIntent /\ \A m \in Mappings : ~LinkTarget(m) /\ ~UnlinkSource(m)
    BY <2>1 DEF BlockInv, FlagInv, UndoIntent, LinkTarget, UnlinkSource
  <2>3. ~HandleDisconnect BY <2>1 DEF BlockInv, FlagInv, HandleDisconnect
  <2>4. Shutdown => Prompt BY <1>2, <1>3, <2>1 DEF Shutdown
  <2> QED BY <1>4, <2>1, <2>2, <2>3, <2>4, PromptPersist, PromptReconcile, PromptFlush,
             PromptRemapIdentities, PromptRemapJournal, PromptDiscard, PromptResponse
          DEF ControllerStep
<1>5. CASE UserStep
  <2>1. Running /\ op.step = "idle"
    BY <1>5 DEF UserStep, BeginMove, DismissMove, Quit, ConfirmMove, SubmitRename, Play,
                Dispatching, Ready, Running
  <2>2. op.batch = {} /\ ~op.scan BY <2>1, PromptIdle
  <2>3. CASE BeginMove \/ Quit BY <1>2, <1>3, <2>1, <2>3 DEF BeginMove, Quit
  <2>4. CASE DismissMove BY <1>2, <2>1, <2>2, <2>4 DEF DismissMove
  <2>5. CASE \E p \in Playable : Play(p) BY <1>2, <2>1, <2>2, <2>5 DEF Play
  <2>6. \A m \in Mappings : ~SubmitRename(m) BY DEF SubmitRename, FaultFree
  <2> QED BY <1>5, <2>3, <2>4, <2>5, <2>6, PromptConfirm DEF UserStep
<1>6. CASE Running /\ WorkerStep
  BY <1>1, <1>6
  DEF WorkerStep, StartPlan, MoveEntry, PublishEntry, DetachSource, WorkerFrame, Running
<1>7. CASE Autosave
  <2>1. Running /\ op.step = "idle" BY <1>7 DEF Autosave, Ready, Running
  <2> QED BY <1>2, <1>3, <1>7, <2>1 DEF Autosave
<1>8. ASSUME NEW publish \in BOOLEAN, SavePosition(publish) PROVE Prompt
  <2>1. Running /\ op.step = "idle" BY <1>8 DEF SavePosition, Ready, Running
  <2>2. op'.batch = {} /\ ~op'.scan BY <1>8 DEF SavePosition, IdleOp
  <2> QED BY <1>2, <1>8, <2>1, <2>2 DEF SavePosition
<1>9. CASE Start
  <2>1. op'.batch = {} /\ ~op'.scan BY <1>3, <1>9 DEF Start, IdleOp
  <2>2. PromptInv' BY <1>9, <2>1, PromptRest DEF Start
  <2> QED BY <1>9, <2>2 DEF Prompt, SettledFirst, Start
<1>10. CASE Environment
  BY <1>1, <1>10
  DEF Environment, ExternalExit, Crash, WorkerPanic, WorkerFrame, Intrude, Repair, Ready,
      Running
<1>11. CASE UNCHANGED vars BY <1>1, <1>11 DEF vars, Running
<1>12. CASE PlaybackStarted
  <2>1. Running /\ op.step = "idle" BY <1>12 DEF PlaybackStarted, Ready, Running
  <2>2. op'.batch = {} /\ ~op'.scan BY <1>12 DEF PlaybackStarted, IdleOp
  <2> QED BY <1>2, <1>12, <2>1, <2>2 DEF PlaybackStarted
<1> QED BY <1>4, <1>5, <1>6, <1>7, <1>8, <1>9, <1>10, <1>11, <1>12 DEF Next

\* When nothing is renamed and no write fails, a move starts, and an orderly quit
\* proceeds, only with an empty journal and an empty queue.
THEOREM UnsettledBlocks ==
  ASSUME Careful, InStep, Foreseen, FaultFree PROVE Spec => BlockedWhileUnsettled
<1>1. Clean /\ NeverUndone BY DEF Clean, NeverUndone, FaultFree
<1>2. Init => BlockInv
  <2> SUFFICES ASSUME Init PROVE BlockInv OBVIOUS
  <2>1. ReserveInv /\ FlagInv BY IdentityInit, ReserveInit, FlagInit
  <2>2. PromptInv BY DEF Init, PromptInv, IdleOp
  <2> QED BY <2>1, <2>2 DEF BlockInv
<1>3. BlockInv /\ [Next]_vars => BlockInv' /\ [SettledFirst]_vars
  <2> SUFFICES ASSUME BlockInv, [Next]_vars PROVE BlockInv' /\ SettledFirst OBVIOUS
  <2>1. IdentityInv /\ TypeOK BY InvTypes DEF BlockInv, ReserveInv
  <2>2. ReserveInv' BY <1>1, <2>1, IdentityNext, ReserveNext DEF BlockInv
  <2>3. FlagInv' BY <1>1, <2>1, FlagNext DEF BlockInv
  <2> QED BY <2>2, <2>3, PromptNext DEF BlockInv, Prompt
<1> QED BY <1>2, <1>3, PTL DEF Spec, BlockedWhileUnsettled

-----------------------------------------------------------------------------
(* Moves are atomic.  A file is at one path, or at both ends of a journaled *)
(* move; seen through the journal it is at one, and what the library knows  *)
(* of it is there.                                                          *)

\* The library starts with every file at one path.
Single == \A p, q \in Paths : p # q /\ InitialFs[q] = InitialFs[p] => InitialFs[p] = NoFile

TwiceInv ==
  \A p, q \in Paths : p # q /\ Present(p) /\ fs[q] = fs[p] =>
    \E m \in disk.journal : (p = m.source /\ q = m.target) \/ (p = m.target /\ q = m.source)

\* The intents that the call o withdraws, or may: nothing was copied for them.
Undecided(o) ==
  IF o.step \in {"rename", "undo"} THEN o.batch
  ELSE IF o.step \in Remapping \cup {"discard"} THEN o.untouched ELSE {}

\* A checkpoint is cleared that was merged, and written where there is none for
\* another path.
CallInv ==
  Running =>
    /\ \A m \in Undecided(op) : ~Twins(m)
    /\ ~blocked /\ op.step = "clear" => Merge(disk.progress, disk.checkpoint) = disk.progress
    /\ op.step = "note" => \A c \in disk.checkpoint : c.path = playing.path

AtomInv == IdentityInv /\ stale = {} /\ TwiceInv /\ CallInv

\* f is at p, and not a copy that a move has just made of it there.
At(f, p) == fs[p] = f /\ \A m \in disk.journal : m.target = p => fs[m.source] # f

LocatedInv ==
  \A f \in Files :
    /\ \A p \in Paths : At(f, p) => Location(f) = p
    /\ Held(f) => \E p \in Paths : At(f, p)
    /\ ~Held(f) => Location(f) = NoFile

LEMMA Locations == IdentityInv /\ TwiceInv => LocatedInv
<1> SUFFICES ASSUME IdentityInv, TwiceInv, NEW f \in Files
             PROVE  /\ \A p \in Paths : At(f, p) => Location(f) = p
                    /\ Held(f) => \E p \in Paths : At(f, p)
                    /\ ~Held(f) => Location(f) = NoFile
  BY DEF LocatedInv
<1> DEFINE held == {p \in Paths : fs[p] = f}
           Eligible(p) == \A m \in disk.journal : m.target = p => m.source \notin held
<1>0. /\ TypeOK /\ Compatible(disk.journal) /\ f # NoFile
      /\ \A m \in disk.journal : m.source \in Paths /\ m.target \in Paths
  BY InvTypes, CompatibleSubset, JournalTypes, MappingPaths, ConstantsAssumption
  DEF ControlInv, JournalInv
<1>1. ASSUME NEW p \in Paths, At(f, p) PROVE Location(f) = p
  <2>1. p \in held /\ Eligible(p) BY <1>1 DEF At
  <2>2. ASSUME NEW q \in held, Eligible(q), q # p PROVE FALSE
    <3>1. PICK m \in disk.journal :
            (p = m.source /\ q = m.target) \/ (p = m.target /\ q = m.source)
      BY <1>0, <1>1, <2>2 DEF TwiceInv, Present, At
    <3> QED BY <1>1, <2>1, <2>2, <3>1 DEF At
  <2>3. Location(f) = CHOOSE q \in held : Eligible(q) BY <2>1 DEF Location
  <2> HIDE DEF held, Eligible
  <2> QED BY <2>1, <2>2, <2>3
<1>2. ASSUME Held(f) PROVE \E p \in Paths : At(f, p)
  <2>1. PICK p \in Paths : fs[p] = f BY <1>2 DEF Held
  <2>2. CASE At(f, p) BY <2>2
  <2>3. CASE ~At(f, p)
    <3>1. PICK m \in disk.journal : m.target = p /\ fs[m.source] = f BY <2>1, <2>3 DEF At
    <3>2. \A n \in disk.journal : n.target # m.source BY <1>0, CompatibleFacts
    <3> QED BY <1>0, <3>1, <3>2 DEF At
  <2> QED BY <2>2, <2>3
<1>3. ~Held(f) => Location(f) = NoFile BY DEF Held, Location
<1> QED BY <1>1, <1>2, <1>3

-----------------------------------------------------------------------------
(* A file has at most one copy, made by a journaled move *)

LEMMA ForgottenAreSingle ==
  ASSUME AtomInv, Running, ~blocked, Rewrites, NEW m \in disk.journal, m \notin disk'.journal
  PROVE  ~Twins(m)
<1>0. TypeOK /\ ControlInv /\ disk \in Documents BY InvTypes DEF AtomInv, TypeOK
<1>1. CASE Merged \/ Cleared \/ Noted \/ Inserted \/ Led("progress") \/ Led("history")
  BY <1>0, <1>1, OtherWrites
<1>2. CASE Settles
  <2>1. m \in op.batch BY <1>0, <1>2 DEF Settles, Documents
  <2>2. Gone(op.batch) BY <1>0, <1>2 DEF Settles, ControlInv, OpInv, Remapping
  <2> QED BY <2>1, <2>2 DEF Gone, Twins
<1>3. CASE Withdraws
  <2>1. m \in Undecided(op) BY <1>0, <1>3 DEF Withdraws, Documents, Undecided, Remapping
  <2> QED BY <2>1 DEF AtomInv, CallInv
<1>4. ASSUME NEW ms, Adds(ms) PROVE FALSE BY <1>0, <1>4, OtherWrites
<1> QED BY <1>1, <1>2, <1>3, <1>4 DEF Rewrites

LEMMA TwiceNext ==
  ASSUME Clean, AtomInv, [Next]_vars PROVE TwiceInv'
<1>0. /\ IdentityInv /\ TypeOK /\ OneWrite /\ OneChange /\ Compatible(disk.journal)
      /\ fs \in [Paths -> Files \cup {NoFile}] /\ TwiceInv
      /\ \A m \in disk.journal : m.source \in Paths /\ m.target \in Paths
  BY InvTypes, CompatibleSubset, JournalTypes, MappingPaths, WriteNext, ChangeNext
  DEF ControlInv, JournalInv, AtomInv, TypeOK
<1> SUFFICES ASSUME NEW p \in Paths, NEW q \in Paths, p # q, Present(p)', fs'[q] = fs'[p]
             PROVE  \E m \in disk'.journal :
                      (p = m.source /\ q = m.target) \/ (p = m.target /\ q = m.source)
  BY DEF TwiceInv
<1> DEFINE Ends(m) == (p = m.source /\ q = m.target) \/ (p = m.target /\ q = m.source)
<1>1. CASE UNCHANGED fs
  <2>1. PICK m \in disk.journal : Ends(m) BY <1>0, <1>1 DEF TwiceInv, Present
  <2>2. Twins(m) BY <1>1, <2>1 DEF Twins, Present
  <2>3. m \in disk'.journal BY <1>0, <2>2, ForgottenAreSingle DEF OneWrite, AtomInv
  <2> QED BY <2>1, <2>3
<1>2. CASE UNCHANGED disk
  <2> SUFFICES \E m \in disk.journal : Ends(m) BY <1>2
  <2>1. CASE Present(p) /\ fs[q] = fs[p] BY <1>0, <2>1 DEF TwiceInv
  <2>2. ASSUME NEW m \in disk.journal, Copies(m) \/ Moves(m)
        PROVE  \E n \in disk.journal : Ends(n)
    <3>1. /\ fs'[m.target] = fs[m.source] /\ Present(m.source) /\ ~Present(m.target)
          /\ \A x \in Paths : x # m.target => fs'[x] = fs[x] \/ fs'[x] = NoFile
      BY <1>0, <2>2 DEF Copies, Moves, Renamed, Movable
    <3>2. ASSUME NEW x \in Paths, x # m.target, x # m.source, fs[x] = fs[m.source] PROVE FALSE
      <4>1. PICK n \in disk.journal : (x = n.source /\ m.source = n.target)
                                      \/ (x = n.target /\ m.source = n.source)
        BY <1>0, <3>1, <3>2 DEF TwiceInv, Present
      <4> QED BY <1>0, <3>2, <4>1, CompatibleFacts
    <3>3. CASE p # m.target /\ q # m.target
      BY <1>0, <2>1, <3>1, <3>3 DEF Present
    <3>4. CASE p = m.target
      <4>1. fs[q] = fs[m.source] BY <3>1, <3>4 DEF Present
      <4> QED BY <3>2, <3>4, <4>1
    <3>5. CASE q = m.target
      <4>1. fs[p] = fs[m.source] BY <3>1, <3>5 DEF Present
      <4> QED BY <3>2, <3>5, <4>1
    <3> QED BY <3>3, <3>4, <3>5
  <2>3. ASSUME NEW m \in disk.journal, Detaches(m) \/ Retracts(m)
        PROVE  \E n \in disk.journal : Ends(n)
    <3>1. \A x \in Paths : fs'[x] = fs[x] \/ fs'[x] = NoFile
      BY <1>0, <2>3 DEF Detaches, Retracts
    <3> QED BY <2>1, <3>1 DEF Present
  <2>4. ASSUME NEW x \in Paths, NEW f \in Files, Intrude(x, f)
        PROVE  \E n \in disk.journal : Ends(n)
    <3>1. ~Held(f) /\ \A y \in Paths : fs'[y] = IF y = x THEN f ELSE fs[y]
      BY <1>0, <2>4 DEF Intrude
    <3>2. p # x /\ q # x BY <3>1 DEF Held
    <3> QED BY <2>1, <3>1, <3>2 DEF Present
  <2> QED BY <1>0, <1>1, <1>2, <2>2, <2>3, <2>4 DEF OneChange
<1> QED BY <1>0, <1>1, <1>2 DEF OneWrite

-----------------------------------------------------------------------------
(* What the calls write and withdraw *)

\* A call that has nothing to withdraw, and is not about to write a checkpoint.
LEMMA SettledCalls ==
  ASSUME op'.step \notin {"clear", "note", "rename", "undo"}, op'.untouched = {} PROVE CallInv'
BY DEF CallInv, Undecided, Remapping

LEMMA BegunCalls ==
  ASSUME Settled \/ op' = IdleOp PROVE CallInv'
<1>1. Settled BY CallSettles
<1> QED BY <1>1, SettledCalls DEF Settled

\* A call goes on without touching files.
LEMMA CallsContinue ==
  ASSUME AtomInv, Running, UNCHANGED fs, Undecided(op') \subseteq Undecided(op),
         op'.step \notin {"clear", "note"}
  PROVE  CallInv'
BY DEF CallInv, AtomInv, Twins, Present

LEMMA CallPersistPending ==
  ASSUME AtomInv, Running, PersistPending PROVE CallInv'
<1>0. op \in Ops /\ op.step = "persist" /\ op.untouched = {} /\ op.then \in Continuations
  BY InvTypes DEF PersistPending, AtomInv, ControlInv, OpShape, TypeOK
<1>1. CASE CallReconcile(op.explicit, op.then) \/ Return(FALSE)
  BY <1>0, <1>1, CallSettles, BegunCalls
<1>2. CASE op' = [op EXCEPT !.step = FirstStep, !.batch = queue]
  <2>1. op'.step = FirstStep /\ op'.untouched = {} BY <1>0, <1>2 DEF Ops
  <2>2. FirstStep \in {"flush", "progress"} BY DEF FirstStep
  <2> QED BY <2>1, <2>2, SettledCalls
<1> QED BY <1>1, <1>2 DEF PersistPending

LEMMA CallReconciles ==
  ASSUME AtomInv, Running, Reconcile PROVE CallInv'
<1>0. op \in Ops /\ UNCHANGED fs BY InvTypes DEF Reconcile, AtomInv, TypeOK
<1> DEFINE found == Completed(mem.journal)
           untouched == Untouched(mem.journal)
           some == Unresolved(mem.journal) # {}
           first == IF found # {} THEN FirstStep ELSE "discard"
<1>1. \A m \in untouched : ~Twins(m) BY DEF Untouched, Movable, Twins, Present
<1>2. FirstStep \in {"flush", "progress"} BY DEF FirstStep
<1>3. first \in {"flush", "progress", "discard"} BY <1>2
<1> HIDE DEF found, untouched, some, first
<1>4. CASE Return(FALSE) \/ Return(TRUE) \/ Reconciled(some)
  BY <1>4, CallSettles, BegunCalls
<1>5. CASE op' = [op EXCEPT !.step = first, !.batch = found, !.scan = TRUE,
                            !.untouched = untouched, !.unresolved = some]
  <2>1. op'.step = first /\ op'.untouched = untouched BY <1>0, <1>5 DEF Ops
  <2>2. Undecided(op') = untouched BY <1>3, <2>1 DEF Undecided, Remapping
  <2> QED BY <1>0, <1>1, <1>3, <2>1, <2>2 DEF CallInv, Twins, Present
<1> QED BY <1>4, <1>5 DEF Reconcile, found, untouched, some, first

LEMMA MergeTwice ==
  ASSUME NEW rows, NEW checkpoint
  PROVE  Merge(Merge(rows, checkpoint), checkpoint) = Merge(rows, checkpoint)
BY DEF Merge

LEMMA CallFlushes ==
  ASSUME Clean, AtomInv, Running, FlushProgress PROVE CallInv'
<1> DEFINE rows == Merge(mem.progress, mem.checkpoint)
<1>0. /\ TypeOK /\ op \in Ops /\ op.step = "flush" /\ UNCHANGED <<fs, playing>> /\ stale = {}
      /\ "progress" \in Docs /\ disk.checkpoint = mem.checkpoint /\ disk \in Documents
  BY InvTypes, DocKinds DEF FlushProgress, AtomInv, TypeOK, ControlInv, CheckpointInv
<1>1. CASE FlushFailed BY <1>1, CallSettles, BegunCalls
<1>2. CASE /\ \/ UNCHANGED <<disk, stale>> /\ rows = mem.progress
              \/ Persist("progress", rows, "ok")
           /\ op' = [op EXCEPT !.step = "clear"] /\ UNCHANGED blocked
  <2>1. op'.step = "clear" /\ op'.untouched = op.untouched BY <1>0, <1>2 DEF Ops
  <2>2. Undecided(op') = Undecided(op) BY <1>0, <2>1 DEF Undecided, Remapping
  <2>3. ASSUME ~blocked PROVE disk'.progress = rows /\ disk'.checkpoint = disk.checkpoint
    <3>1. CASE UNCHANGED disk /\ rows = mem.progress
      <4>1. disk["progress"] = mem["progress"]
        BY <1>0, <2>3, Agreed DEF Ahead, AtomInv
      <4> QED BY <3>1, <4>1
    <3>2. CASE Persist("progress", rows, "ok") BY <1>0, <3>2 DEF Persist, Documents
    <3> QED BY <1>2, <3>1, <3>2
  <2>4. ~blocked' => Merge(disk'.progress, disk'.checkpoint) = disk'.progress
    BY <1>0, <1>2, <2>3, MergeTwice
  <2>5. \A m \in Undecided(op') : ~Twins(m)'
    BY <1>0, <2>2 DEF AtomInv, CallInv, Twins, Present
  <2> QED BY <2>1, <2>4, <2>5 DEF CallInv
<1> QED BY <1>1, <1>2 DEF FlushProgress

LEMMA CallClears ==
  ASSUME Clean, AtomInv, Running, FlushClear PROVE CallInv'
<1>0. /\ TypeOK /\ op \in Ops /\ op.step = "clear" /\ UNCHANGED fs /\ disk \in Documents
      /\ "checkpoint" \in Docs
      /\ op.batch # {} => op.then \in Continuations
  BY InvTypes, DocKinds DEF FlushClear, AtomInv, TypeOK, ControlInv, OpShape
<1>1. CASE FlushFailed BY <1>1, CallSettles, BegunCalls
<1>2. CASE op' = IdleOp \/ CallReconcile(TRUE, "none")
  BY <1>2, CallSettles, BegunCalls DEF Continuations
<1>3. CASE Persist("checkpoint", {}, "ok") /\ op' = [op EXCEPT !.step = "progress"]
  <2>1. op'.step = "progress" /\ op'.untouched = op.untouched BY <1>0, <1>3 DEF Ops
  <2>2. Undecided(op') = Undecided(op) BY <1>0, <2>1 DEF Undecided, Remapping
  <2> QED BY <1>0, <2>1, <2>2, CallsContinue
<1>4. CASE Persist("checkpoint", {}, "ok") /\ op' = [op EXCEPT !.step = "note"]
  <2>1. op'.step = "note" BY <1>0, <1>4 DEF Ops
  <2>2. disk'.checkpoint = {} BY <1>0, <1>4 DEF Persist, Documents
  <2> QED BY <2>1, <2>2 DEF CallInv, Undecided, Remapping
<1>5. CASE /\ Persist("checkpoint", {}, "ok")
           /\ CASE op.batch # {} -> op' = [op EXCEPT !.step = "progress"]
                [] op.then = "start" -> CallReconcile(TRUE, "none")
                [] op.then \in {"checkpoint", "publish"} -> op' = [op EXCEPT !.step = "note"]
                [] OTHER -> op' = IdleOp
  BY <1>2, <1>3, <1>4, <1>5
<1> QED BY <1>1, <1>5 DEF FlushClear

LEMMA CallRemaps ==
  ASSUME AtomInv, Running, RemapIdentities \/ RemapJournal \/ DiscardUntouched \/ NotePosition
  PROVE  CallInv'
<1>0. /\ op \in Ops /\ UNCHANGED fs
      /\ op.step \in {"progress", "history", "journal", "discard", "note"}
      /\ (op.step = "note" => op.untouched = {})
  BY InvTypes
  DEF TypeOK, AtomInv, RemapIdentities, Remapped, RemapJournal, DiscardUntouched, NotePosition,
      ControlInv, OpShape
<1>1. CASE RemapFailed \/ Return(FALSE) \/ Return(TRUE) \/ Reconciled(op.unresolved) \/ op' = IdleOp
  BY <1>1, CallSettles, BegunCalls
<1>2. ASSUME op.step # "note", NEW step \in {"history", "journal", "discard"},
             op'.step = step, op'.untouched = op.untouched
      PROVE  CallInv'
  <2>1. Undecided(op') = Undecided(op) BY <1>0, <1>2 DEF Undecided, Remapping
  <2> QED BY <1>0, <1>2, <2>1, CallsContinue
<1>3. CASE RemapIdentities /\ op' = [op EXCEPT !.step = NextStep(@)]
  <2>1. NextStep(op.step) \in {"history", "journal"}
    BY <1>3 DEF RemapIdentities, Remapped, NextStep
  <2>2. op'.step = NextStep(op.step) /\ op'.untouched = op.untouched BY <1>0, <1>3 DEF Ops
  <2>3. op.step # "note" BY <1>3 DEF RemapIdentities, Remapped
  <2> QED BY <1>2, <2>1, <2>2, <2>3
<1>4. CASE RemapJournal /\ op' = [op EXCEPT !.step = "discard", !.batch = {}]
  <2>1. op'.step = "discard" /\ op'.untouched = op.untouched BY <1>0, <1>4 DEF Ops
  <2>2. op.step # "note" BY <1>4 DEF RemapJournal
  <2> QED BY <1>2, <2>1, <2>2
<1>5. CASE op' = [IdleOp EXCEPT !.step = "flush"]
  <2>1. op'.step = "flush" /\ op'.untouched = {} BY <1>5 DEF IdleOp
  <2> QED BY <2>1, SettledCalls
<1>6. RemapIdentities => RemapFailed \/ op' = [op EXCEPT !.step = NextStep(@)]
  BY DEF RemapIdentities
<1>7. RemapJournal => \/ RemapFailed \/ Return(TRUE) \/ Reconciled(op.unresolved)
                      \/ op' = [op EXCEPT !.step = "discard", !.batch = {}]
  BY DEF RemapJournal
<1>8. DiscardUntouched => Return(FALSE) \/ Reconciled(op.unresolved) BY DEF DiscardUntouched
<1>9. NotePosition => op' = IdleOp \/ op' = [IdleOp EXCEPT !.step = "flush"] BY DEF NotePosition
<1> QED BY <1>1, <1>3, <1>4, <1>5, <1>6, <1>7, <1>8, <1>9

LEMMA CallRenames ==
  ASSUME AtomInv, Running, UndoIntent \/ \E m \in Mappings : LinkTarget(m) \/ UnlinkSource(m)
  PROVE  CallInv'
<1>0. TypeOK /\ op \in Ops BY InvTypes DEF TypeOK, AtomInv
<1>1. CASE UndoIntent BY <1>1, BegunCalls DEF UndoIntent
<1>2. ASSUME NEW m \in Mappings, LinkTarget(m) PROVE CallInv'
  <2>1. CASE op' = [op EXCEPT !.step = "undo"] /\ UNCHANGED fs /\ op.step = "rename"
    <3>1. op'.step = "undo" /\ op'.batch = op.batch BY <1>0, <2>1 DEF Ops
    <3>2. Undecided(op') = Undecided(op) BY <2>1, <3>1 DEF Undecided
    <3> QED BY <2>1, <3>1, <3>2, CallsContinue
  <2>2. CASE op' = [op EXCEPT !.step = "unlink"]
    <3>1. op'.step = "unlink" BY <1>0, <2>2 DEF Ops
    <3> QED BY <3>1 DEF CallInv, Undecided, Remapping
  <2> QED BY <1>2, <2>1, <2>2 DEF LinkTarget
<1>3. ASSUME NEW m \in Mappings, UnlinkSource(m) PROVE CallInv'
  <2>1. CASE CallPersist(FALSE, "none") BY <2>1, CallSettles, BegunCalls DEF Continuations
  <2>2. CASE /\ op' = [op EXCEPT !.step = "undo"] /\ op.batch = {m}
             /\ fs' = [fs EXCEPT ![m.target] = NoFile]
    <3>1. op'.step = "undo" /\ op'.batch = {m} BY <1>0, <2>2 DEF Ops
    <3>2. fs'[m.target] = NoFile BY <1>0, <2>2, MappingPaths DEF TypeOK
    <3>3. ~Twins(m)' BY <3>2 DEF Twins, Present
    <3> QED BY <3>1, <3>3 DEF CallInv, Undecided
  <2> QED BY <1>3, <2>1, <2>2 DEF UnlinkSource
<1> QED BY <1>1, <1>2, <1>3

\* The history is written before the checkpoint, which stays as it was.
LEMMA CallInserts ==
  ASSUME Clean, AtomInv, Running, InsertHistory PROVE CallInv'
<1>0. /\ op \in Ops /\ op.step = "insert" /\ op.untouched = {} /\ op.row = playing
      /\ UNCHANGED playing /\ mem.checkpoint = disk.checkpoint /\ disk \in Documents
      /\ op' = [op EXCEPT !.step = SaveStep(op.row)]
      /\ UNCHANGED disk \/ \E rows, outcome : Persist("history", rows, outcome)
  BY InvTypes
  DEF InsertHistory, AtomInv, TypeOK, ControlInv, OpShape, CheckpointInv, HeldRow, Saving
<1>1. op'.step = SaveStep(playing) /\ op'.untouched = {} BY <1>0 DEF Ops
<1>2. disk'.checkpoint = disk.checkpoint BY <1>0 DEF Persist, Documents
<1>3. op'.step = "note" => \A c \in disk'.checkpoint : c.path = playing'.path
  BY <1>0, <1>1, <1>2 DEF SaveStep
<1>4. op'.step \in {"flush", "note"} BY <1>1, SaveStepType
<1> QED BY <1>1, <1>3, <1>4 DEF CallInv, Undecided, Remapping

\* Steps that leave the call and the documents alone: a file may be copied only
\* while a move executes, when no intent is about to be withdrawn.
LEMMA CallWaits ==
  ASSUME AtomInv, Running, UNCHANGED <<op, disk, blocked>>, op.step = "note" => UNCHANGED playing,
         \/ UNCHANGED fs
         \/ op.step \in {"idle", "flush", "clear", "insert", "note"} /\ op.batch = {}
  PROVE  CallInv'
<1>1. CASE UNCHANGED fs
  BY <1>1 DEF AtomInv, CallInv, Undecided, Twins, Present
<1>2. CASE op.step \in {"idle", "flush", "clear", "insert", "note"} /\ op.batch = {}
  <2>1. op.step \in {"flush", "clear"} => op.untouched = {}
    BY <1>2, InvTypes DEF AtomInv, ControlInv, OpShape
  <2>2. Undecided(op') = {} BY <1>2, <2>1 DEF Undecided, Remapping
  <2> QED BY <2>2 DEF AtomInv, CallInv
<1> QED BY <1>1, <1>2

LEMMA CallController ==
  ASSUME Clean, AtomInv, ControllerStep PROVE CallInv'
<1>0. Running BY DEF ControllerStep
<1>1. CASE HandleResponse
  <2> DEFINE next == IF worker.done = worker.plan THEN "none" ELSE "reconcile"
  <2>1. CallPersist(FALSE, next) \/ CallReconcile(FALSE, "none") BY <1>1 DEF HandleResponse
  <2>2. next \in Continuations /\ "none" \in Continuations BY DEF Continuations
  <2> HIDE DEF next
  <2> QED BY <2>1, <2>2, CallSettles, BegunCalls
<1>2. CASE HandleDisconnect BY <1>0, <1>2, CallWaits DEF HandleDisconnect
<1>3. CASE Shutdown BY <1>3, CallSettles, BegunCalls DEF Shutdown, Continuations
<1> QED BY <1>0, <1>1, <1>2, <1>3, CallPersistPending, CallReconciles, CallFlushes, CallClears,
           CallRemaps, CallRenames, CallInserts
        DEF ControllerStep

LEMMA CallUser ==
  ASSUME AtomInv, UserStep PROVE CallInv'
<1>0. Running /\ op.step = "idle" /\ UNCHANGED <<fs, blocked>>
  BY DEF UserStep, BeginMove, DismissMove, Quit, ConfirmMove, SubmitRename, Play, Dispatching,
         Ready, Running
<1>1. CASE UNCHANGED op
  <2>1. Undecided(op') = {} BY <1>0, <1>1 DEF Undecided, Remapping
  <2> QED BY <1>0, <1>1, <2>1 DEF CallInv
<1>2. CASE BeginMove \/ Quit
  BY <1>2, CallSettles, BegunCalls DEF BeginMove, Quit, Continuations
<1>3. ASSUME NEW ms \in SUBSET Mappings, \A m \in ms : Movable(m),
             op' = [IdleOp EXCEPT !.step = "undo", !.batch = ms] \/
               op' = [IdleOp EXCEPT !.step = "rename", !.batch = ms]
      PROVE  CallInv'
  <2>1. op'.step \in {"undo", "rename"} /\ op'.batch = ms BY <1>3 DEF IdleOp
  <2> QED BY <1>0, <1>3, <2>1 DEF CallInv, Undecided, Movable, Twins, Present
<1>4. ASSUME NEW plan \in SUBSET Mappings, ConfirmMove(plan) PROVE CallInv'
  BY <1>1, <1>3, <1>4 DEF ConfirmMove
<1>5. ASSUME NEW m \in Mappings, SubmitRename(m) PROVE CallInv'
  BY <1>1, <1>3, <1>5 DEF SubmitRename
<1>6. DismissMove \/ (\E p \in Playable : Play(p)) => UNCHANGED op BY DEF DismissMove, Play
<1> QED BY <1>1, <1>2, <1>4, <1>5, <1>6 DEF UserStep

LEMMA CallNext ==
  ASSUME Clean, AtomInv, [Next]_vars PROVE CallInv'
<1>1. CASE Running /\ WorkerStep
  <2>1. exec
    BY <1>1, InvTypes
    DEF WorkerStep, StartPlan, MoveEntry, PublishEntry, DetachSource, Busy, TwinInv, AtomInv
  <2>2. op.step \in {"idle", "flush", "clear", "insert", "note"} /\ op.batch = {}
    BY <1>1, <2>1, InvTypes DEF AtomInv, ControlInv, MoveInv
  <2>3. UNCHANGED <<op, disk, blocked, playing>>
    BY <1>1 DEF WorkerStep, StartPlan, MoveEntry, PublishEntry, DetachSource, WorkerFrame
  <2> QED BY <1>1, <2>2, <2>3, CallWaits
<1>2. CASE Autosave BY <1>2, CallSettles, BegunCalls DEF Autosave, Continuations
<1>3. ASSUME NEW publish \in BOOLEAN, SavePosition(publish) PROVE CallInv'
  <2> DEFINE other == \E c \in mem.checkpoint : c.path # playing.path
  <2>1. op'.step = (IF other THEN "flush" ELSE "note") /\ op'.untouched = {}
    BY <1>3 DEF SavePosition, SaveStep, IdleOp
  <2>2. Running /\ UNCHANGED <<disk, playing>> BY <1>3 DEF SavePosition, Ready, Running
  <2>3. mem.checkpoint = disk.checkpoint
    BY <2>2, InvTypes DEF AtomInv, ControlInv, CheckpointInv
  <2>4. CASE other BY <2>1, <2>4, SettledCalls
  <2>5. CASE ~other
    <3>1. op'.step = "note" /\ \A c \in disk'.checkpoint : c.path = playing'.path
      BY <2>1, <2>2, <2>3, <2>5
    <3> QED BY <3>1 DEF CallInv, Undecided, Remapping
  <2> QED BY <2>4, <2>5
<1>4. CASE Start
  <2>1. CASE CallReconcile(TRUE, "none")
    BY <2>1, CallSettles, BegunCalls DEF Continuations
  <2>2. CASE op' = [IdleOp EXCEPT !.step = "flush", !.then = "start"]
    <3>1. op'.step = "flush" /\ op'.untouched = {} BY <2>2 DEF IdleOp
    <3> QED BY <3>1, SettledCalls
  <2> QED BY <1>4, <2>1, <2>2 DEF Start
<1>5. CASE ~Running' BY <1>5 DEF CallInv
<1>6. CASE ExternalExit \/ WorkerPanic \/ UNCHANGED vars
  <2>1. UNCHANGED <<fs, op, disk, blocked, playing>> /\ (Running' => Running)
    BY <1>6 DEF ExternalExit, WorkerPanic, WorkerFrame, vars, Running, Ready
  <2> QED BY <1>5, <2>1, CallWaits
<1>7. ASSUME NEW m \in Mappings, Repair(m) PROVE CallInv'
  <2>1. CASE ~Running BY <1>5, <1>7, <2>1 DEF Repair, Running
  <2>2. CASE Running
    <3>1. op.step = "idle" /\ UNCHANGED <<op, disk, blocked>>
      BY <1>7, <2>2 DEF Repair, Dispatching, Ready, Running
    <3>2. op.batch = {}
      <4>1. op = IdleOp BY <3>1, InvTypes DEF AtomInv, ControlInv, OpShape
      <4> QED BY <4>1 DEF IdleOp
    <3> QED BY <2>2, <3>1, <3>2, CallWaits
  <2> QED BY <2>1, <2>2
<1>8. ASSUME NEW p \in Paths, NEW f \in Files, Intrude(p, f) PROVE CallInv'
  <2>1. /\ UNCHANGED <<op, disk, blocked, playing>> /\ (Running' => Running)
        /\ ~Held(f) /\ \A q \in Paths : fs'[q] = IF q = p THEN f ELSE fs[q]
    BY <1>8, InvTypes DEF Intrude, Running, AtomInv, TypeOK
  <2>2. /\ TypeOK /\ op \in Ops /\ Undecided(op) \in SUBSET Mappings
    BY InvTypes DEF AtomInv, TypeOK, Ops, Undecided
  <2>3. ASSUME NEW m \in Undecided(op), ~Twins(m) PROVE ~Twins(m)'
    <3>1. m.source \in Paths /\ m.target \in Paths /\ m.source # m.target
      BY <2>2, MappingPaths
    <3> QED BY <2>1, <2>3, <3>1 DEF Held, Twins, Present
  <2> QED BY <2>1, <2>3 DEF AtomInv, CallInv
<1>9. ~Crash \/ ~Running' BY DEF Crash, Running
<1>10. CASE PlaybackStarted
  <2>1. op'.step = "insert" /\ op'.untouched = {} BY <1>10 DEF PlaybackStarted, IdleOp
  <2> QED BY <2>1, SettledCalls
<1> QED BY <1>1, <1>2, <1>3, <1>4, <1>5, <1>6, <1>7, <1>8, <1>9, <1>10, CallController, CallUser
        DEF Next, Environment

LEMMA AtomInit ==
  ASSUME InStep, Single PROVE Init => AtomInv
<1> SUFFICES ASSUME Init PROVE AtomInv OBVIOUS
<1>1. IdentityInv /\ stale = {} BY IdentityInit DEF Init
<1>2. TwiceInv BY DEF Init, TwiceInv, Present, Single
<1>3. CallInv BY DEF Init, CallInv, IdleOp, Undecided, Remapping
<1> QED BY <1>1, <1>2, <1>3 DEF AtomInv

LEMMA AtomNext ==
  ASSUME Careful, Clean PROVE AtomInv /\ [Next]_vars => AtomInv'
<1> SUFFICES ASSUME AtomInv, [Next]_vars PROVE AtomInv' OBVIOUS
<1>1. IdentityInv' BY IdentityNext DEF AtomInv
<1>2. stale' = {} BY WriteNext DEF AtomInv, OneWrite
<1> QED BY <1>1, <1>2, TwiceNext, CallNext DEF AtomInv

-----------------------------------------------------------------------------
(* The contract's view: where files are, and which ones each document knows *)

Where == [f \in Files |-> Location(f)]

Knows == [d \in Remapped |->
            {f \in Files : \E r \in Library(d) : r.file = f /\ Follow(r) = Location(f)}]

\* What is known of a file is found at that file: a row is enough.
Recorded(d) == {f \in Files : Held(f) /\ \E r \in Library(d) : r.file = f}

FoundInv == Knows = [d \in Remapped |-> Recorded(d)]

LEMMA LibraryRows ==
  ASSUME IdentityInv, NEW d \in Remapped, NEW r \in Library(d)
  PROVE  r \in Rows /\ Tracked(r)
<1>1. disk \in Documents BY InvTypes DEF TypeOK
<1> QED BY <1>1, DocKinds DEF Library, Merge, Remapped, Documents, Tracked

LEMMA FollowFinds ==
  ASSUME IdentityInv, LocatedInv, NEW r \in Rows, Tracked(r)
  PROVE  Follow(r) \in Paths /\ (Held(r.file) => Follow(r) = Location(r.file))
<1> DEFINE away == {m \in disk.journal : m.source = r.path /\ fs[m.target] = r.file}
<1>0. /\ Compatible(disk.journal) /\ r.path \in Paths /\ r.file \in Files /\ r.file # NoFile
      /\ \A m \in disk.journal : m.source \in Paths /\ m.target \in Paths
  BY InvTypes, CompatibleSubset, JournalTypes, MappingPaths, RowFields DEF ControlInv, JournalInv
<1>1. CASE fs[r.path] = r.file \/ away = {}
  <2>1. Follow(r) = r.path BY <1>1 DEF Follow
  <2>2. ASSUME Held(r.file) PROVE At(r.file, r.path)
    <3>1. Leads(r) /\ Free(r) BY <2>2, InvTypes DEF RowsInv, Sound
    <3>2. fs[r.path] = r.file BY <1>1, <3>1 DEF Leads
    <3> QED BY <1>0, <3>1, <3>2 DEF Free, At, Present
  <2> QED BY <1>0, <2>1, <2>2 DEF LocatedInv
<1>2. CASE fs[r.path] # r.file /\ away # {}
  <2>1. PICK m \in away : Follow(r) = m.target BY <1>2 DEF Follow
  <2>2. ASSUME Held(r.file) PROVE At(r.file, m.target)
    <3>1. Leads(r) BY <2>2, InvTypes DEF RowsInv, Sound
    <3>2. fs[m.source] # r.file BY <1>0, <1>2, <2>1
    <3> QED BY <1>0, <2>1, <3>2, CompatibleFacts DEF At
  <2> QED BY <1>0, <2>1, <2>2 DEF LocatedInv
<1> QED BY <1>1, <1>2

LEMMA AtomFound == AtomInv => LocatedInv /\ FoundInv
<1> SUFFICES ASSUME AtomInv PROVE LocatedInv /\ FoundInv OBVIOUS
<1>1. LocatedInv BY Locations DEF AtomInv
<1>2. ASSUME NEW d \in Remapped, NEW f \in Files
      PROVE  (\E r \in Library(d) : r.file = f /\ Follow(r) = Location(f)) <=>
               (Held(f) /\ \E r \in Library(d) : r.file = f)
  <2>1. \A r \in Library(d) :
          Follow(r) \in Paths /\ (Held(r.file) => Follow(r) = Location(r.file))
    BY <1>1, LibraryRows, FollowFinds DEF AtomInv
  <2>2. ~Held(f) => Location(f) \notin Paths
    BY <1>1, ConstantsAssumption DEF LocatedInv
  <2> QED BY <2>1, <2>2
<1>3. \A d \in Remapped :
        {f \in Files : \E r \in Library(d) : r.file = f /\ Follow(r) = Location(f)} = Recorded(d)
  BY <1>2 DEF Recorded
<1> QED BY <1>1, <1>3 DEF FoundInv, Knows

LEMMA SameWhere ==
  ASSUME LocatedInv, LocatedInv',
         \A f \in Files : \A p \in Paths : At(f, p) => At(f, p)',
         \A f \in Files : Held(f)' => Held(f)
  PROVE  Where' = Where
<1>1. ASSUME NEW f \in Files PROVE Location(f)' = Location(f)
  <2>1. CASE Held(f)
    <3>1. PICK p \in Paths : At(f, p) BY <2>1 DEF LocatedInv
    <3>2. Location(f) = p BY <3>1 DEF LocatedInv
    <3>3. Location(f)' = p BY <3>1 DEF LocatedInv
    <3> QED BY <3>2, <3>3
  <2>2. CASE ~Held(f)
    <3>1. ~Held(f)' BY <2>2
    <3> QED BY <2>2, <3>1 DEF LocatedInv
  <2> QED BY <2>1, <2>2
<1> QED BY <1>1 DEF Where

LEMMA SameKnows ==
  ASSUME FoundInv, FoundInv', \A d \in Remapped : Recorded(d)' = Recorded(d)
  PROVE  Knows' = Knows
BY DEF FoundInv

\* A file goes to a free path, or appears there, and nothing else changes.
LEMMA Goes ==
  ASSUME LocatedInv, LocatedInv', NEW f \in Files, NEW p \in Paths, ~Present(p) \/ fs[p] = f,
         ~At(f, p), At(f, p)', Knows' = Knows,
         \A g \in Files : g # f =>
           /\ \A q \in Paths : At(g, q) => At(g, q)'
           /\ Held(g)' => Held(g)
  PROVE  Contract!Next
<1>1. Location(f)' = p BY DEF LocatedInv
<1>2. ASSUME NEW g \in Files, g # f PROVE Location(g)' = Location(g)
  <2>1. CASE Held(g)
    <3>1. PICK q \in Paths : At(g, q) BY <2>1 DEF LocatedInv
    <3>2. Location(g) = q BY <3>1 DEF LocatedInv
    <3>3. Location(g)' = q BY <1>2, <3>1 DEF LocatedInv
    <3> QED BY <3>2, <3>3
  <2>2. CASE ~Held(g)
    <3>1. ~Held(g)' BY <1>2, <2>2
    <3> QED BY <2>2, <3>1 DEF LocatedInv
  <2> QED BY <2>1, <2>2
<1>3. ASSUME NEW g \in Files, Location(g) = p PROVE FALSE
  <2>1. Held(g) BY <1>3, ConstantsAssumption DEF LocatedInv
  <2>2. PICK q \in Paths : At(g, q) BY <2>1 DEF LocatedInv
  <2>3. At(g, p) BY <1>3, <2>2 DEF LocatedInv
  <2>4. fs[p] = g /\ g # NoFile BY <2>3, ConstantsAssumption DEF At
  <2> QED BY <2>3, <2>4 DEF Present
<1>4. Where' = [Where EXCEPT ![f] = p] BY <1>1, <1>2 DEF Where
<1>5. \A g \in Files : Where[g] # p BY <1>3 DEF Where
<1>6. Where[f] # NoFile \/ Where[f] = NoFile OBVIOUS
<1> QED BY <1>4, <1>5, <1>6
        DEF Contract!Next, Contract!Move, Contract!Appear, Contract!Free, Where, Knows

\* The documents stay: nothing is learnt, unless of a file that appears unknown.
LEMMA KnowsByFiles ==
  ASSUME AtomInv, FoundInv, FoundInv', UNCHANGED disk,
         \A f \in Files :
           (Held(f)' <=> Held(f)) \/ \A d \in Identities : \A r \in disk[d] : r.file # f
  PROVE  Knows' = Knows
<1>1. ASSUME NEW d \in Remapped, NEW f \in Files
      PROVE  (Held(f)' /\ \E r \in Library(d)' : r.file = f) <=>
               (Held(f) /\ \E r \in Library(d) : r.file = f)
  <2>1. Library(d)' = Library(d) BY DEF Library
  <2>2. \A r \in Library(d) : \E e \in Identities : r \in disk[e]
    BY DocKinds DEF Library, Merge, Remapped
  <2> QED BY <2>1, <2>2
<1>2. \A d \in Remapped : Recorded(d)' = Recorded(d) BY <1>1 DEF Recorded
<1> QED BY <1>2, SameKnows

LEMMA FileSteps ==
  ASSUME AtomInv, LocatedInv, LocatedInv', FoundInv, FoundInv', UNCHANGED disk, OneChange
  PROVE  UNCHANGED <<Where, Knows>> \/ Contract!Next
<1>0. /\ Compatible(disk.journal) /\ fs \in [Paths -> Files \cup {NoFile}] /\ NoFile \notin Files
      /\ \A m \in disk.journal : m.source \in Paths /\ m.target \in Paths
  BY InvTypes, CompatibleSubset, JournalTypes, MappingPaths, ConstantsAssumption
  DEF ControlInv, JournalInv, AtomInv, TypeOK
<1>1. ASSUME \A f \in Files : Held(f)' <=> Held(f) PROVE Knows' = Knows BY <1>1, KnowsByFiles
<1>2. CASE UNCHANGED fs
  <2>1. \A f : Held(f)' <=> Held(f) BY <1>2 DEF Held
  <2>2. \A f, p : At(f, p)' <=> At(f, p) BY <1>2 DEF At
  <2> QED BY <1>1, <2>1, <2>2, SameWhere
<1>3. ASSUME NEW m \in disk.journal, Copies(m) \/ Retracts(m)
      PROVE  UNCHANGED <<Where, Knows>>
  <2>1. /\ \A p \in Paths : p # m.target => fs'[p] = fs[p]
        /\ fs'[m.target] \in {fs[m.source], NoFile}
        /\ ~Present(m.target) \/ fs[m.target] = fs[m.source]
        /\ \A n \in disk.journal : n.source # m.target
    BY <1>0, <1>3, CompatibleFacts DEF Copies, Retracts, Twins, Movable
  <2>2. \A f \in Files : Held(f)' <=> Held(f) BY <1>0, <2>1 DEF Held, Present
  <2>3. ASSUME NEW f \in Files, NEW p \in Paths, At(f, p) PROVE At(f, p)'
    <3>1. p # m.target BY <1>0, <2>1, <2>3 DEF At, Present
    <3> QED BY <1>0, <2>1, <2>3, <3>1 DEF At
  <2> QED BY <1>1, <2>2, <2>3, SameWhere
<1>4. ASSUME NEW m \in disk.journal, Moves(m) \/ Detaches(m) PROVE Contract!Next
  <2>1. PICK f \in Files : fs[m.source] = f
    BY <1>0, <1>4, CompatibleFacts DEF Moves, Detaches, Twins, Movable, Present
  <2>2. /\ \A p \in Paths : p \notin {m.source, m.target} => fs'[p] = fs[p]
        /\ fs'[m.source] = NoFile /\ fs'[m.target] = f /\ m.source # m.target
        /\ ~Present(m.target) \/ fs[m.target] = f
        /\ \A n \in disk.journal : n.source # m.target /\ n.target # m.source
    BY <1>0, <1>4, <2>1, CompatibleFacts DEF Moves, Detaches, Twins, Movable, Renamed, Present
  <2>3. \A g \in Files : Held(g)' <=> Held(g) BY <1>0, <2>1, <2>2 DEF Held, Present
  <2>4. ~At(f, m.target) BY <2>1 DEF At
  <2>5. At(f, m.target)'
    <3>1. \A n \in disk.journal : n.target = m.target => n = m BY <1>0, CompatibleFacts
    <3> QED BY <1>0, <2>2, <3>1 DEF At
  <2>6. ASSUME NEW g \in Files, g # f, NEW q \in Paths, At(g, q) PROVE At(g, q)'
    <3>1. q \notin {m.source, m.target} BY <1>0, <2>1, <2>2, <2>6 DEF At, Present
    <3> QED BY <1>0, <2>2, <2>6, <3>1 DEF At
  <2> QED BY <1>0, <1>1, <2>2, <2>3, <2>4, <2>5, <2>6, Goes
<1>5. ASSUME NEW p \in Paths, NEW f \in Files, Intrude(p, f) PROVE Contract!Next
  <2>1. /\ ~Present(p) /\ ~Held(f) /\ \A q \in Paths : fs'[q] = IF q = p THEN f ELSE fs[q]
        /\ \A d \in Identities : \A r \in disk[d] : r.file # f
        /\ \A n \in disk.journal : n.source # p
    BY <1>0, <1>5 DEF Intrude, Sources
  <2>2. \A g \in Files : g # f => (Held(g)' <=> Held(g)) BY <1>0, <2>1 DEF Held, Present
  <2>3. Knows' = Knows BY <2>1, <2>2, KnowsByFiles
  <2>4. ~At(f, p) BY <2>1 DEF At, Held
  <2>5. At(f, p)' BY <1>0, <2>1 DEF At, Held
  <2>6. ASSUME NEW g \in Files, g # f, NEW q \in Paths, At(g, q) PROVE At(g, q)'
    <3>1. q # p BY <1>0, <2>1, <2>6 DEF At, Present
    <3> QED BY <1>0, <2>1, <2>6, <3>1 DEF At
  <2> QED BY <2>1, <2>2, <2>3, <2>4, <2>5, <2>6, Goes
<1> QED BY <1>2, <1>3, <1>4, <1>5 DEF OneChange

\* The files of rows are not changed by a remap.
LEMMA RemapFiles ==
  ASSUME NEW rows \in SUBSET Rows, NEW ms, NEW f
  PROVE  (\E r \in Remap(rows, ms) : r.file = f) <=> (\E r \in rows : r.file = f)
<1>1. \A r \in rows : RemapRow(r, ms).file = r.file BY DEF RemapRow, Rows
<1> QED BY <1>1 DEF Remap

\* Two identities at one path lead to one file.
LEMMA OneFileAtPath ==
  ASSUME IdentityInv, NEW r \in Rows, NEW s \in Rows, Tracked(r), Tracked(s), Held(r.file),
         Held(s.file), r.path = s.path
  PROVE  r.file = s.file
<1>1. Compatible(disk.journal) BY InvTypes, CompatibleSubset DEF ControlInv, JournalInv
<1>2. Leads(r) /\ Leads(s) BY InvTypes DEF RowsInv, Sound
<1>3. r.file # NoFile /\ s.file # NoFile BY RowFields
<1> QED BY <1>1, <1>2, <1>3, CompatibleFacts DEF Leads, Present

\* A position that is saved teaches the library one file at most.
LEMMA NotedLearns ==
  ASSUME AtomInv, LocatedInv, FoundInv, FoundInv', Where' = Where, UNCHANGED fs, Running, Noted
  PROVE  Contract!Next
<1>0. /\ IdentityInv /\ disk \in Documents /\ op.step = "note" /\ PositionHeld /\ ControlInv
      /\ playing \in Rows \cup {Nothing} /\ \A c \in disk.checkpoint : c.path = playing.path
  BY InvTypes DEF AtomInv, CallInv, TypeOK, TypeInv, Noted
<1>1. /\ playing \in Rows /\ Tracked(playing) /\ Held(playing.file)
      /\ playing.file \in Files
  BY <1>0, RowFields DEF PositionHeld, Saving, ControlInv, PlayInv, Tracked
<1>2. /\ disk'.progress = disk.progress /\ disk'.checkpoint = {playing}
      /\ disk'.history = disk.history
  BY <1>0 DEF Noted, Documents
<1>3. "progress" \in Remapped /\ \A d \in Remapped : d = "progress" \/ d = "history"
  BY DEF Remapped
<1>4. Recorded("history")' = Recorded("history") BY <1>2 DEF Recorded, Library, Held
<1>5. ASSUME NEW r \in Library("progress"), Held(r.file), r.path = playing.path
      PROVE  r.file = playing.file
  <2>1. r \in Rows /\ Tracked(r) BY <1>0, <1>3, LibraryRows
  <2> QED BY <1>0, <1>1, <1>5, <2>1, OneFileAtPath
<1>6. /\ Library("progress") = Merge(disk.progress, disk.checkpoint)
      /\ Library("progress")' = Merge(disk.progress, {playing})
  BY <1>2 DEF Library
<1>7. ASSUME NEW f \in Files
      PROVE  f \in Recorded("progress")' <=> f \in Recorded("progress") \cup {playing.file}
  <2>1. Held(f)' <=> Held(f) BY DEF Held
  <2>2. ASSUME NEW r \in Library("progress"), r.file = f, Held(f), f # playing.file
        PROVE  r \in Library("progress")'
    <3>1. r.path # playing.path BY <1>5, <2>2
    <3> QED BY <1>0, <1>6, <2>2, <3>1 DEF Merge
  <2>3. ASSUME NEW r \in Library("progress")', r # playing
        PROVE  r \in Library("progress")
    BY <1>0, <1>6, <2>3 DEF Merge
  <2>4. playing \in Library("progress")' BY <1>6 DEF Merge
  <2> QED BY <1>1, <2>1, <2>2, <2>3, <2>4 DEF Recorded
<1>8. Recorded("progress")' = Recorded("progress") \cup {playing.file}
  BY <1>1, <1>7 DEF Recorded
<1>9. Knows' = [Knows EXCEPT !["progress"] = @ \cup {playing.file}]
  BY <1>3, <1>4, <1>8 DEF FoundInv
<1>10. Where[playing.file] # NoFile
  <2>1. PICK p \in Paths : At(playing.file, p) BY <1>1 DEF LocatedInv
  <2>2. Location(playing.file) = p BY <1>1, <2>1 DEF LocatedInv
  <2> QED BY <1>1, <2>2, ConstantsAssumption DEF Where
<1> QED BY <1>1, <1>3, <1>9, <1>10 DEF Contract!Next, Contract!Learn, Where, Knows

\* So does an entry of the history.
LEMMA InsertLearns ==
  ASSUME AtomInv, LocatedInv, FoundInv, FoundInv', Where' = Where, UNCHANGED fs, Running, Inserted
  PROVE  Contract!Next
<1>0. /\ disk \in Documents /\ op.step = "insert" /\ PositionHeld /\ ControlInv
      /\ playing \in Rows \cup {Nothing}
  BY InvTypes DEF AtomInv, TypeOK, TypeInv, Inserted
<1>1. playing \in Rows /\ Held(playing.file) /\ playing.file \in Files
  BY <1>0, RowFields DEF PositionHeld, Saving, ControlInv, PlayInv
<1>2. /\ disk'.progress = disk.progress /\ disk'.checkpoint = disk.checkpoint
      /\ disk'.history = disk.history \cup {playing}
  BY <1>0 DEF Inserted, Documents
<1>3. "history" \in Remapped /\ \A d \in Remapped : d = "progress" \/ d = "history"
  BY DEF Remapped
<1>4. Recorded("progress")' = Recorded("progress") BY <1>2 DEF Recorded, Library, Held
<1>5. Library("history") = disk.history /\ Library("history")' = disk'.history BY DEF Library
<1>6. Recorded("history")' = Recorded("history") \cup {playing.file}
  BY <1>1, <1>2, <1>5 DEF Recorded, Held
<1>7. Knows' = [Knows EXCEPT !["history"] = @ \cup {playing.file}]
  BY <1>3, <1>4, <1>6 DEF FoundInv
<1>8. Where[playing.file] # NoFile
  <2>1. PICK p \in Paths : At(playing.file, p) BY <1>1 DEF LocatedInv
  <2>2. Location(playing.file) = p BY <1>1, <2>1 DEF LocatedInv
  <2> QED BY <1>1, <2>2, ConstantsAssumption DEF Where
<1> QED BY <1>1, <1>3, <1>7, <1>8 DEF Contract!Next, Contract!Learn, Where, Knows

\* A write moves no file, and teaches the library one file at most.
LEMMA WriteSteps ==
  ASSUME AtomInv, LocatedInv, LocatedInv', FoundInv, FoundInv', Running, ~blocked, Rewrites,
         UNCHANGED fs
  PROVE  UNCHANGED <<Where, Knows>> \/ Contract!Next
<1>0. TypeOK /\ disk \in Documents /\ NoFile \notin Files
  BY InvTypes, ConstantsAssumption DEF AtomInv, TypeOK
<1>1. ASSUME NEW f \in Files, NEW p \in Paths, At(f, p) PROVE At(f, p)'
  <2>1. CASE disk'.journal \subseteq disk.journal BY <1>1, <2>1 DEF At
  <2>2. ASSUME NEW ms, Adds(ms) PROVE At(f, p)'
    <3>1. disk'.journal = disk.journal \cup ms BY <1>0, <2>2, OtherWrites
    <3>2. \A m \in ms : m.target # p BY <1>0, <1>1, <2>2 DEF Adds, Movable, Present, At
    <3> QED BY <1>1, <3>1, <3>2 DEF At
  <2>3. (\E ms \in SUBSET Mappings : Adds(ms)) \/ disk'.journal \subseteq disk.journal
    BY <1>0, OtherWrites DEF Rewrites
  <2> QED BY <2>1, <2>2, <2>3
<1>2. \A f : Held(f)' <=> Held(f) BY DEF Held
<1>3. Where' = Where BY <1>1, <1>2, SameWhere
<1>4. ASSUME NEW d \in Remapped,
             \A f : (\E r \in Library(d)' : r.file = f) <=> (\E r \in Library(d) : r.file = f)
      PROVE  Recorded(d)' = Recorded(d)
  BY <1>2, <1>4 DEF Recorded
<1>5. /\ \A d \in Remapped : d = "progress" \/ d = "history"
      /\ "progress" \in Remapped /\ "history" \in Remapped
      /\ Library("history") = disk.history /\ Library("history")' = disk'.history
      /\ Library("progress") = Merge(disk.progress, disk.checkpoint)
      /\ Library("progress")' = Merge(disk'.progress, disk'.checkpoint)
  BY DEF Remapped, Library
<1>6. CASE Led("history")
  <2>1. /\ disk'.progress = disk.progress /\ disk'.checkpoint = disk.checkpoint
        /\ disk'.history = Remap(disk.history, op.batch)
    BY <1>0, <1>6, OtherWrites DEF Led, Documents
  <2>2. disk.history \in SUBSET Rows BY <1>0 DEF Documents
  <2>3. \A f : (\E r \in Remap(disk.history, op.batch) : r.file = f) <=>
                (\E r \in disk.history : r.file = f)
    BY <2>2, RemapFiles
  <2>4. Recorded("history")' = Recorded("history") BY <1>4, <1>5, <2>1, <2>3
  <2>5. Recorded("progress")' = Recorded("progress") BY <1>4, <1>5, <2>1
  <2> QED BY <1>3, <1>5, <2>4, <2>5, SameKnows
<1>7. ASSUME disk'.history = disk.history,
             \A f : (\E r \in Library("progress")' : r.file = f) <=>
                      (\E r \in Library("progress") : r.file = f)
      PROVE  UNCHANGED <<Where, Knows>>
  <2>1. Recorded("history")' = Recorded("history") BY <1>4, <1>5, <1>7
  <2>2. Recorded("progress")' = Recorded("progress") BY <1>4, <1>5, <1>7
  <2> QED BY <1>3, <1>5, <2>1, <2>2, SameKnows
<1>8. CASE Settles \/ Withdraws \/ \E ms \in SUBSET Mappings : Adds(ms)
  <2>1. /\ disk'.progress = disk.progress /\ disk'.checkpoint = disk.checkpoint
        /\ disk'.history = disk.history
    BY <1>0, <1>8 DEF Settles, Withdraws, Adds, Documents
  <2> QED BY <1>5, <1>7, <2>1
<1>9. CASE Merged
  <2>1. /\ disk'.progress = Merge(disk.progress, disk.checkpoint)
        /\ disk'.checkpoint = disk.checkpoint /\ disk'.history = disk.history
    BY <1>0, <1>9 DEF Merged, Documents
  <2>2. Library("progress")' = Library("progress") BY <1>5, <2>1, MergeTwice
  <2> QED BY <1>7, <2>1, <2>2
<1>10. \A rows : Merge(rows, {}) = rows BY DEF Merge
<1>11. CASE Cleared
  <2>1. /\ disk'.progress = disk.progress /\ disk'.checkpoint = {}
        /\ disk'.history = disk.history
    BY <1>0, <1>11 DEF Cleared, Documents
  <2>2. Merge(disk.progress, disk.checkpoint) = disk.progress
    BY <1>11 DEF Cleared, AtomInv, CallInv
  <2>3. Library("progress")' = Library("progress") BY <1>5, <1>10, <2>1, <2>2
  <2> QED BY <1>7, <2>1, <2>3
<1>12. CASE Led("progress")
  <2>1. /\ disk'.progress = Remap(disk.progress, op.batch) /\ disk.checkpoint = {}
        /\ disk'.checkpoint = {} /\ disk'.history = disk.history
    BY <1>0, <1>12 DEF Led, Documents
  <2>2. /\ Library("progress") = disk.progress
        /\ Library("progress")' = Remap(disk.progress, op.batch)
    BY <1>5, <1>10, <2>1
  <2>3. disk.progress \in SUBSET Rows BY <1>0 DEF Documents
  <2>4. \A f : (\E r \in Remap(disk.progress, op.batch) : r.file = f) <=>
                (\E r \in disk.progress : r.file = f)
    BY <2>3, RemapFiles
  <2> QED BY <1>7, <2>1, <2>2, <2>4
<1>13. CASE Noted BY <1>3, <1>13, NotedLearns
<1>14. CASE Inserted BY <1>3, <1>14, InsertLearns
<1> QED BY <1>6, <1>8, <1>9, <1>11, <1>12, <1>13, <1>14 DEF Rewrites

LEMMA InitContract ==
  ASSUME InStep, Single PROVE Init => Contract!Init
<1> SUFFICES ASSUME Init PROVE Contract!Init OBVIOUS
<1>1. AtomInv /\ LocatedInv BY AtomInit, AtomFound
<1>2. ASSUME NEW f \in Files
      PROVE  /\ Location(f) \in Paths \cup {NoFile}
             /\ Location(f) # NoFile => At(f, Location(f)) /\ Location(f) \in Paths
  <2>1. CASE Held(f)
    <3>1. PICK p \in Paths : At(f, p) BY <1>1, <2>1 DEF LocatedInv
    <3> QED BY <1>1, <3>1 DEF LocatedInv
  <2>2. CASE ~Held(f) BY <1>1, <2>2 DEF LocatedInv
  <2> QED BY <2>1, <2>2
<1>3. Where \in [Files -> Paths \cup {NoFile}] BY <1>2 DEF Where
<1>4. ASSUME NEW f \in Files, NEW g \in Files, f # g
      PROVE  Where[f] # Where[g] \/ Where[f] = NoFile
  BY <1>2, <1>4 DEF Where, At
<1>5. Knows \in [Remapped -> SUBSET Files] BY DEF Knows
<1> QED BY <1>3, <1>4, <1>5 DEF Contract!Init, Where, Knows

LEMMA StepContract ==
  ASSUME Careful, Clean
  PROVE  /\ AtomInv /\ LocatedInv /\ FoundInv /\ LocatedInv' /\ FoundInv' /\ [Next]_vars
            => [Contract!Next]_<<Where, Knows>>
<1> SUFFICES ASSUME AtomInv, LocatedInv, FoundInv, LocatedInv', FoundInv', [Next]_vars
             PROVE  UNCHANGED <<Where, Knows>> \/ Contract!Next
  OBVIOUS
<1>1. OneWrite /\ OneChange BY WriteNext, ChangeNext DEF AtomInv
<1>2. CASE UNCHANGED disk BY <1>1, <1>2, FileSteps
<1>3. CASE Running /\ ~blocked /\ Rewrites /\ UNCHANGED fs BY <1>3, WriteSteps
<1> QED BY <1>1, <1>2, <1>3 DEF OneWrite

\* Moving is atomic whatever fails or stops in between: seen through the journal,
\* every behaviour of the worker, the controller and the store is one of the
\* contract, in which a file goes to a free path in one step with all that is known
\* about it, and nothing that is known is lost.
THEOREM MovingIsAtomic ==
  ASSUME Careful, InStep, Clean, Single PROVE Spec => MovesAreAtomic
<1>1. Init => AtomInv /\ Contract!Init BY AtomInit, InitContract
<1>2. AtomInv /\ [Next]_vars => AtomInv' BY AtomNext
<1>3. AtomInv => LocatedInv /\ FoundInv BY AtomFound
<1>4. /\ AtomInv /\ LocatedInv /\ FoundInv /\ LocatedInv' /\ FoundInv' /\ [Next]_vars
         => [Contract!Next]_<<Where, Knows>>
  BY StepContract
<1> QED BY <1>1, <1>2, <1>3, <1>4, PTL DEF Spec, MovesAreAtomic, Contract!Spec, Where, Knows
=============================================================================
