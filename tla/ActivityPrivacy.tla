-------------------------- MODULE ActivityPrivacy --------------------------
(***************************************************************************)
(* Switching the saving of activity off and on while workers fill caches   *)
(* and playback saves its progress.  Three copies of the preference have   *)
(* to move together: the shared policy that cache workers lease, the       *)
(* overlay that takes the writes of the state store, and the setting in    *)
(* config.toml.  Workers keep what they learned of the policy when their   *)
(* operation began; each step of a change may fail, and the process may    *)
(* stop between any two.                                                   *)
(***************************************************************************)
EXTENDS Integers, FiniteSets

CONSTANTS
  Jobs,            \* cache workers
  Items,           \* media with a position
  Nobody,          \* no item
  QuitWhileLoading, \* the user may quit while media loads
  Positions,       \* bound: playback positions
  MaxChanges,      \* bound: policy changes of one process
  MaxUnsaved,      \* bound: seconds played and not saved yet
  MaxHeard,        \* bound: seconds played while saving is on
  MaxFaults        \* bound: failures

ASSUME ConstantsAssumption ==
  /\ Nobody \notin Items /\ QuitWhileLoading \in BOOLEAN
  /\ Positions \subseteq Nat /\ 0 \in Positions
  /\ {MaxChanges, MaxUnsaved, MaxHeard, MaxFaults} \subseteq Nat

\* No row, and no overlay.
NoRow == -1
RowsOf == [Items -> Positions \cup {NoRow}]
NoRows == [i \in Items |-> NoRow]
IdleJob == [step |-> "idle", generation |-> 0, private_only |-> FALSE]

VARIABLES
  policy,      \* StorageState: enabled, generation, whether a session directory exists
  job,         \* the cache workers and what for_operation captured
  overlay,     \* the in-memory store of private activity, and whether there is one
  durable,     \* the state directory: rows and seconds
  setting,     \* config.persistence.save_playback_history
  saved,       \* the same in config.toml
  change,      \* the change of preferences in progress
  phase,       \* the process: up or down
  player,      \* current_media, its position and current_playback_progress
  unflushed,   \* unflushed_listen_time, in whole seconds
  elapsed,     \* seconds since last_tick
  crossed,     \* history: the operations that saw saving off
  files,       \* history: what operations wrote under the configuration directory
  seen, heard, \* history: positions reached and seconds played while saving was on
  faults

leases == <<policy, job>>
store == <<overlay, durable>>
preference == <<setting, saved, change>>
playback == <<player, unflushed, elapsed>>
history == <<crossed, files, seen, heard>>
vars == <<leases, store, preference, phase, playback, history, faults>>

Stopped == [item |-> Nobody, position |-> 0, row |-> NoRow, playing |-> FALSE]

Fault == faults < MaxFaults /\ faults' = faults + 1

-----------------------------------------------------------------------------
(* The policy lock *)

\* Reads of the policy that last as long as the file operation.
NoLease_Upgraded ==   \* mutant: the lease is kept while the session directory is made
  \A j \in Jobs : job[j].step \notin {"persistent", "session", "prepare"}
NoLease == \A j \in Jobs : job[j].step \notin {"persistent", "session"}

\* The standard library's lock lets nobody read while somebody waits to write.
WriterWaits ==
  \/ change \in {"disable", "revert", "restore", "enable"}
  \/ \E j \in Jobs : job[j].step = "prepare"

\* set_enabled, once prepare_session has succeeded.
Switch(enabled) ==
  policy' = [enabled |-> enabled, session |-> policy.session \/ ~enabled,
             generation |-> IF policy.enabled = enabled THEN policy.generation
                                                        ELSE policy.generation + 1]

-----------------------------------------------------------------------------
(* Cache workers *)

\* ActivityPath::for_operation
Captured ==
  [step |-> "ready", generation |-> policy.generation, private_only |-> ~policy.enabled]

Begin(j) ==
  /\ job[j].step = "idle" /\ ~WriterWaits
  /\ job' = [job EXCEPT ![j] = Captured]
  /\ crossed' = IF policy.enabled THEN crossed ELSE crossed \cup {j}
  /\ UNCHANGED <<policy, files, seen, heard, faults>>

\* An operation reads and writes its cache under one lease each.
Resolve(j) ==
  /\ job[j].step = "ready"
  /\ job' = [job EXCEPT ![j].step = "path"]
  /\ UNCHANGED <<policy, history, faults>>

\* ActivityPath::with_path: where the operation may go.
Place_Current(j) ==                  \* mutant: only the present policy counts
  IF policy.enabled THEN "persistent" ELSE IF policy.session THEN "session" ELSE "prepare"
Place(j) ==
  IF /\ policy.enabled /\ ~job[j].private_only
     /\ job[j].generation = policy.generation
  THEN "persistent" ELSE IF policy.session THEN "session" ELSE "prepare"

Lease(j) ==
  /\ job[j].step = "path" /\ ~WriterWaits
  /\ job' = [job EXCEPT ![j].step = Place(j)]
  /\ UNCHANGED <<policy, history, faults>>

\* session_directory, between two looks at the policy; its error ends the call.
Prepare_Forgetting(j) ==             \* mutant: the directory is not kept
  /\ job[j].step = "prepare" /\ NoLease
  /\ job' = [job EXCEPT ![j].step = "path"]
  /\ UNCHANGED <<policy, history, faults>>
Prepare(j) ==
  /\ job[j].step = "prepare" /\ NoLease
  /\ \/ /\ policy' = [policy EXCEPT !.session = TRUE]
        /\ job' = [job EXCEPT ![j].step = "path"]
        /\ UNCHANGED faults
     \/ /\ ~policy.session /\ Fault
        /\ job' = [job EXCEPT ![j].step = "ready"]
        /\ UNCHANGED policy
  /\ UNCHANGED history

\* The file operation is over.
Release(j) ==
  /\ job[j].step \in {"persistent", "session"}
  /\ job' = [job EXCEPT ![j].step = "ready"]
  /\ files' = IF job[j].step = "session" THEN files
              ELSE files \cup {IF j \in crossed THEN "private" ELSE "public"}
  /\ UNCHANGED <<policy, crossed, seen, heard, faults>>

End(j) ==
  /\ job[j].step = "ready"
  /\ job' = [job EXCEPT ![j] = IdleJob]
  /\ crossed' = crossed \ {j}
  /\ UNCHANGED <<policy, files, seen, heard, faults>>

-----------------------------------------------------------------------------
(* The state store: StateStore::activity_backend and the lookups *)

\* StateStore::progress: the overlay's row, or else the durable one.
Progress(i) == IF overlay.on /\ overlay.rows[i] # NoRow THEN overlay.rows[i] ELSE durable.rows[i]

\* checkpoint_playback: one row and the seconds of its item.
Save(i, row, seconds) ==
  IF overlay.on
  THEN overlay' = [overlay EXCEPT !.rows[i] = row] /\ UNCHANGED durable
  ELSE /\ durable' = [rows |-> [durable.rows EXCEPT ![i] = row],
                      seconds |-> durable.seconds + seconds]
       /\ UNCHANGED overlay

\* StateStore::set_activity_persistence
Uncovered_Kept ==                    \* mutant: private rows are carried over
  /\ overlay' = [on |-> FALSE, rows |-> NoRows]
  /\ durable' = [durable EXCEPT !.rows =
       [i \in Items |-> IF overlay.rows[i] # NoRow THEN overlay.rows[i] ELSE durable.rows[i]]]
Uncovered == overlay' = [on |-> FALSE, rows |-> NoRows] /\ UNCHANGED durable
Covered == [on |-> TRUE, rows |-> IF overlay.on THEN overlay.rows ELSE NoRows]

-----------------------------------------------------------------------------
(* Playback.  A save is one step here: PlaybackCheckpoint divides it. *)

Ready == phase = "up" /\ change = "idle"

\* Positions are public that playback reached while the setting was on.
Seen(position) ==
  seen' = IF setting THEN [seen EXCEPT ![player.item] = @ \cup {position}] ELSE seen

\* current_progress_at_player_position and the save of its row.
SaveCurrent(position, seconds) ==
  \/ Save(player.item, position, seconds) /\ unflushed' = 0 /\ UNCHANGED faults
  \/ Fault /\ unflushed' = seconds /\ UNCHANGED store

\* resume_position_with_rewind: the saved position, or somewhat before it.
ResumeAt(i) == {p \in Positions : p = 0 \/ p <= Progress(i)}

\* play_queue_item: other media that plays is saved first.
Play(i) ==
  /\ Ready
  /\ IF player.playing /\ player.item # i THEN SaveCurrent(player.position, unflushed)
                                          ELSE UNCHANGED <<store, unflushed, faults>>
  /\ \E start_at \in ResumeAt(i) :
       player' = [item |-> i, position |-> start_at, row |-> start_at, playing |-> FALSE]
  /\ elapsed' = 0
  /\ UNCHANGED history

\* checkpoint_playback_started: the row as it was when playback was requested,
\* or as the last change of the setting left it.
Started ==
  /\ Ready /\ player.item # Nobody /\ ~player.playing
  /\ player' = [player EXCEPT !.playing = TRUE]
  /\ IF player.row = NoRow THEN UNCHANGED <<store, faults>>
     ELSE \/ Save(player.item, player.row, 0) /\ UNCHANGED faults
          \/ Fault /\ UNCHANGED store
  /\ Seen(player.position)
  /\ UNCHANGED <<unflushed, elapsed, crossed, files, heard>>

Second ==
  /\ phase = "up" /\ player.playing
  /\ unflushed + elapsed < MaxUnsaved /\ (setting => heard < MaxHeard)
  /\ elapsed' = elapsed + 1
  /\ heard' = IF setting THEN heard + 1 ELSE heard
  /\ UNCHANGED <<store, player, unflushed, crossed, files, seen, faults>>

\* update_player: a tick accounts the time and may save.
Tick ==
  /\ Ready /\ player.playing
  /\ elapsed' = 0
  /\ \E position \in Positions :
       /\ player' = [player EXCEPT !.position = position]
       /\ Seen(position)
       /\ \/ unflushed' = unflushed + elapsed /\ UNCHANGED <<store, faults>>
          \/ SaveCurrent(position, unflushed + elapsed)
  /\ UNCHANGED <<crossed, files, heard>>

\* The end of playback: what played is accounted and saved.
Stop ==
  /\ Ready /\ player.item # Nobody
  /\ player' = Stopped /\ elapsed' = 0
  /\ IF player.playing
     THEN SaveCurrent(player.position, unflushed + elapsed)
     ELSE UNCHANGED <<store, unflushed, faults>>
  /\ UNCHANGED history

-----------------------------------------------------------------------------
(* Preferences: submit_preferences and apply_activity_persistence *)

\* Live changes are counted, so that only so many generations are told apart.
Submit ==
  /\ Ready /\ policy.generation < MaxChanges
  /\ change' = IF setting THEN "disable" ELSE "save"
  /\ UNCHANGED <<policy, store, setting, saved, playback, faults>>

\* Saving goes off for the workers first: when all leases have ended.
Disable_Leased ==                    \* mutant: the leases are not waited for
  /\ change = "disable"
  /\ Switch(FALSE) /\ change' = "overlay"
  /\ UNCHANGED <<store, setting, saved, playback, faults>>
Disable ==
  /\ change = "disable" /\ NoLease
  /\ \/ Switch(FALSE) /\ change' = "overlay" /\ UNCHANGED faults
     \/ ~policy.session /\ Fault /\ change' = "idle" /\ UNCHANGED policy
  /\ UNCHANGED <<store, setting, saved, playback>>

Cover ==
  /\ change = "overlay"
  /\ \/ overlay' = Covered /\ change' = "save" /\ UNCHANGED faults
     \/ ~overlay.on /\ Fault /\ change' = "revert" /\ UNCHANGED overlay
  /\ UNCHANGED <<policy, durable, setting, saved, playback>>

\* The overlay could not be made: the workers' policy goes back.
Revert ==
  /\ change = "revert" /\ NoLease
  /\ Switch(TRUE) /\ change' = "idle"
  /\ UNCHANGED <<store, setting, saved, playback, faults>>

\* save_tui_preferences: a failed write may have replaced the file or not.
SaveSetting_Unrestored ==            \* mutant: the live policy stays off
  /\ change = "save"
  /\ \/ /\ saved' = ~setting /\ setting' = ~setting
        /\ change' = (IF setting THEN "idle" ELSE "enable")
        /\ unflushed' = (IF setting THEN 0 ELSE unflushed)
        /\ elapsed' = (IF setting THEN 0 ELSE elapsed)
        /\ UNCHANGED faults
     \/ /\ Fault
        /\ saved' \in {saved, ~setting} /\ UNCHANGED <<setting, unflushed, elapsed>>
        /\ change' = "idle"
  /\ UNCHANGED <<policy, store, player>>
SaveSetting ==
  /\ change = "save"
  /\ \/ /\ saved' = ~setting /\ setting' = ~setting
        /\ change' = (IF setting THEN "idle" ELSE "enable")
        /\ unflushed' = (IF setting THEN 0 ELSE unflushed)
        /\ elapsed' = (IF setting THEN 0 ELSE elapsed)
        /\ UNCHANGED faults
     \/ /\ Fault
        /\ saved' \in {saved, ~setting} /\ UNCHANGED <<setting, unflushed, elapsed>>
        /\ change' = (IF setting THEN "restore" ELSE "idle")
  /\ UNCHANGED <<policy, store, player>>

\* The setting could not be saved: both live copies go back.
Restore ==
  /\ change = "restore" /\ NoLease
  /\ Switch(TRUE) /\ Uncovered /\ change' = "idle"
  /\ UNCHANGED <<setting, saved, playback, faults>>

\* Saving goes on after it is saved; nothing private is carried over.
Enable_Counting ==                   \* mutant: the unsaved time is kept
  /\ change = "enable" /\ NoLease
  /\ Switch(TRUE) /\ Uncovered /\ change' = "idle"
  /\ player' = [player EXCEPT !.row = IF player.item = Nobody THEN NoRow
                                      ELSE durable'.rows[player.item]]
  /\ UNCHANGED <<setting, saved, unflushed, elapsed, faults>>
Enable ==
  /\ change = "enable" /\ NoLease
  /\ Switch(TRUE) /\ Uncovered /\ change' = "idle"
  /\ unflushed' = 0 /\ elapsed' = 0
  /\ player' = [player EXCEPT !.row = IF player.item = Nobody THEN NoRow
                                      ELSE durable'.rows[player.item]]
  /\ UNCHANGED <<setting, saved, faults>>

-----------------------------------------------------------------------------
(* The process *)

\* shutdown: whatever plays or loads is saved.
Close ==
  /\ Ready /\ phase' = "down"
  /\ QuitWhileLoading \/ player.playing \/ player.item = Nobody
  /\ IF player.item = Nobody THEN UNCHANGED <<store, unflushed, faults>>
                             ELSE SaveCurrent(player.position, unflushed)
  /\ UNCHANGED <<leases, preference, player, elapsed, history>>

Crash ==
  /\ phase = "up" /\ phase' = "down"
  /\ UNCHANGED <<leases, store, preference, playback, history, faults>>

\* AppController::new: the saved setting applies to the workers and to the store.
Start ==
  /\ phase = "down" /\ phase' = "up"
  /\ policy' = [enabled |-> saved, generation |-> 0, session |-> FALSE]
  /\ job' = [j \in Jobs |-> IdleJob] /\ crossed' = {}
  /\ overlay' = [on |-> ~saved, rows |-> NoRows]
  /\ setting' = saved /\ change' = "idle"
  /\ player' = Stopped /\ unflushed' = 0 /\ elapsed' = 0
  /\ UNCHANGED <<durable, saved, files, seen, heard, faults>>

Init ==
  /\ policy = [enabled |-> TRUE, generation |-> 0, session |-> FALSE]
  /\ job = [j \in Jobs |-> IdleJob] /\ crossed = {}
  /\ overlay = [on |-> FALSE, rows |-> NoRows]
  /\ durable = [rows |-> NoRows, seconds |-> 0]
  /\ setting = TRUE /\ saved = TRUE /\ change = "idle" /\ phase = "up"
  /\ player = Stopped /\ unflushed = 0 /\ elapsed = 0
  /\ files = {} /\ seen = [i \in Items |-> {}] /\ heard = 0 /\ faults = 0

\* Operations that run while saving goes off have seen it off.
JobStep ==
  /\ phase = "up"
  /\ \E j \in Jobs : Begin(j) \/ Resolve(j) \/ Lease(j) \/ Prepare(j) \/ Release(j) \/ End(j)
  /\ UNCHANGED <<store, preference, phase, playback>>

PlaybackStep ==
  /\ (\E i \in Items : Play(i)) \/ Started \/ Second \/ Tick \/ Stop
  /\ UNCHANGED <<leases, preference, phase, crossed, files>>

Running == {j \in Jobs : job[j].step # "idle"}

ChangeStep ==
  /\ phase = "up"
  /\ Submit \/ Disable \/ Cover \/ Revert \/ SaveSetting \/ Restore \/ Enable
  /\ crossed' = IF policy'.enabled THEN crossed ELSE crossed \cup Running
  /\ seen' = IF change = "enable" /\ player.playing
             THEN [seen EXCEPT ![player.item] = @ \cup {player.position}] ELSE seen
  /\ UNCHANGED <<job, phase, files, heard>>

Next == JobStep \/ PlaybackStep \/ ChangeStep \/ Close \/ Crash \/ Start

Spec == Init /\ [][Next]_vars

\* File operations end, and so do the steps of a change.
FairSpec ==
  /\ Spec
  /\ \A j \in Jobs :
       /\ WF_vars(JobStep /\ job[j].step \in {"prepare", "persistent", "session"} /\ job'[j] # job[j])
       /\ SF_vars(JobStep /\ job[j].step = "path" /\ job'[j] # job[j])
  /\ WF_vars(ChangeStep /\ change # "idle")

-----------------------------------------------------------------------------
\* Every variable keeps its shape.
TypeOK ==
  /\ policy \in [enabled : BOOLEAN, generation : Nat, session : BOOLEAN]
  /\ job \in [Jobs -> [step : {"idle", "ready", "path", "prepare", "persistent", "session"},
                       generation : Nat, private_only : BOOLEAN]]
  /\ overlay \in [on : BOOLEAN, rows : RowsOf]
  /\ durable \in [rows : RowsOf, seconds : Nat]
  /\ setting \in BOOLEAN /\ saved \in BOOLEAN
  /\ change \in {"idle", "disable", "overlay", "revert", "save", "restore", "enable"}
  /\ phase \in {"up", "down"}
  /\ player \in [item : Items \cup {Nobody}, position : Positions,
                 row : Positions \cup {NoRow}, playing : BOOLEAN]
  /\ player.playing => player.item # Nobody
  /\ unflushed \in Nat /\ elapsed \in Nat
  /\ crossed \subseteq Jobs /\ files \subseteq {"public", "private"}
  /\ seen \in [Items -> SUBSET Positions] /\ heard \in Nat /\ faults \in 0..MaxFaults

-----------------------------------------------------------------------------
(* What must hold *)

\* An operation that saw saving off, at its start or later, leaves nothing under
\* the configuration directory, even if saving is on again when it writes.
NothingPrivateKept == "private" \notin files

\* While saving is off, whatever runs, neither the caches nor the records of
\* the configuration directory change.
OffIsSilent == [][~setting /\ ~setting' /\ phase = "up"
                    => UNCHANGED <<files, durable.rows, durable.seconds>>]_vars

\* Every position on disk past the beginning is one that playback reached while
\* saving was on.
PublicPositionsOnly == \A i \in Items : durable.rows[i] \in seen[i] \cup {NoRow, 0}

\* Every second on disk, or still to be saved there, was played while saving was on.
PublicSecondsOnly ==
  durable.seconds + (IF phase = "up" /\ Ready /\ setting THEN unflushed + elapsed ELSE 0) <= heard

\* Between changes, failed ones included, the three copies agree.
OnePolicy == Ready => policy.enabled = setting /\ overlay.on = ~setting

\* A file operation gets its directory, or an error, whatever the policy does.
LeasesEnd ==
  \A j \in Jobs : job[j].step \notin {"idle", "ready"}
                    ~> job[j].step \in {"idle", "ready"} \/ phase # "up"

\* A change of the preference ends.
ChangesEnd == change # "idle" ~> change = "idle" \/ phase # "up"
=============================================================================
