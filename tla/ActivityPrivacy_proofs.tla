----------------------- MODULE ActivityPrivacy_proofs -----------------------
(***************************************************************************)
(* Proofs about ActivityPrivacy, for any number of workers, items, policy  *)
(* changes and failures.                                                   *)
(***************************************************************************)
EXTENDS ActivityPrivacy, TLAPS

-----------------------------------------------------------------------------
(* Shapes *)

Policies == [enabled : BOOLEAN, generation : Nat, session : BOOLEAN]
JobStates == [step : {"idle", "ready", "path", "prepare", "persistent", "session"},
              generation : Nat, private_only : BOOLEAN]
Overlays == [on : BOOLEAN, rows : RowsOf]
Durables == [rows : RowsOf, seconds : Nat]
Players == [item : Items \cup {Nobody}, position : Positions,
            row : Positions \cup {NoRow}, playing : BOOLEAN]
Changes == {"idle", "disable", "overlay", "revert", "save", "restore", "enable"}

LEMMA ConstantTypes ==
  /\ MaxUnsaved \in Nat /\ MaxHeard \in Nat /\ MaxFaults \in Nat
  /\ Positions \subseteq Nat /\ 0 \in Positions /\ Nobody \notin Items
BY ConstantsAssumption

\* A change of the policy.
LEMMA SwitchType ==
  ASSUME policy \in Policies, NEW enabled \in BOOLEAN, Switch(enabled)
  PROVE  /\ policy' \in Policies
         /\ policy'.enabled = enabled
         /\ policy'.generation >= policy.generation
         /\ policy.enabled # enabled => policy'.generation > policy.generation
BY DEF Switch, Policies

\* One row of an overlay, or of the state directory.
LEMMA RowType ==
  ASSUME NEW rows \in RowsOf, NEW i \in Items, NEW row \in Positions \cup {NoRow}
  PROVE  [rows EXCEPT ![i] = row] \in RowsOf
BY DEF RowsOf

LEMMA OverlayRowType ==
  ASSUME overlay \in Overlays, NEW i \in Items, NEW row \in Positions \cup {NoRow},
         NEW next, next = [overlay EXCEPT !.rows[i] = row]
  PROVE  next \in Overlays /\ next.on = overlay.on
<1>1. next = [overlay EXCEPT !.rows = [overlay.rows EXCEPT ![i] = row]]
  OBVIOUS
<1>2. [overlay.rows EXCEPT ![i] = row] \in RowsOf
  BY RowType DEF Overlays
<1> QED
  BY <1>1, <1>2 DEF Overlays

\* A save goes to one of the two places.
LEMMA SaveType ==
  ASSUME overlay \in Overlays, durable \in Durables, NEW i \in Items,
         NEW row \in Positions \cup {NoRow}, NEW seconds \in Nat, Save(i, row, seconds)
  PROVE  /\ overlay' \in Overlays /\ overlay'.on = overlay.on
         /\ durable' \in Durables
         /\ IF overlay.on THEN durable' = durable
                          ELSE durable'.seconds = durable.seconds + seconds
<1>1. CASE overlay.on
  BY <1>1, OverlayRowType DEF Save
<1>2. CASE ~overlay.on
  <2>1. [durable.rows EXCEPT ![i] = row] \in RowsOf
    BY RowType DEF Durables
  <2> QED
    BY <1>2, <2>1 DEF Save, Durables
<1> QED
  BY <1>1, <1>2

\* The position of what plays: saved, or kept back with its seconds.
LEMMA SaveCurrentType ==
  ASSUME TypeOK, player.item # Nobody, NEW position \in Positions, NEW seconds \in Nat,
         SaveCurrent(position, seconds)
  PROVE  /\ overlay' \in Overlays /\ overlay'.on = overlay.on
         /\ durable' \in Durables
         /\ unflushed' \in Nat /\ faults' \in 0..MaxFaults
         /\ \/ durable' = durable /\ unflushed' \in {0, seconds}
            \/ ~overlay.on /\ durable'.seconds = durable.seconds + seconds /\ unflushed' = 0
<1> USE ConstantTypes
<1>1. /\ overlay \in Overlays /\ durable \in Durables /\ player.item \in Items
      /\ faults \in 0..MaxFaults
  BY DEF TypeOK, Overlays, Durables
<1>2. CASE Save(player.item, position, seconds) /\ unflushed' = 0 /\ UNCHANGED faults
  BY <1>1, <1>2, SaveType
<1>3. CASE Fault /\ unflushed' = seconds /\ UNCHANGED store
  BY <1>1, <1>3 DEF Fault, store
<1> QED
  BY <1>2, <1>3 DEF SaveCurrent

LEMMA FaultType ==
  ASSUME faults \in 0..MaxFaults, Fault \/ UNCHANGED faults
  PROVE  faults' \in 0..MaxFaults
BY ConstantTypes DEF Fault

LEMMA SeenType ==
  ASSUME TypeOK, player.item # Nobody, NEW position \in Positions, Seen(position)
  PROVE  seen' \in [Items -> SUBSET Positions]
BY DEF TypeOK, Seen

-----------------------------------------------------------------------------
(* Every variable keeps its shape *)

LEMMA JobType ==
  ASSUME TypeOK, JobStep
  PROVE  TypeOK'
<1> USE ConstantTypes
<1> SUFFICES ASSUME NEW j \in Jobs,
                    \/ Begin(j) \/ Resolve(j) \/ Lease(j) \/ Prepare(j) \/ Release(j) \/ End(j)
             PROVE  TypeOK'
  BY DEF JobStep
<1>1. UNCHANGED <<overlay, durable, setting, saved, change, phase, player, unflushed, elapsed>>
  BY DEF JobStep, store, preference, playback
<1>2. job \in [Jobs -> JobStates] /\ policy \in Policies
  BY DEF TypeOK, JobStates, Policies
<1>3. CASE Begin(j)
  <2>1. Captured \in JobStates
    BY <1>2 DEF Captured, JobStates, Policies
  <2>2. job' \in [Jobs -> JobStates]
    BY <1>2, <1>3, <2>1 DEF Begin
  <2> QED
    BY <1>1, <1>3, <2>2 DEF TypeOK, Begin, JobStates
<1>4. CASE Resolve(j)
  <2>1. job' \in [Jobs -> JobStates]
    BY <1>2, <1>4 DEF Resolve, JobStates
  <2> QED
    BY <1>1, <1>4, <2>1 DEF TypeOK, Resolve, JobStates, history
<1>5. CASE Lease(j)
  <2>1. Place(j) \in {"persistent", "session", "prepare"}
    BY DEF Place
  <2>2. job' \in [Jobs -> JobStates]
    BY <1>2, <1>5, <2>1 DEF Lease, JobStates
  <2> QED
    BY <1>1, <1>5, <2>2 DEF TypeOK, Lease, JobStates, history
<1>6. CASE Prepare(j)
  <2>1. job' \in [Jobs -> JobStates]
    BY <1>2, <1>6 DEF Prepare, JobStates
  <2>2. policy' \in Policies
    BY <1>2, <1>6 DEF Prepare, Policies
  <2>3. faults' \in 0..MaxFaults
    BY <1>6 DEF Prepare, Fault, TypeOK
  <2> QED
    BY <1>1, <1>6, <2>1, <2>2, <2>3 DEF TypeOK, Prepare, JobStates, Policies, history
<1>7. CASE Release(j)
  <2>1. job' \in [Jobs -> JobStates]
    BY <1>2, <1>7 DEF Release, JobStates
  <2> QED
    BY <1>1, <1>7, <2>1 DEF TypeOK, Release, JobStates
<1>8. CASE End(j)
  <2>1. IdleJob \in JobStates
    BY DEF IdleJob, JobStates
  <2>2. job' \in [Jobs -> JobStates]
    BY <1>2, <1>8, <2>1 DEF End
  <2> QED
    BY <1>1, <1>8, <2>2 DEF TypeOK, End, JobStates
<1> QED
  BY <1>3, <1>4, <1>5, <1>6, <1>7, <1>8

LEMMA PlaybackType ==
  ASSUME TypeOK, PlaybackStep
  PROVE  TypeOK' /\ overlay'.on = overlay.on
<1> USE ConstantTypes
<1>1. UNCHANGED <<policy, job, setting, saved, change, phase, crossed, files>>
  BY DEF PlaybackStep, leases, preference
<1>2. /\ overlay \in Overlays /\ durable \in Durables /\ player \in Players
      /\ player.playing => player.item # Nobody
      /\ unflushed \in Nat /\ elapsed \in Nat /\ heard \in Nat /\ faults \in 0..MaxFaults
  BY DEF TypeOK, Overlays, Durables, Players
<1>3. CASE \E i \in Items : Play(i)
  <2> PICK i \in Items : Play(i)
    BY <1>3
  <2>1. /\ overlay' \in Overlays /\ overlay'.on = overlay.on /\ durable' \in Durables
        /\ unflushed' \in Nat /\ faults' \in 0..MaxFaults
    BY <1>2, SaveCurrentType DEF Play, Players, store
  <2>2. player' \in Players /\ player'.item # Nobody
    BY DEF Play, ResumeAt, Players
  <2> QED
    BY <1>1, <1>2, <2>1, <2>2 DEF TypeOK, Play, history, Overlays, Durables, Players
<1>4. CASE Started
  <2>1. player.row # NoRow => player.item \in Items /\ player.row \in Positions \cup {NoRow}
    BY <1>2, <1>4 DEF Started, Players
  <2>2. /\ overlay' \in Overlays /\ overlay'.on = overlay.on /\ durable' \in Durables
        /\ faults' \in 0..MaxFaults
    BY <1>2, <1>4, <2>1, SaveType DEF Started, store, Fault
  <2>3. player' \in Players /\ player'.item # Nobody
    BY <1>2, <1>4 DEF Started, Players
  <2>4. seen' \in [Items -> SUBSET Positions]
    BY <1>2, <1>4, SeenType DEF Started, Players
  <2> QED
    BY <1>1, <1>2, <1>4, <2>2, <2>3, <2>4 DEF TypeOK, Started, Overlays, Durables, Players
<1>5. CASE Second
  BY <1>1, <1>5 DEF TypeOK, Second, store
<1>6. CASE Tick
  <2> PICK position \in Positions :
         /\ player' = [player EXCEPT !.position = position]
         /\ Seen(position)
         /\ \/ unflushed' = unflushed + elapsed /\ UNCHANGED <<store, faults>>
            \/ SaveCurrent(position, unflushed + elapsed)
    BY <1>6 DEF Tick
  <2>1. player.item # Nobody /\ unflushed + elapsed \in Nat
    BY <1>2, <1>6 DEF Tick
  <2>2. /\ overlay' \in Overlays /\ overlay'.on = overlay.on /\ durable' \in Durables
        /\ unflushed' \in Nat /\ faults' \in 0..MaxFaults
    BY <1>2, <2>1, SaveCurrentType DEF store
  <2>3. player' \in Players /\ player'.item = player.item
    BY <1>2 DEF Players
  <2>4. seen' \in [Items -> SUBSET Positions]
    BY <2>1, SeenType
  <2> QED
    BY <1>1, <1>2, <1>6, <2>1, <2>2, <2>3, <2>4 DEF TypeOK, Tick, Overlays, Durables, Players
<1>7. CASE Stop
  <2>1. /\ overlay' \in Overlays /\ overlay'.on = overlay.on /\ durable' \in Durables
        /\ unflushed' \in Nat /\ faults' \in 0..MaxFaults
    <3>1. player.item # Nobody /\ unflushed + elapsed \in Nat /\ player.position \in Positions
      BY <1>2, <1>7 DEF Stop, Players
    <3> QED
      BY <1>2, <1>7, <3>1, SaveCurrentType DEF Stop, store
  <2>2. Stopped \in Players /\ ~Stopped.playing
    BY DEF Stopped, Players
  <2> QED
    BY <1>1, <1>2, <1>7, <2>1, <2>2 DEF TypeOK, Stop, history, Overlays, Durables, Players
<1> QED
  BY <1>3, <1>4, <1>5, <1>6, <1>7 DEF PlaybackStep

LEMMA ChangeType ==
  ASSUME TypeOK, ChangeStep
  PROVE  TypeOK'
<1> USE ConstantTypes
<1>1. UNCHANGED <<job, phase, files, heard>> /\ crossed' \subseteq Jobs
  BY DEF ChangeStep, Running, TypeOK
<1>2. /\ overlay \in Overlays /\ durable \in Durables /\ player \in Players
      /\ policy \in Policies /\ setting \in BOOLEAN /\ saved \in BOOLEAN
      /\ player.playing => player.item # Nobody
      /\ unflushed \in Nat /\ elapsed \in Nat /\ faults \in 0..MaxFaults
      /\ seen \in [Items -> SUBSET Positions]
  BY DEF TypeOK, Overlays, Durables, Players, Policies
<1>3. seen' \in [Items -> SUBSET Positions]
  BY <1>2 DEF ChangeStep, Players
<1>4. CASE Submit
  BY <1>1, <1>2, <1>3, <1>4 DEF Submit, TypeOK, store, playback
<1>5. CASE Disable
  <2>1. policy' \in Policies
    BY <1>2, <1>5, SwitchType DEF Disable
  <2>2. faults' \in 0..MaxFaults /\ change' \in Changes
    <3>1. (Fault \/ UNCHANGED faults) /\ change' \in {"overlay", "idle"}
      BY <1>5 DEF Disable
    <3> QED
      BY <1>2, <3>1, FaultType DEF Changes
  <2> QED
    BY <1>1, <1>3, <1>5, <2>1, <2>2 DEF Disable, TypeOK, store, playback, Policies, Changes
<1>6. CASE Cover
  <2>1. Covered \in Overlays
    BY <1>2 DEF Covered, Overlays, NoRows, RowsOf
  <2>2. overlay' \in Overlays /\ faults' \in 0..MaxFaults /\ change' \in Changes
    BY <1>2, <1>6, <2>1 DEF Cover, Fault, Changes
  <2> QED
    BY <1>1, <1>3, <1>6, <2>2 DEF Cover, TypeOK, playback, Overlays, Changes
<1>7. CASE Revert
  <2>1. policy' \in Policies
    BY <1>2, <1>7, SwitchType DEF Revert
  <2> QED
    BY <1>1, <1>3, <1>7, <2>1 DEF Revert, TypeOK, store, playback, Policies
<1>8. CASE SaveSetting
  <2>1. /\ saved' \in BOOLEAN /\ setting' \in BOOLEAN /\ change' \in Changes
        /\ unflushed' \in Nat /\ elapsed' \in Nat /\ faults' \in 0..MaxFaults
    <3>1. Fault \/ UNCHANGED faults
      BY <1>8 DEF SaveSetting
    <3>2. faults' \in 0..MaxFaults
      BY <1>2, <3>1, FaultType
    <3>3. /\ saved' \in {saved, ~setting} /\ setting' \in {setting, ~setting}
          /\ change' \in {"idle", "enable", "restore"}
          /\ unflushed' \in {0, unflushed} /\ elapsed' \in {0, elapsed}
      BY <1>8 DEF SaveSetting
    <3>4. (~setting) \in BOOLEAN
      OBVIOUS
    <3>5. saved' \in BOOLEAN /\ setting' \in BOOLEAN
      BY <1>2, <3>3, <3>4
    <3> QED
      BY <1>2, <3>2, <3>3, <3>5 DEF Changes
  <2> QED
    BY <1>1, <1>3, <1>8, <2>1 DEF SaveSetting, TypeOK, store, Changes
<1>9. [on |-> FALSE, rows |-> NoRows] \in Overlays
  BY DEF Overlays, NoRows, RowsOf
<1>10. CASE Restore
  <2>1. policy' \in Policies
    BY <1>2, <1>10, SwitchType DEF Restore
  <2> QED
    BY <1>1, <1>3, <1>9, <1>10, <2>1 DEF Restore, Uncovered, TypeOK, playback, Policies, Overlays
<1>11. CASE Enable
  <2>1. policy' \in Policies
    BY <1>2, <1>11, SwitchType DEF Enable
  <2>2. overlay' \in Overlays /\ durable' = durable
    BY <1>9, <1>11 DEF Enable, Uncovered
  <2>3. (IF player.item = Nobody THEN NoRow ELSE durable'.rows[player.item])
           \in Positions \cup {NoRow}
    BY <1>2, <2>2 DEF Players, Durables, RowsOf
  <2>4. player' \in Players /\ player'.item = player.item /\ player'.playing = player.playing
    BY <1>2, <1>11, <2>3 DEF Enable, Players
  <2> QED
    BY <1>1, <1>2, <1>3, <1>11, <2>1, <2>2, <2>4
       DEF Enable, TypeOK, Policies, Overlays, Durables, Players
<1> QED
  BY <1>4, <1>5, <1>6, <1>7, <1>8, <1>10, <1>11 DEF ChangeStep

LEMMA ProcessType ==
  ASSUME TypeOK, Close \/ Crash \/ Start
  PROVE  TypeOK'
<1> USE ConstantTypes
<1>1. CASE Close
  <2>1. /\ overlay \in Overlays /\ durable \in Durables /\ player.position \in Positions
        /\ unflushed \in Nat /\ faults \in 0..MaxFaults
    BY DEF TypeOK, Overlays, Durables
  <2>2. /\ overlay' \in Overlays /\ durable' \in Durables
        /\ unflushed' \in Nat /\ faults' \in 0..MaxFaults
    BY <1>1, <2>1, SaveCurrentType DEF Close, store
  <2> QED
    BY <1>1, <2>2 DEF Close, TypeOK, leases, preference, history, Overlays, Durables
<1>2. CASE Crash
  BY <1>2 DEF Crash, TypeOK, leases, store, preference, playback, history
<1>3. CASE Start
  <2>1. /\ [j \in Jobs |-> IdleJob] \in [Jobs -> JobStates]
        /\ [on |-> ~saved, rows |-> NoRows] \in Overlays
        /\ [enabled |-> saved, generation |-> 0, session |-> FALSE] \in Policies
        /\ Stopped \in Players /\ ~Stopped.playing
    BY DEF IdleJob, JobStates, Overlays, NoRows, RowsOf, Policies, Stopped, Players, TypeOK
  <2> QED
    BY <1>3, <2>1 DEF Start, TypeOK, JobStates, Overlays, Policies, Players
<1> QED
  BY <1>1, <1>2, <1>3

\* The workers, the store, the preference, the player and the histories keep
\* their shapes in every step of the program.
THEOREM Typed == Spec => []TypeOK
<1> USE ConstantTypes
<1>1. Init => TypeOK
  BY DEF Init, TypeOK, IdleJob, NoRows, RowsOf, Stopped
<1>2. TypeOK /\ [Next]_vars => TypeOK'
  <2>1. ASSUME TypeOK, UNCHANGED vars PROVE TypeOK'
    BY <2>1 DEF TypeOK, vars, leases, store, preference, playback, history
  <2> QED
    BY <2>1, JobType, PlaybackType, ChangeType, ProcessType DEF Next
<1> QED
  BY <1>1, <1>2, PTL DEF Spec

-----------------------------------------------------------------------------
(* The three copies of the preference *)

\* What the copies say at each step of a change.
PolicyInv ==
  /\ change = "idle" => (policy.enabled <=> setting) /\ (overlay.on <=> ~setting)
  /\ change = "disable" => setting /\ policy.enabled /\ ~overlay.on
  /\ change \in {"overlay", "revert"} => setting /\ ~policy.enabled /\ ~overlay.on
  /\ change = "save" => ~policy.enabled /\ overlay.on
  /\ change \in {"restore", "enable"} => setting /\ ~policy.enabled /\ overlay.on

LEMMA PolicyInvKept ==
  ASSUME TypeOK, PolicyInv, [Next]_vars
  PROVE  PolicyInv'
<1>1. policy \in Policies /\ setting \in BOOLEAN /\ overlay \in Overlays /\ saved \in BOOLEAN
  BY DEF TypeOK, Policies, Overlays
<1>2. CASE JobStep
  <2>1. policy'.enabled = policy.enabled
    BY <1>1, <1>2 DEF JobStep, Begin, Resolve, Lease, Prepare, Release, End, Policies
  <2> QED
    BY <1>2, <2>1 DEF JobStep, store, preference, PolicyInv
<1>3. CASE PlaybackStep
  BY <1>3, PlaybackType DEF PlaybackStep, leases, preference, PolicyInv
<1>4. CASE ChangeStep
  <2>1. CASE Submit
    BY <1>1, <2>1 DEF Submit, Ready, store, PolicyInv
  <2>2. CASE Disable
    BY <1>1, <2>2, SwitchType DEF Disable, store, PolicyInv
  <2>3. CASE Cover
    BY <2>3 DEF Cover, Covered, PolicyInv
  <2>4. CASE Revert
    BY <1>1, <2>4, SwitchType DEF Revert, store, PolicyInv
  <2>5. CASE SaveSetting
    <3>1. change = "save" /\ UNCHANGED <<policy, overlay>>
      BY <2>5 DEF SaveSetting, store
    <3>2. \/ change' = "idle" /\ setting' = FALSE
          \/ change' = "enable" /\ setting' = TRUE
          \/ change' = "restore" /\ setting' = TRUE
      <4>1. CASE setting
        BY <1>1, <2>5, <4>1 DEF SaveSetting
      <4>2. CASE ~setting
        BY <1>1, <2>5, <4>2 DEF SaveSetting
      <4> QED
        BY <4>1, <4>2
    <3> QED
      BY <1>1, <3>1, <3>2 DEF PolicyInv
  <2>6. CASE Restore
    BY <1>1, <2>6, SwitchType DEF Restore, Uncovered, PolicyInv
  <2>7. CASE Enable
    BY <1>1, <2>7, SwitchType DEF Enable, Uncovered, PolicyInv
  <2> QED
    BY <1>4, <2>1, <2>2, <2>3, <2>4, <2>5, <2>6, <2>7 DEF ChangeStep
<1>5. CASE Close
  <2>1. overlay'.on = overlay.on
    <3>1. player.position \in Positions /\ unflushed \in Nat
      BY DEF TypeOK
    <3> QED
      BY <1>5, <3>1, SaveCurrentType DEF Close, store
  <2> QED
    BY <1>5, <2>1 DEF Close, leases, preference, PolicyInv
<1>6. CASE Crash
  BY <1>6 DEF Crash, leases, store, preference, PolicyInv
<1>7. CASE Start
  BY <1>1, <1>7 DEF Start, PolicyInv
<1>8. CASE UNCHANGED vars
  BY <1>8 DEF vars, leases, store, preference, PolicyInv
<1> QED
  BY <1>2, <1>3, <1>4, <1>5, <1>6, <1>7, <1>8 DEF Next

\* Between changes of the preference, and after failed ones, the cache workers'
\* policy, the state store's overlay and the configuration agree.
THEOREM OnePolicyAlways == Spec => []OnePolicy
<1>1. Init => PolicyInv
  BY DEF Init, PolicyInv
<1>2. TypeOK /\ PolicyInv => OnePolicy
  <2> SUFFICES ASSUME TypeOK, PolicyInv, Ready
               PROVE  policy.enabled = setting /\ overlay.on = ~setting
    BY DEF OnePolicy
  <2>1. policy.enabled \in BOOLEAN /\ overlay.on \in BOOLEAN /\ setting \in BOOLEAN
    BY DEF TypeOK
  <2>2. (policy.enabled <=> setting) /\ (overlay.on <=> ~setting)
    BY DEF PolicyInv, Ready
  <2> QED
    BY <2>1, <2>2
<1> QED
  BY <1>1, <1>2, Typed, PolicyInvKept, PTL DEF Spec

-----------------------------------------------------------------------------
(* Nothing private is kept by the caches *)

\* An operation that could still write under the configuration directory began
\* in the present generation of the policy, and has never seen saving off.
LeaseInv ==
  /\ \A j \in Jobs : IF job[j].step = "idle" THEN j \notin crossed
                     ELSE job[j].generation <= policy.generation
  /\ \A j \in Jobs : /\ job[j].step # "idle" /\ policy.enabled /\ ~job[j].private_only
                     /\ job[j].generation = policy.generation
                     => j \notin crossed
  /\ \A j \in Jobs : job[j].step = "persistent" =>
       policy.enabled /\ ~job[j].private_only /\ job[j].generation = policy.generation
  /\ NothingPrivateKept

\* A switch that moves to another generation leaves nobody such an operation.
LEMMA SwitchKeepsLeases ==
  ASSUME TypeOK, LeaseInv, NEW enabled \in BOOLEAN, Switch(enabled), NoLease,
         policy.enabled # enabled, UNCHANGED <<job, files>>,
         crossed' = IF policy'.enabled THEN crossed ELSE crossed \cup Running
  PROVE  LeaseInv'
<1>1. policy \in Policies /\ job \in [Jobs -> JobStates]
  BY DEF TypeOK, Policies, JobStates
<1>2. policy' \in Policies /\ policy'.generation > policy.generation
  BY <1>1, SwitchType
<1>3. ASSUME NEW j \in Jobs, job[j].step # "idle"
      PROVE  job[j].generation < policy'.generation
  <2>1. job[j].generation \in Nat /\ job[j].generation <= policy.generation
    BY <1>1, <1>3 DEF LeaseInv, JobStates
  <2> QED
    BY <1>1, <1>2, <2>1 DEF Policies
<1>4. ASSUME NEW j \in Jobs, job[j].step # "idle"
      PROVE  /\ job[j].generation <= policy'.generation
             /\ job[j].generation # policy'.generation
             /\ job[j].step # "persistent"
  <2>1. job[j].generation \in Nat /\ policy'.generation \in Nat
    BY <1>1, <1>2 DEF JobStates, Policies
  <2> QED
    BY <1>3, <1>4, <2>1 DEF NoLease
<1> QED
  BY <1>4 DEF LeaseInv, NothingPrivateKept, Running

\* A step of a change that leaves the policy alone.
LEMMA SamePolicyKeepsLeases ==
  ASSUME TypeOK, LeaseInv, UNCHANGED <<policy, job, files>>,
         crossed' = IF policy'.enabled THEN crossed ELSE crossed \cup Running
  PROVE  LeaseInv'
BY DEF LeaseInv, NothingPrivateKept, Running

LEMMA JobKeepsLeases ==
  ASSUME TypeOK, LeaseInv, JobStep
  PROVE  LeaseInv'
<1> SUFFICES ASSUME NEW j \in Jobs,
                    \/ Begin(j) \/ Resolve(j) \/ Lease(j) \/ Prepare(j) \/ Release(j) \/ End(j)
             PROVE  LeaseInv'
  BY DEF JobStep
<1>1. job \in [Jobs -> JobStates] /\ policy \in Policies
  BY DEF TypeOK, JobStates, Policies
<1>2. CASE Begin(j)
  <2>1. /\ job' = [job EXCEPT ![j] = Captured] /\ policy' = policy /\ files' = files
        /\ job[j].step = "idle"
        /\ crossed' = IF policy.enabled THEN crossed ELSE crossed \cup {j}
    BY <1>2 DEF Begin
  <2>2. /\ job'[j].step = "ready" /\ job'[j].generation = policy.generation
        /\ policy.generation <= policy.generation
        /\ j \notin crossed
    BY <1>1, <2>1 DEF Captured, LeaseInv, Policies
  <2> QED
    BY <1>1, <2>1, <2>2 DEF LeaseInv, NothingPrivateKept
\* Steps of an operation that keep what it captured.
<1>3. CASE Resolve(j) \/ Prepare(j)
  <2>1. /\ policy'.enabled = policy.enabled /\ policy'.generation = policy.generation
        /\ UNCHANGED <<files, crossed>>
    BY <1>1, <1>3 DEF Resolve, Prepare, history, Policies
  <2>2. /\ job[j].step \in {"ready", "prepare"}
        /\ \E step \in {"path", "ready"} : job' = [job EXCEPT ![j].step = step]
    BY <1>3 DEF Resolve, Prepare
  <2> QED
    BY <1>1, <2>1, <2>2 DEF LeaseInv, NothingPrivateKept, JobStates
<1>4. CASE Lease(j)
  <2>1. /\ job[j].step = "path" /\ job' = [job EXCEPT ![j].step = Place(j)]
        /\ UNCHANGED <<policy, files, crossed>>
    BY <1>4 DEF Lease, history
  <2>2. /\ Place(j) \in {"persistent", "session", "prepare"}
        /\ Place(j) = "persistent" => /\ policy.enabled /\ ~job[j].private_only
                                      /\ job[j].generation = policy.generation
    BY DEF Place
  <2> QED
    BY <1>1, <2>1, <2>2 DEF LeaseInv, NothingPrivateKept, JobStates
<1>5. CASE Release(j)
  <2>1. /\ job[j].step \in {"persistent", "session"} /\ job' = [job EXCEPT ![j].step = "ready"]
        /\ UNCHANGED <<policy, crossed>>
    BY <1>5 DEF Release
  <2>2. job[j].step = "persistent" => j \notin crossed
    BY DEF LeaseInv
  <2>3. "private" \notin files'
    BY <1>5, <2>1, <2>2 DEF Release, LeaseInv, NothingPrivateKept
  <2> QED
    BY <1>1, <2>1, <2>3 DEF LeaseInv, NothingPrivateKept, JobStates
<1>6. CASE End(j)
  BY <1>1, <1>6 DEF End, IdleJob, LeaseInv, NothingPrivateKept, JobStates
<1> QED
  BY <1>2, <1>3, <1>4, <1>5, <1>6

LEMMA LeaseInvKept ==
  ASSUME TypeOK, PolicyInv, LeaseInv, [Next]_vars
  PROVE  LeaseInv'
<1>1. policy \in Policies
  BY DEF TypeOK, Policies
<1>2. CASE ChangeStep
  <2>1. /\ crossed' = IF policy'.enabled THEN crossed ELSE crossed \cup Running
        /\ UNCHANGED <<job, files>>
    BY <1>2 DEF ChangeStep
  <2>2. CASE UNCHANGED policy
    BY <2>1, <2>2, SamePolicyKeepsLeases
  <2>3. CASE Disable /\ policy' # policy
    <3>1. Switch(FALSE) /\ NoLease /\ policy.enabled # FALSE
      BY <1>1, <2>3 DEF Disable, PolicyInv, Policies
    <3> QED
      BY <2>1, <3>1, SwitchKeepsLeases
  <2>4. CASE Revert \/ Restore \/ Enable
    <3>1. Switch(TRUE) /\ NoLease /\ policy.enabled # TRUE
      BY <1>1, <2>4 DEF Revert, Restore, Enable, PolicyInv, Policies
    <3> QED
      BY <2>1, <3>1, SwitchKeepsLeases
  <2>5. Submit \/ Cover \/ SaveSetting => UNCHANGED policy
    BY DEF Submit, Cover, SaveSetting
  <2> QED
    BY <1>2, <2>2, <2>3, <2>4, <2>5 DEF ChangeStep
<1>3. CASE PlaybackStep \/ Close \/ Crash \/ UNCHANGED vars
  <2>1. UNCHANGED <<policy, job, files, crossed>>
    BY <1>3 DEF PlaybackStep, Close, Crash, vars, leases, history
  <2> QED
    BY <2>1 DEF LeaseInv, NothingPrivateKept
<1>4. CASE Start
  BY <1>4 DEF Start, IdleJob, LeaseInv, NothingPrivateKept
<1> QED
  BY <1>2, <1>3, <1>4, JobKeepsLeases DEF Next

\* An operation of a cache worker that saw saving off, when it began or since,
\* leaves nothing under the configuration directory.
THEOREM NothingPrivateKeptAlways == Spec => []NothingPrivateKept
<1>1. Init => PolicyInv /\ LeaseInv
  BY DEF Init, PolicyInv, LeaseInv, NothingPrivateKept, IdleJob
<1>2. LeaseInv => NothingPrivateKept
  BY DEF LeaseInv
<1> QED
  BY <1>1, <1>2, Typed, PolicyInvKept, LeaseInvKept, PTL DEF Spec

\* While saving is off, no step of a running process changes the caches or the
\* records under the configuration directory.
THEOREM OffIsSilentAlways == Spec => OffIsSilent
<1>1. ASSUME TypeOK, PolicyInv, LeaseInv, [Next]_vars
      PROVE  [~setting /\ ~setting' /\ phase = "up"
                => UNCHANGED <<files, durable.rows, durable.seconds>>]_vars
  <2> SUFFICES ASSUME ~setting, phase = "up", Next
               PROVE  UNCHANGED <<files, durable>>
    BY <1>1 DEF vars, history, store
  <2>1. overlay.on /\ ~policy.enabled /\ change \in {"idle", "save"}
    BY <1>1 DEF PolicyInv, TypeOK
  <2>2. overlay \in Overlays /\ durable \in Durables /\ player.position \in Positions
        /\ player.row \in Positions \cup {NoRow} /\ player.item \in Items \cup {Nobody}
        /\ player.playing => player.item # Nobody
        /\ unflushed \in Nat /\ elapsed \in Nat
    BY <1>1 DEF TypeOK, Overlays, Durables
  <2>3. ASSUME NEW i, NEW row, NEW seconds, Save(i, row, seconds)
        PROVE  UNCHANGED durable
    BY <2>1, <2>3 DEF Save
  <2>4. ASSUME NEW position, NEW seconds, SaveCurrent(position, seconds)
        PROVE  UNCHANGED durable
    BY <2>3, <2>4 DEF SaveCurrent, store
  <2>5. CASE JobStep
    <3>1. \A j \in Jobs : job[j].step # "persistent"
      BY <1>1, <2>1 DEF LeaseInv
    <3> QED
      BY <2>5, <3>1 DEF JobStep, Begin, Resolve, Lease, Prepare, Release, End, history, store
  <2>6. CASE PlaybackStep
    BY <2>3, <2>4, <2>6 DEF PlaybackStep, Play, Started, Second, Tick, Stop, store
  <2>7. CASE ChangeStep
    BY <2>1, <2>7 DEF ChangeStep, Submit, Disable, Cover, Revert, SaveSetting, Restore,
                      Enable, store
  <2>8. CASE Close \/ Crash \/ Start
    BY <2>4, <2>8 DEF Close, Crash, Start, store, history
  <2> QED
    BY <2>5, <2>6, <2>7, <2>8 DEF Next
<1>2. Init => PolicyInv /\ LeaseInv
  BY DEF Init, PolicyInv, LeaseInv, NothingPrivateKept, IdleJob
<1> QED
  BY <1>1, <1>2, Typed, PolicyInvKept, LeaseInvKept, PTL DEF Spec, OffIsSilent

-----------------------------------------------------------------------------
(* No private second is counted *)

\* What waits in memory counts too, except while saving goes on and drops it.
SecondsInv ==
  /\ durable.seconds <= heard
  /\ setting /\ change # "enable" => durable.seconds + unflushed + elapsed <= heard

LEMMA SecondsInvKept ==
  ASSUME TypeOK, PolicyInv, SecondsInv, [Next]_vars
  PROVE  SecondsInv'
<1>1. /\ overlay \in Overlays /\ durable \in Durables /\ player \in Players
      /\ unflushed \in Nat /\ elapsed \in Nat /\ heard \in Nat /\ durable.seconds \in Nat
      /\ setting \in BOOLEAN
      /\ player.playing => player.item # Nobody
  BY DEF TypeOK, Overlays, Durables, Players
\* A save of what was counted: kept for later, private, or counted on disk.
<1>2. ASSUME NEW position \in Positions, NEW seconds \in Nat, player.item # Nobody,
             SaveCurrent(position, seconds)
      PROVE  /\ durable'.seconds \in Nat /\ unflushed' \in Nat
             /\ \/ durable'.seconds = durable.seconds /\ unflushed' <= seconds
                \/ /\ ~overlay.on
                   /\ durable'.seconds = durable.seconds + seconds /\ unflushed' = 0
  <2>1. /\ durable' \in Durables /\ unflushed' \in Nat
        /\ \/ durable' = durable /\ unflushed' \in {0, seconds}
           \/ ~overlay.on /\ durable'.seconds = durable.seconds + seconds /\ unflushed' = 0
    BY <1>2, SaveCurrentType
  <2> QED
    BY <2>1 DEF Durables
<1>3. Ready /\ ~overlay.on => setting /\ change # "enable"
  BY <1>1 DEF Ready, PolicyInv
<1>4. CASE PlaybackStep
  <2>1. UNCHANGED <<setting, change>>
    BY <1>4 DEF PlaybackStep, preference
  <2>2. CASE \E i \in Items : Play(i)
    <3> PICK i \in Items : Play(i)
      BY <2>2
    <3>1. /\ Ready /\ elapsed' = 0 /\ heard' = heard
          /\ \/ player.playing /\ SaveCurrent(player.position, unflushed)
             \/ UNCHANGED <<durable, unflushed>>
      BY DEF Play, history, store
    <3> QED
      BY <1>1, <1>2, <1>3, <2>1, <3>1 DEF SecondsInv, Players
  <2>3. CASE Started
    <3>1. /\ Ready /\ UNCHANGED <<unflushed, elapsed, heard>> /\ player.item # Nobody
          /\ (Save(player.item, player.row, 0) /\ player.row # NoRow) \/ UNCHANGED durable
      BY <2>3 DEF Started, store
    <3>2. durable'.seconds = durable.seconds
      BY <1>1, <3>1, SaveType DEF Players
    <3> QED
      BY <2>1, <3>1, <3>2 DEF SecondsInv
  <2>4. CASE Second
    BY <1>1, <2>1, <2>4 DEF Second, store, SecondsInv
  <2>5. CASE Tick
    <3> PICK position \in Positions :
           \/ unflushed' = unflushed + elapsed /\ UNCHANGED <<store, faults>>
           \/ SaveCurrent(position, unflushed + elapsed)
      BY <2>5 DEF Tick
    <3>1. /\ Ready /\ elapsed' = 0 /\ heard' = heard /\ player.item # Nobody
          /\ \/ unflushed' = unflushed + elapsed /\ UNCHANGED durable
             \/ SaveCurrent(position, unflushed + elapsed)
      BY <1>1, <2>5 DEF Tick, store
    <3>2. unflushed + elapsed \in Nat
      BY <1>1
    <3> QED
      BY <1>1, <1>2, <1>3, <2>1, <3>1, <3>2 DEF SecondsInv
  <2>6. CASE Stop
    <3>1. /\ Ready /\ elapsed' = 0 /\ heard' = heard /\ player.item # Nobody
          /\ \/ SaveCurrent(player.position, unflushed + elapsed)
             \/ UNCHANGED <<durable, unflushed>>
      BY <2>6 DEF Stop, history, store
    <3>2. unflushed + elapsed \in Nat /\ player.position \in Positions
      BY <1>1 DEF Players
    <3> QED
      BY <1>1, <1>2, <1>3, <2>1, <3>1, <3>2 DEF SecondsInv
  <2> QED
    BY <1>4, <2>2, <2>3, <2>4, <2>5, <2>6 DEF PlaybackStep
<1>5. CASE ChangeStep
  <2>1. UNCHANGED <<durable, heard>>
    BY <1>5 DEF ChangeStep, Submit, Disable, Cover, Revert, SaveSetting, Restore, Enable,
                Uncovered, store
  <2>2. CASE UNCHANGED <<setting, unflushed, elapsed>> /\ change # "enable"
    BY <1>1, <2>1, <2>2 DEF SecondsInv
  <2>3. CASE setting' = FALSE \/ change' = "enable"
    BY <2>1, <2>3 DEF SecondsInv
  <2>4. CASE unflushed' = 0 /\ elapsed' = 0
    BY <1>1, <2>1, <2>4 DEF SecondsInv
  <2>5. SaveSetting => \/ UNCHANGED <<setting, unflushed, elapsed>> /\ change # "enable"
                       \/ setting' = FALSE \/ change' = "enable"
    BY <1>1 DEF SaveSetting
  <2>6. Submit \/ Disable \/ Cover \/ Revert \/ Restore =>
          UNCHANGED <<setting, unflushed, elapsed>> /\ change # "enable"
    BY DEF Submit, Disable, Cover, Revert, Restore, Ready, playback
  <2>7. Enable => unflushed' = 0 /\ elapsed' = 0
    BY DEF Enable
  <2> QED
    BY <1>5, <2>2, <2>3, <2>4, <2>5, <2>6, <2>7 DEF ChangeStep
<1>6. CASE Close
  <2>1. /\ Ready /\ UNCHANGED <<setting, change, elapsed, heard>>
        /\ \/ player.item # Nobody /\ SaveCurrent(player.position, unflushed)
           \/ UNCHANGED <<durable, unflushed>>
    BY <1>6 DEF Close, preference, history, store
  <2>2. player.position \in Positions
    BY <1>1 DEF Players
  <2> QED
    BY <1>1, <1>2, <1>3, <2>1, <2>2 DEF SecondsInv
<1>7. CASE Start
  BY <1>1, <1>7 DEF Start, SecondsInv
<1>8. CASE JobStep \/ Crash \/ UNCHANGED vars
  <2>1. UNCHANGED <<durable, heard, setting, change, unflushed, elapsed>>
    BY <1>8 DEF JobStep, Begin, Resolve, Lease, Prepare, Release, End, Crash, vars, store,
                preference, playback, history
  <2> QED
    BY <2>1 DEF SecondsInv
<1> QED
  BY <1>4, <1>5, <1>6, <1>7, <1>8 DEF Next

\* No second that was played while saving was off is counted on disk, nor waits
\* to be counted once saving is on.
THEOREM PublicSecondsOnlyAlways == Spec => []PublicSecondsOnly
<1>1. Init => PolicyInv /\ SecondsInv
  BY DEF Init, PolicyInv, SecondsInv
<1>2. TypeOK /\ SecondsInv => PublicSecondsOnly
  BY DEF TypeOK, SecondsInv, PublicSecondsOnly, Ready
<1> QED
  BY <1>1, <1>2, Typed, PolicyInvKept, SecondsInvKept, PTL DEF Spec

-----------------------------------------------------------------------------
(* Positions *)

\* What Started may save: the position it starts at, or what is public already.
PublicRow(i) == seen[i] \cup {NoRow, 0}

\* The rows on disk are public, and while saving is on so is what would be
\* written next: the position of what plays, or the row of what loads.
PositionInv ==
  /\ PublicPositionsOnly
  /\ setting /\ change # "enable" /\ player.item # Nobody =>
       /\ player.playing => player.position \in seen[player.item]
       /\ ~player.playing => \/ player.row = player.position
                             \/ player.row \in PublicRow(player.item)

\* A save of a public row, or of any row while the overlay takes it.
LEMMA PublicSave ==
  ASSUME PublicPositionsOnly, overlay \in Overlays, durable \in Durables, seen' \in [Items -> SUBSET Positions],
         \A i \in Items : seen[i] \subseteq seen'[i],
         NEW i \in Items, NEW row \in Positions \cup {NoRow},
         NEW seconds \in Nat, Save(i, row, seconds),
         ~overlay.on => row \in seen'[i] \cup {NoRow, 0}
  PROVE  PublicPositionsOnly'
<1>1. \/ durable' = durable
      \/ durable'.rows = [durable.rows EXCEPT ![i] = row] /\ ~overlay.on
  <2>1. CASE overlay.on
    BY <2>1, SaveType
  <2>2. CASE ~overlay.on
    <3>1. durable' = [rows |-> [durable.rows EXCEPT ![i] = row],
                      seconds |-> durable.seconds + seconds]
      BY <2>2 DEF Save
    <3> QED
      BY <2>2, <3>1
  <2> QED
    BY <2>1, <2>2
<1>2. durable.rows \in RowsOf
  BY DEF Durables
<1>3. ASSUME NEW k \in Items
      PROVE  durable'.rows[k] \in seen'[k] \cup {NoRow, 0}
  <2>1. durable.rows[k] \in seen'[k] \cup {NoRow, 0}
    BY DEF PublicPositionsOnly
  <2>2. CASE durable' = durable
    BY <2>1, <2>2
  <2>3. CASE durable'.rows = [durable.rows EXCEPT ![i] = row] /\ ~overlay.on
    <3>1. durable'.rows[k] = IF k = i THEN row ELSE durable.rows[k]
      BY <1>2, <2>3 DEF RowsOf
    <3> QED
      BY <2>1, <2>3, <3>1
  <2> QED
    BY <1>1, <2>2, <2>3
<1> QED
  BY <1>3 DEF PublicPositionsOnly

\* The same of a save of the position, or of one that fails.
LEMMA PublicSaveCurrent ==
  ASSUME TypeOK, PublicPositionsOnly, seen' \in [Items -> SUBSET Positions],
         \A i \in Items : seen[i] \subseteq seen'[i],
         player.item # Nobody, NEW position \in Positions, NEW seconds \in Nat,
         SaveCurrent(position, seconds),
         ~overlay.on => position \in seen'[player.item]
  PROVE  PublicPositionsOnly'
<1>1. player.item \in Items /\ durable \in Durables /\ overlay \in Overlays
  BY DEF TypeOK, Durables, Overlays
<1>2. CASE Save(player.item, position, seconds)
  BY <1>1, <1>2, PublicSave
<1>3. CASE UNCHANGED store
  BY <1>3 DEF store, PublicPositionsOnly
<1> QED
  BY <1>2, <1>3 DEF SaveCurrent

LEMMA SeenGrows ==
  ASSUME TypeOK, player.item # Nobody, NEW position \in Positions, Seen(position)
  PROVE  /\ seen' \in [Items -> SUBSET Positions]
         /\ \A i \in Items : seen[i] \subseteq seen'[i]
         /\ setting => position \in seen'[player.item]
BY DEF TypeOK, Seen

LEMMA PlaybackKeepsPositions ==
  ASSUME TypeOK, PolicyInv, PositionInv, PlaybackStep
  PROVE  PositionInv'
<1>1. /\ overlay \in Overlays /\ durable \in Durables /\ player \in Players
      /\ unflushed \in Nat /\ elapsed \in Nat /\ unflushed + elapsed \in Nat
      /\ seen \in [Items -> SUBSET Positions] /\ setting \in BOOLEAN
      /\ player.playing => player.item # Nobody
  BY DEF TypeOK, Overlays, Durables, Players
<1>2. player.position \in Positions /\ player.row \in Positions \cup {NoRow}
  BY <1>1 DEF Players
<1>3. UNCHANGED <<setting, change>>
  BY DEF PlaybackStep, preference
<1>4. Ready /\ ~overlay.on => setting /\ change # "enable"
  BY <1>1 DEF Ready, PolicyInv
<1>5. CASE \E i \in Items : Play(i)
  <2> PICK i \in Items : Play(i)
    BY <1>5
  <2>1. /\ Ready /\ seen' = seen /\ player'.item = i
        /\ player'.row = player'.position /\ player'.playing = FALSE
        /\ \/ player.playing /\ SaveCurrent(player.position, unflushed)
           \/ UNCHANGED durable
    BY DEF Play, history, store
  <2>2. PublicPositionsOnly'
    <3>1. CASE player.playing /\ SaveCurrent(player.position, unflushed)
      BY <1>1, <1>2, <1>4, <2>1, <3>1, PublicSaveCurrent DEF PositionInv
    <3>2. CASE UNCHANGED durable
      BY <2>1, <3>2 DEF PositionInv, PublicPositionsOnly
    <3> QED
      BY <2>1, <3>1, <3>2
  <2> QED
    BY <2>1, <2>2 DEF PositionInv
<1>6. CASE Started
  <2>1. /\ Ready /\ player.item # Nobody /\ ~player.playing /\ Seen(player.position)
        /\ player' = [player EXCEPT !.playing = TRUE]
        /\ \/ player.row # NoRow /\ Save(player.item, player.row, 0)
           \/ UNCHANGED durable
    BY <1>6 DEF Started, store
  <2>2. player.item \in Items /\ player'.item = player.item /\ player'.position = player.position
        /\ player'.playing = TRUE
    BY <1>1, <2>1 DEF Players
  <2>3. /\ seen' \in [Items -> SUBSET Positions]
        /\ \A i \in Items : seen[i] \subseteq seen'[i]
        /\ setting => player.position \in seen'[player.item]
    BY <1>2, <2>1, SeenGrows
  <2>4. PublicPositionsOnly'
    <3>1. CASE player.row # NoRow /\ Save(player.item, player.row, 0)
      <4>1. ~overlay.on => player.row \in seen'[player.item] \cup {NoRow, 0}
        BY <1>4, <2>1, <2>2, <2>3 DEF PositionInv, PublicRow
      <4> QED
        BY <1>1, <1>2, <2>2, <2>3, <3>1, <4>1, PublicSave DEF PositionInv
    <3>2. CASE UNCHANGED durable
      BY <2>3, <3>2 DEF PositionInv, PublicPositionsOnly
    <3> QED
      BY <2>1, <3>1, <3>2
  <2> QED
    BY <1>3, <2>2, <2>3, <2>4 DEF PositionInv
<1>7. CASE Second
  BY <1>3, <1>7 DEF Second, store, PositionInv, PublicPositionsOnly, PublicRow
<1>8. CASE Tick
  <2> PICK position \in Positions :
         /\ player' = [player EXCEPT !.position = position]
         /\ Seen(position)
         /\ \/ UNCHANGED store
            \/ SaveCurrent(position, unflushed + elapsed)
    BY <1>8 DEF Tick
  <2>1. Ready /\ player.playing /\ player.item # Nobody
    BY <1>1, <1>8 DEF Tick
  <2>2. /\ player'.item = player.item /\ player'.position = position
        /\ player'.playing = player.playing
    BY <1>1 DEF Players
  <2>3. /\ seen' \in [Items -> SUBSET Positions]
        /\ \A i \in Items : seen[i] \subseteq seen'[i]
        /\ setting => position \in seen'[player.item]
    BY <2>1, SeenGrows
  <2>4. PublicPositionsOnly'
    <3>1. CASE UNCHANGED store
      BY <2>3, <3>1 DEF PositionInv, PublicPositionsOnly, store
    <3>2. CASE SaveCurrent(position, unflushed + elapsed)
      BY <1>1, <1>4, <2>1, <2>3, <3>2, PublicSaveCurrent DEF PositionInv
    <3> QED
      BY <3>1, <3>2
  <2> QED
    BY <1>3, <2>1, <2>2, <2>3, <2>4 DEF PositionInv
<1>9. CASE Stop
  <2>1. /\ Ready /\ seen' = seen /\ player' = Stopped
        /\ \/ player.playing /\ SaveCurrent(player.position, unflushed + elapsed)
           \/ UNCHANGED durable
    BY <1>9 DEF Stop, history, store
  <2>2. PublicPositionsOnly'
    <3>1. CASE player.playing /\ SaveCurrent(player.position, unflushed + elapsed)
      BY <1>1, <1>2, <1>4, <2>1, <3>1, PublicSaveCurrent DEF PositionInv
    <3>2. CASE UNCHANGED durable
      BY <2>1, <3>2 DEF PositionInv, PublicPositionsOnly
    <3> QED
      BY <2>1, <3>1, <3>2
  <2> QED
    BY <2>1, <2>2 DEF PositionInv, Stopped
<1> QED
  BY <1>5, <1>6, <1>7, <1>8, <1>9 DEF PlaybackStep

LEMMA ChangeKeepsPositions ==
  ASSUME TypeOK, PolicyInv, PositionInv, ChangeStep
  PROVE  PositionInv'
<1>1. /\ durable \in Durables /\ player \in Players /\ setting \in BOOLEAN
      /\ seen \in [Items -> SUBSET Positions]
      /\ player.playing => player.item # Nobody
  BY DEF TypeOK, Durables, Players
<1>2. durable' = durable
  BY DEF ChangeStep, Submit, Disable, Cover, Revert, SaveSetting, Restore, Enable, Uncovered,
         store
<1>3. /\ \A i \in Items : seen[i] \subseteq seen'[i]
      /\ change # "enable" => seen' = seen
      /\ change = "enable" /\ player.playing => player.position \in seen'[player.item]
  <2>1. seen' = IF change = "enable" /\ player.playing
                THEN [seen EXCEPT ![player.item] = @ \cup {player.position}] ELSE seen
    BY DEF ChangeStep
  <2>2. player.playing => player.item \in Items
    BY <1>1 DEF Players
  <2>3. CASE change = "enable" /\ player.playing
    <3>1. seen' = [seen EXCEPT ![player.item] = seen[player.item] \cup {player.position}]
      BY <2>1, <2>3
    <3> QED
      BY <1>1, <2>2, <2>3, <3>1
  <2>4. CASE ~(change = "enable" /\ player.playing)
    <3>1. seen' = seen
      BY <2>1, <2>4
    <3> QED
      BY <2>4, <3>1
  <2> QED
    BY <2>3, <2>4
<1>4. PublicPositionsOnly'
  BY <1>2, <1>3 DEF PositionInv, PublicPositionsOnly
<1>5. CASE UNCHANGED <<setting, player>> /\ change # "enable"
  BY <1>3, <1>4, <1>5 DEF PositionInv, PublicRow
<1>6. CASE setting' = FALSE \/ change' = "enable"
  BY <1>4, <1>6 DEF PositionInv
<1>7. CASE Enable
  <2>1. /\ change = "enable" /\ setting' = setting
        /\ player' = [player EXCEPT !.row = IF player.item = Nobody THEN NoRow
                                            ELSE durable'.rows[player.item]]
    BY <1>7 DEF Enable
  <2>2. /\ player'.item = player.item /\ player'.position = player.position
        /\ player'.playing = player.playing
        /\ player.item # Nobody => player'.row = durable.rows[player.item]
    BY <1>1, <1>2, <2>1 DEF Players
  <2>3. player.item # Nobody => player.item \in Items
    BY <1>1 DEF Players
  <2>4. player.item # Nobody => player'.row \in seen'[player.item] \cup {NoRow, 0}
    BY <1>2, <1>4, <2>2, <2>3 DEF PublicPositionsOnly
  <2> QED
    BY <1>3, <1>4, <2>1, <2>2, <2>4 DEF PositionInv, PublicRow
<1>8. SaveSetting => \/ UNCHANGED <<setting, player>> /\ change # "enable"
                     \/ setting' = FALSE \/ change' = "enable"
  BY <1>1 DEF SaveSetting
<1>9. Submit \/ Disable \/ Cover \/ Revert \/ Restore =>
        UNCHANGED <<setting, player>> /\ change # "enable"
  BY DEF Submit, Disable, Cover, Revert, Restore, Ready, playback
<1> QED
  BY <1>5, <1>6, <1>7, <1>8, <1>9 DEF ChangeStep

LEMMA PositionInvKept ==
  ASSUME ~QuitWhileLoading, TypeOK, PolicyInv, PositionInv, [Next]_vars
  PROVE  PositionInv'
<1>1. /\ player \in Players /\ unflushed \in Nat /\ setting \in BOOLEAN
      /\ seen \in [Items -> SUBSET Positions]
      /\ player.playing => player.item # Nobody
  BY DEF TypeOK, Players
<1>2. CASE Close
  <2>1. /\ Ready /\ UNCHANGED <<setting, change, player, seen>>
        /\ \/ player.playing /\ SaveCurrent(player.position, unflushed)
           \/ UNCHANGED durable
    BY <1>1, <1>2 DEF Close, preference, history, store
  <2>2. ~overlay.on => setting /\ change # "enable"
    BY <1>1, <2>1 DEF Ready, PolicyInv
  <2>3. PublicPositionsOnly'
    <3>1. CASE player.playing /\ SaveCurrent(player.position, unflushed)
      <4>1. player.position \in Positions
        BY <1>1 DEF Players
      <4> QED
        BY <1>1, <2>1, <2>2, <3>1, <4>1, PublicSaveCurrent DEF PositionInv
    <3>2. CASE UNCHANGED durable
      BY <2>1, <3>2 DEF PositionInv, PublicPositionsOnly
    <3> QED
      BY <2>1, <3>1, <3>2
  <2> QED
    BY <2>1, <2>3 DEF PositionInv, PublicRow
<1>3. CASE Start
  BY <1>3 DEF Start, Stopped, PositionInv, PublicPositionsOnly
<1>4. CASE JobStep \/ Crash \/ UNCHANGED vars
  <2>1. UNCHANGED <<durable, setting, change, player, seen>>
    BY <1>4 DEF JobStep, Begin, Resolve, Lease, Prepare, Release, End, Crash, vars, store,
                preference, playback, history
  <2> QED
    BY <2>1 DEF PositionInv, PublicPositionsOnly, PublicRow
<1> QED
  BY <1>2, <1>3, <1>4, PlaybackKeepsPositions, ChangeKeepsPositions DEF Next

\* Unless the user quits while media loads, every position on disk past the
\* beginning is one that playback reached while saving was on.
THEOREM PublicPositionsOnlyAlways ==
  ASSUME ~QuitWhileLoading PROVE Spec => []PublicPositionsOnly
<1>1. Init => PolicyInv /\ PositionInv
  BY DEF Init, PolicyInv, PositionInv, PublicPositionsOnly, Stopped, NoRows
<1>2. PositionInv => PublicPositionsOnly
  BY DEF PositionInv
<1>3. TypeOK /\ PolicyInv /\ PositionInv /\ [Next]_vars => PositionInv'
  BY PositionInvKept
<1> QED
  BY <1>1, <1>2, <1>3, Typed, PolicyInvKept, PTL DEF Spec
=============================================================================
