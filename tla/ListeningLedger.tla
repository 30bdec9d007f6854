--------------------------- MODULE ListeningLedger ---------------------------
(***************************************************************************)
(* What saving the playback position promises: for every item the last     *)
(* saved row, for every source the seconds listened.  A save replaces the  *)
(* row of its item and credits its source in one step; nothing else ever   *)
(* changes either, so no position goes back and no second counts twice.    *)
(***************************************************************************)
EXTENDS Integers

CONSTANTS Items, Sources, SourceOf, Live, NoRow, Rows

VARIABLES row, credited

Init == row = [i \in Items |-> NoRow] /\ credited = [s \in Sources |-> 0]

\* Some seconds, or none, are credited to one source alone.
Credit(s) ==
  /\ credited'[s] >= credited[s]
  /\ credited' = [credited EXCEPT ![s] = credited'[s]]

\* An item with a position: the save may credit nothing, and the row it
\* replaces is never later than its own.
Save(i) ==
  /\ i \notin Live
  /\ \E r \in Rows : r.at >= row[i].at /\ row' = [row EXCEPT ![i] = r]
  /\ Credit(SourceOf[i])

\* A live stream has no position.
Listen(i) ==
  /\ i \in Live
  /\ Credit(SourceOf[i])
  /\ UNCHANGED row

Next == \E i \in Items : Save(i) \/ Listen(i)

Spec == Init /\ [][Next]_<<row, credited>>
=============================================================================
