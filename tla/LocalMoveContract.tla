-------------------------- MODULE LocalMoveContract --------------------------
(***************************************************************************)
(* What moving local files promises: every file is at one place, a move    *)
(* takes it to a free path in one step together with everything the        *)
(* library knows about it, and nothing known about a file is ever lost.    *)
(* There is no crash, no journal and no half-finished move here.           *)
(***************************************************************************)
CONSTANTS Paths, Files, NoPath, Docs

VARIABLES
  loc,     \* where each file is
  known    \* the files each document holds an identity row for

Free(p) == \A f \in Files : loc[f] # p

Init ==
  /\ loc \in [Files -> Paths \cup {NoPath}]
  /\ \A f, g \in Files : f # g => loc[f] # loc[g] \/ loc[f] = NoPath
  /\ known \in [Docs -> SUBSET Files]

Move(f, p) ==
  /\ loc[f] # NoPath /\ Free(p)
  /\ loc' = [loc EXCEPT ![f] = p]
  /\ UNCHANGED known

Appear(f, p) ==
  /\ loc[f] = NoPath /\ Free(p)
  /\ loc' = [loc EXCEPT ![f] = p]
  /\ UNCHANGED known

Learn(f, d) ==
  /\ loc[f] # NoPath
  /\ known' = [known EXCEPT ![d] = @ \cup {f}]
  /\ UNCHANGED loc

Next ==
  \/ \E f \in Files, p \in Paths : Move(f, p) \/ Appear(f, p)
  \/ \E f \in Files, d \in Docs : Learn(f, d)

Spec == Init /\ [][Next]_<<loc, known>>
=============================================================================
