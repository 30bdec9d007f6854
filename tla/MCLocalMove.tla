----------------------------- MODULE MCLocalMove -----------------------------
EXTENDS LocalMove

MCPaths == {"a1", "a2", "b1", "b2", "c"}
\* "g" may be created by another program; "old" is gone, only its row is left.
MCFiles == {"f1", "f2", "g", "old"}
KnownFiles == {"f1", "f2", "old"}
Move(p, q) == [source |-> p, target |-> q]
MCMappings == {Move("a1", "b1"), Move("a2", "b2"), Move("b1", "a1"), Move("a2", "c")}
ThreeMoves == MCMappings \ {Move("a2", "c")}
ThreeFiles == {"f1", "f2", "g"}
MCInitialFs == [p \in MCPaths |-> CASE p = "a1" -> "f1" [] p = "a2" -> "f2"
                                   [] OTHER -> NoFile]
MCInitialRows == {[path |-> "a1", file |-> "f1"], [path |-> "a2", file |-> "f2"],
                  [path |-> "c", file |-> "old"]}
KnownRows == {[path |-> "a1", file |-> "f1"], [path |-> "a2", file |-> "f2"]}
NoPaths == {}
==============================================================================
