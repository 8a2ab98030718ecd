--------------------------- MODULE MCBranchJournal ---------------------------
(* BranchJournal on small sets of repositories and sessions.                 *)
EXTENDS BranchJournal
CONSTANTS a, b, v, s1, s2, n1, n2

Two == {a, b}
OneEach == {s1, s2}
OwnerOneEach == [s \in OneEach |-> IF s = s1 THEN a ELSE b]
OneName == {n1}
TwoNames == {n1, n2}
AskedToKeep == {"undelete", "move"}
=============================================================================
