----------------------------- MODULE MCWorkspace -----------------------------
(* Workspace on small sets of processes and versions.                        *)
EXTENDS Workspace, TLC
CONSTANTS p1, p2, v1, v2, v3, trunk, side

One == {p1}
Two == {p1, p2}
TwoIds == {v1, v2}
ThreeIds == {v1, v2, v3}
OneBranch == {trunk}
TwoBranches == {trunk, side}

AllCommands == {"commit", "merge", "update", "rebase"}
AllButRebase == {"commit", "merge", "update"}
CommitAndRebase == {"commit", "rebase"}
NoCommands == {}

Symmetry == Permutations(Procs) \cup Permutations(Ids)
=============================================================================
