----------------------------- MODULE MCVaultPush -----------------------------
(* VaultPush on small sets of clients and versions.                          *)
EXTENDS VaultPush, TLC
CONSTANTS c1, c2, v1, v2, v3, m1, trunk, side

Two == {c1, c2}
TwoVersions == {v1, v2}
ThreeVersions == {v1, v2, v3}
OneMerge == {m1}
NoMerge == {}
OneBranch == {trunk}
TwoBranches == {trunk, side}

Symmetry == Permutations(Two) \cup Permutations(Versions)
=============================================================================
