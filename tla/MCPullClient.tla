---------------------------- MODULE MCPullClient ----------------------------
(* PullClient on small sets of versions and branches.                        *)
EXTENDS PullClient, TLC
CONSTANTS v1, v2, v3, v4, m1, trunk, side

TwoVersions == {v1, v2}
ThreeVersions == {v1, v2, v3}
FourVersions == {v1, v2, v3, v4}
OneMerge == {m1}
OneBranch == {trunk}
TwoBranches == {trunk, side}

Symmetry == Permutations(Versions)
=============================================================================
