---------------------------- MODULE MCObjectStore ----------------------------
(* ObjectStore on small sets of sessions and data.                           *)
EXTENDS ObjectStore, TLC
CONSTANTS s1, s2, a, b, c

One == {s1}
Two == {s1, s2}
TwoData == {a, b}
ThreeData == {a, b, c}
OnlyA == {a}
OnlyB == {b}
OnlyC == {c}
AandB == {a, b}
AandC == {a, c}
Nothing == {}

\* One remote has b and c as deltas on a, another has all data flat.
Deltas == [d \in Data |-> IF d = a THEN None ELSE a]
Flat == [d \in Data |-> None]
OneRemote == {Deltas}
TwoRemotes == {Deltas, Flat}

\* a is small, and the others are not; or every payload goes anywhere.
BySize == [d \in Data |-> IF d = a THEN {"blob"} ELSE {"moved"}]
AllPlaces == [d \in Data |-> {"blob", "moved", "written"}]

Symmetry == Permutations(Sessions)
=============================================================================
