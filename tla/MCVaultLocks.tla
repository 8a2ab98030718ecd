---------------------------- MODULE MCVaultLocks ----------------------------
(* VaultLocks on a directory with a file in it and a file outside it, and    *)
(* two branches; paths are the program's strings, so that "starts with" is   *)
(* computed and not stated.                                                  *)
EXTENDS VaultLocks, Sequences, TLC
CONSTANTS c1, c2, trunk, side, r1

TwoClients == {c1, c2}
TwoBranches == {trunk, side}
Paths == {"", "/d/", "/d/f", "/e"}
Directories == {"/", "/d/"}
TextPrefixes ==
  [p \in Paths \cup {"/"} |->
     {q \in Directories \cup Paths : q # "" /\ Len(q) <= Len(p) /\ SubSeq(p, 1, Len(q)) = q}]
OneRecord == {r1}
FileOf == [r \in OneRecord |-> "/d/f"]

Targets ==
  {<<"", AllBranches>>, <<"/d/", trunk>>, <<"/d/f", trunk>>, <<"/d/f", side>>, <<"/e", AllBranches>>}

Symmetry == Permutations(TwoClients)
=============================================================================
