---------------------------- MODULE VersionStore ----------------------------
(***************************************************************************)
(* What a vault promises about the versions it is given, whatever the      *)
(* protocol that brings them: "you should not lose any data".              *)
(*                                                                         *)
(* Versions are written somewhere, each on a branch and on top of earlier  *)
(* ones.  The vault stores some of them.  It takes in a set of versions in *)
(* one atomic step, only with their whole history; from then on they stay, *)
(* each under a head of its branch, and no head is ever rewound.           *)
(***************************************************************************)
CONSTANTS AllVersions, Branches, Trunk, Root, None

VARIABLES written, up, anc, branchOf, stored, heads

graph == <<written, up, anc, branchOf>>
store == <<stored, heads>>

Init ==
  /\ written = {Root}
  /\ up = [v \in AllVersions |-> {}]
  /\ anc = [v \in AllVersions |-> IF v = Root THEN {Root} ELSE {}]
  /\ branchOf = [v \in AllVersions |-> IF v = Root THEN Trunk ELSE None]
  /\ stored = {Root}
  /\ heads = [b \in Branches |-> IF b = Trunk THEN {Root} ELSE {}]

\* Somebody writes a version on branch b, on top of existing ones.
Write(v, b, sources) ==
  /\ v \in AllVersions \ written
  /\ sources # {} /\ sources \subseteq written
  /\ written' = written \cup {v}
  /\ up' = [up EXCEPT ![v] = sources]
  /\ anc' = [anc EXCEPT ![v] = {v} \cup UNION {anc[u] : u \in sources}]
  /\ branchOf' = [branchOf EXCEPT ![v] = b]

\* The vault takes in a set of versions that completes its history, and moves
\* its heads forward so that they reach all of them.
Store(new) ==
  /\ new \subseteq written'
  /\ stored' = stored \cup new
  /\ \A v \in new : up'[v] \subseteq stored'
  /\ heads' \in [Branches -> SUBSET stored']
  /\ \A b \in Branches : \A h \in heads[b] : \E g \in heads'[b] : h \in anc'[g]
  /\ \A v \in new : \E g \in heads'[branchOf'[v]] : v \in anc'[g]

\* A commit in the vault's own workspace writes and stores in one step.
Next ==
  /\ \/ UNCHANGED graph
     \/ \E v \in AllVersions, b \in Branches, sources \in SUBSET AllVersions :
          Write(v, b, sources)
  /\ \/ UNCHANGED store
     \/ \E new \in SUBSET AllVersions : Store(new)

Spec == Init /\ [][Next]_<<graph, store>>
=============================================================================
