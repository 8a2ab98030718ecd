--------------------------- MODULE PullClient_proof ---------------------------
(***************************************************************************)
(* Theorems about PullClient, for any sets of versions and branches.       *)
(* What a pull receives is worked out without a lock, chunk by chunk, and  *)
(* stored later; PulledOK says what it still is in between, and TempOK     *)
(* what the temporary heads of the import already cover.                   *)
(***************************************************************************)
EXTENDS PullClient, FiniteSetTheorems, TLAPS

Closed(S) == \A v \in S : up[v] \subseteq S

(* The graph.  anc[v] contains v, is transitive and antisymmetric, and is   *)
(* the least set that contains v and is closed under parents and sources.   *)
GraphOK ==
  /\ Root \in made
  /\ \A v \in AllVersions \ made : up[v] = {} /\ anc[v] = {} /\ branchOf[v] = None
  /\ \A v \in made : v \in anc[v] /\ anc[v] \subseteq made /\ up[v] \subseteq made
  /\ \A v \in made : \A u \in anc[v] : anc[u] \subseteq anc[v]
  /\ \A v \in made : \A u \in anc[v] : v \in anc[u] => u = v

AncestryIsLeast ==
  \A S \in SUBSET AllVersions : Closed(S) => \A v \in S \cap made : anc[v] \subseteq S

BranchesRooted ==
  /\ \A b \in Branches : origin[b] # None => origin[b] \in made /\ b \in chain[b]
  /\ \A b \in Branches : \A d \in chain[b] : origin[d] # None
  /\ \A v \in made : branchOf[v] \in Branches /\ origin[branchOf[v]] \in anc[v]

GraphInv == GraphOK /\ AncestryIsLeast /\ BranchesRooted

(* The vault. *)
VaultOK ==
  /\ vaultVersions \subseteq made
  /\ \A b \in Branches : vaultHeads[b] \subseteq made \cap OnBranch(b)
  /\ \A b \in vaultBranches : origin[b] # None

(* The repository. *)
HistoryComplete == \A v \in versions : up[v] \subseteq versions

NothingLost == \A v \in versions : \E h \in heads[branchOf[v]] : v \in anc[h]

\* The branch's origin is its head only as long as it has no versions.
HeadsOnBranch ==
  \A b \in Branches : \A h \in heads[b] : branchOf[h] = b \/ (h = origin[b] /\ heads[b] = {h})

RepositoryOK ==
  /\ versions \subseteq made
  /\ HistoryComplete
  /\ NothingLost
  /\ \A b \in Branches : heads[b] \subseteq versions
  /\ HeadsOnBranch
  /\ \A b \in branches : origin[b] # None
  /\ \A v \in versions : branchOf[v] \in branches

(* What the connection was sent completes the repository's history.         *)
PulledOK ==
  /\ pushed \cup frontier \subseteq made
  /\ pc # "query" => frontier = {}
  /\ pc = "off" <=> tip = None
  /\ pc = "off" => pushed = {} /\ received = {}
  /\ pc # "off" => /\ tip \in made /\ tip \in pushed \cup versions \cup frontier
                   /\ target \in Branches /\ origin[target] # None
  /\ \A v \in pushed : up[v] \subseteq pushed \cup versions \cup frontier
  /\ \A b \in received : origin[b] # None
  /\ \A b \in Branches : headInfo[b] # None => headInfo[b] \in OnBranch(b)
  /\ pc \in {"sent", "accept", "merge"} =>
       \A v \in pushed : branchOf[v] \in branches \cup received
  /\ pc \in {"open", "off"} => pushed \subseteq versions /\ received \subseteq branches

(* The temporary heads of b cover its heads and the versions considered; if *)
(* no head of b could be reached from another, no temporary head can.       *)
TempOK(b) ==
  /\ temp[b] \subseteq pushed \cup heads[b] \cup merged
  /\ \A g \in temp[b] : branchOf[g] = b
  /\ temp[b] # {} => /\ b \in branches \cup received
                     /\ \A h \in heads[b] : \E g \in temp[b] : h \in anc[g]
  /\ \A v \in pushed \ todo : branchOf[v] = b => \E g \in temp[b] : v \in anc[g]
  /\ heads[b] = Maximal(heads[b]) => temp[b] = Maximal(temp[b])

MergedOK ==
  \A m \in merged : m \in made /\ up[m] \subseteq pushed \cup versions /\ m \in temp[branchOf[m]]

TransactionOK ==
  /\ ~Locked => temp = NoTemp
  /\ pc # "accept" => todo = {}
  /\ pc # "merge" => merged = {}
  /\ todo \subseteq pushed
  /\ Locked => MergedOK /\ \A b \in Branches : TempOK(b)

IInv ==
  /\ TypeOK
  /\ GraphInv
  /\ VaultOK
  /\ RepositoryOK
  /\ PulledOK
  /\ TransactionOK

-----------------------------------------------------------------------------
(* What a step may do to the graph. *)

\* The versions and branches that existed keep their ancestry and branch.
GraphGrows ==
  /\ made \subseteq made'
  /\ \A u \in made : anc'[u] = anc[u] /\ up'[u] = up[u] /\ branchOf'[u] = branchOf[u]
  /\ \A b \in Branches : origin[b] # None => origin'[b] = origin[b]

\* Every head has a descendant among the new heads of its branch.
HeadsForward ==
  \A b \in Branches : \A h \in heads[b] : \E g \in heads'[b] : h \in anc'[g]

\* A version on top of existing ones keeps the graph sound: it descends from its
\* sources, nothing descends from it, and nothing else changes.
LEMMA NewVersionKeepsGraph ==
  ASSUME TypeOK, GraphInv,
         NEW v \in AllVersions \ made, NEW b \in Branches, NEW sources \in SUBSET made,
         origin[b] # None, sources \cap OnBranch(b) # {},
         NewVersion(v, b, sources)
  PROVE  /\ GraphInv'
         /\ GraphGrows
         /\ made' = made \cup {v} /\ up'[v] = sources /\ branchOf'[v] = b
         /\ anc'[v] = {v} \cup UNION {anc[u] : u \in sources}
         /\ \A u \in sources : anc[u] \subseteq anc'[v]
         /\ OnBranch(b) \cup {v} \subseteq OnBranch(b)'
<1> USE NoneAssumption, IdsAssumption
<1>1. /\ made' = made \cup {v} /\ origin' = origin /\ chain' = chain
      /\ \A u \in AllVersions : u # v =>
           anc'[u] = anc[u] /\ up'[u] = up[u] /\ branchOf'[u] = branchOf[u]
      /\ up'[v] = sources /\ branchOf'[v] = b
      /\ anc'[v] = {v} \cup UNION {anc[u] : u \in sources}
    BY DEF NewVersion, TypeOK
<1>2. made \subseteq AllVersions /\ v \notin made
    BY DEF TypeOK
<1>3. GraphGrows
    BY <1>1, <1>2 DEF GraphGrows
<1>4. GraphOK'
  <2>1. Root \in made' /\ \A u \in AllVersions \ made' : up'[u] = {} /\ anc'[u] = {} /\ branchOf'[u] = None
      BY <1>1, <1>2 DEF GraphInv, GraphOK
  <2>2. \A u \in made' : u \in anc'[u] /\ anc'[u] \subseteq made' /\ up'[u] \subseteq made'
      BY <1>1, <1>2 DEF GraphInv, GraphOK
  <2>3. \A u \in sources : u \in made /\ anc[u] \subseteq made
      BY DEF GraphInv, GraphOK
  <2>4. ASSUME NEW w \in made', NEW u \in anc'[w]
        PROVE  anc'[u] \subseteq anc'[w] /\ (w \in anc'[u] => u = w)
    <3>1. CASE w = v
      <4>1. CASE u = v
          BY <3>1, <4>1
      <4>2. CASE u # v
        <5>1. PICK q \in sources : u \in anc[q]
            BY <3>1, <4>2, <2>4, <1>1
        <5>2. u \in made /\ anc[u] \subseteq anc[q] /\ anc'[u] = anc[u] /\ v \notin anc[u]
            BY <5>1, <4>2, <2>3, <1>1, <1>2 DEF GraphInv, GraphOK
        <5> QED BY <3>1, <5>1, <5>2, <1>1
      <4> QED BY <4>1, <4>2
    <3>2. CASE w # v
      <4>1. w \in made /\ u \in anc[w] /\ u \in made /\ u # v
          BY <3>2, <2>4, <1>1, <1>2 DEF GraphInv, GraphOK
      <4> QED BY <4>1, <1>1, <1>2 DEF GraphInv, GraphOK
    <3> QED BY <3>1, <3>2
  <2> QED BY <2>1, <2>2, <2>4 DEF GraphOK
<1>5. AncestryIsLeast'
  <2> SUFFICES ASSUME NEW S \in SUBSET AllVersions, \A u \in S : up'[u] \subseteq S,
                      NEW w \in S \cap made'
               PROVE  anc'[w] \subseteq S
      BY DEF AncestryIsLeast, Closed
  <2>1. Closed(S)
      BY <1>1, <1>2 DEF Closed, GraphInv, GraphOK
  <2>2. \A u \in S \cap made : anc[u] \subseteq S
      BY <2>1 DEF GraphInv, AncestryIsLeast
  <2>3. CASE w = v
      BY <2>3, <2>2, <1>1, <1>2
  <2>4. CASE w # v
      BY <2>4, <2>2, <1>1, <1>2
  <2> QED BY <2>3, <2>4
<1>6. BranchesRooted'
  <2>1. ASSUME NEW w \in made' PROVE branchOf'[w] \in Branches /\ origin'[branchOf'[w]] \in anc'[w]
    <3>1. CASE w = v
      <4>1. PICK p \in sources : branchOf[p] = b \/ p = origin[b]
          BY DEF OnBranch
      <4>2. origin[b] \in anc[p]
          BY <4>1 DEF GraphInv, GraphOK, BranchesRooted
      <4> QED BY <3>1, <4>1, <4>2, <1>1
    <3>2. CASE w # v
        BY <3>2, <1>1, <1>2 DEF GraphInv, BranchesRooted
    <3> QED BY <3>1, <3>2
  <2>2. \A d \in Branches : origin'[d] # None => origin'[d] \in made' /\ d \in chain'[d]
      BY <1>1 DEF GraphInv, BranchesRooted
  <2>3. \A d \in Branches : \A e \in chain'[d] : origin'[e] # None
      BY <1>1 DEF GraphInv, BranchesRooted
  <2> QED BY <2>1, <2>2, <2>3 DEF BranchesRooted
<1>7. \A u \in sources : anc[u] \subseteq anc'[v]
    BY <1>1
<1>8. OnBranch(b) \cup {v} \subseteq OnBranch(b)'
    BY <1>1, <1>2 DEF OnBranch
<1> QED BY <1>1, <1>3, <1>4, <1>5, <1>6, <1>7, <1>8 DEF GraphInv

\* A branch's own versions stay its own when the graph grows.
LEMMA OnBranchGrows ==
  ASSUME TypeOK, GraphGrows, NEW b \in Branches
  PROVE  OnBranch(b) \subseteq OnBranch(b)'
  BY NoneAssumption DEF TypeOK, GraphGrows, OnBranch

\* A step that leaves the graph alone lets it grow, trivially.
LEMMA GraphSame ==
  ASSUME UNCHANGED graphVars, GraphInv
  PROVE  GraphInv' /\ GraphGrows /\ \A b \in Branches : OnBranch(b)' = OnBranch(b)
  BY DEF graphVars, GraphInv, GraphOK, AncestryIsLeast, Closed, BranchesRooted, GraphGrows, OnBranch

\* Versions that exist are on branches that exist, below heads that exist.
LEMMA BranchOfMade ==
  ASSUME IInv
  PROVE  /\ \A v \in made : branchOf[v] \in Branches /\ origin[branchOf[v]] # None /\ v # None
         /\ \A b \in Branches : \A h \in heads[b] : h \in versions /\ h \in made /\ anc[h] \subseteq made
         /\ \A b \in Branches : \A h \in vaultHeads[b] : h \in made
         /\ \A v \in versions \cup vaultVersions : v \in made /\ anc[v] \subseteq made
         /\ pushed \subseteq made
<1>1. \A v \in made : anc[v] \subseteq made /\ v \in AllVersions
    BY DEF IInv, GraphInv, GraphOK, TypeOK
<1>2. \A v \in made : branchOf[v] \in Branches /\ origin[branchOf[v]] # None /\ v # None
    BY <1>1, NoneAssumption DEF IInv, GraphInv, BranchesRooted
<1>3. \A b \in Branches : heads[b] \subseteq versions /\ vaultHeads[b] \subseteq made
    BY DEF IInv, RepositoryOK, VaultOK
<1>4. versions \subseteq made /\ vaultVersions \subseteq made /\ pushed \subseteq made
    BY DEF IInv, RepositoryOK, VaultOK, PulledOK
<1> QED BY <1>1, <1>2, <1>3, <1>4

-----------------------------------------------------------------------------
(* What stands still is not disturbed. *)

LEMMA VaultSame ==
  ASSUME IInv, TypeOK', GraphGrows, UNCHANGED vaultVars
  PROVE  VaultOK'
<1>1. VaultOK /\ TypeOK
    BY DEF IInv
<1>2. \A b \in Branches : OnBranch(b) \subseteq OnBranch(b)'
    BY <1>1, OnBranchGrows
<1> QED BY <1>1, <1>2 DEF VaultOK, vaultVars, GraphGrows, TypeOK

LEMMA RepositorySame ==
  ASSUME IInv, TypeOK', GraphGrows, UNCHANGED repoVars
  PROVE  RepositoryOK' /\ HeadsForward
<1> USE DEF repoVars
<1>1. RepositoryOK /\ TypeOK /\ GraphOK
    BY DEF IInv, GraphInv
<1>2. versions' \subseteq made' /\ HistoryComplete'
    BY <1>1 DEF RepositoryOK, HistoryComplete, GraphGrows
<1>3. NothingLost'
  <2> SUFFICES ASSUME NEW v \in versions PROVE \E h \in heads[branchOf'[v]] : v \in anc'[h]
      BY DEF NothingLost
  <2>1. PICK h \in heads[branchOf[v]] : v \in anc[h]
      BY <1>1 DEF RepositoryOK, NothingLost
  <2>2. v \in made /\ h \in made
      BY <2>1, BranchOfMade
  <2> QED BY <2>1, <2>2 DEF GraphGrows
<1>4. HeadsOnBranch'
  <2> SUFFICES ASSUME NEW b \in Branches, NEW h \in heads[b]
               PROVE  branchOf'[h] = b \/ (h = origin'[b] /\ heads[b] = {h})
      BY DEF HeadsOnBranch
  <2>1. h \in made /\ h # None
      BY BranchOfMade
  <2>2. branchOf[h] = b \/ (h = origin[b] /\ heads[b] = {h})
      BY <1>1 DEF RepositoryOK, HeadsOnBranch
  <2> QED BY <2>1, <2>2 DEF GraphGrows
<1>5. \A b \in branches' : origin'[b] # None
    BY <1>1 DEF RepositoryOK, GraphGrows, TypeOK
<1>6. \A v \in versions' : branchOf'[v] \in branches'
    BY <1>1, BranchOfMade DEF RepositoryOK, GraphGrows
<1>7. HeadsForward
    BY <1>1, BranchOfMade DEF HeadsForward, GraphGrows, GraphOK
<1> QED BY <1>1, <1>2, <1>3, <1>4, <1>5, <1>6, <1>7 DEF RepositoryOK

\* A connection that does not move is not disturbed by what others write: the
\* repository only grows, and its heads move only while RunLocked is free.
LEMMA PullSame ==
  ASSUME IInv, TypeOK', GraphGrows, UNCHANGED <<pc, sentVars, importVars>>,
         versions \subseteq versions', branches \subseteq branches',
         Locked => UNCHANGED heads
  PROVE  PulledOK' /\ TransactionOK'
<1> USE DEF sentVars, importVars, Locked
<1>1. TypeOK /\ GraphOK /\ PulledOK /\ TransactionOK
    BY DEF IInv, GraphInv
<1>2. PulledOK'
  <2>1. \A b \in Branches : headInfo[b] # None => headInfo[b] \in OnBranch(b)'
      BY <1>1, OnBranchGrows DEF PulledOK
  <2>2. received \subseteq Branches /\ target \in Branches \cup {None}
      BY <1>1 DEF TypeOK
  <2>3. \A v \in pushed : up'[v] = up[v] /\ branchOf'[v] = branchOf[v]
      BY BranchOfMade DEF GraphGrows
  <2> QED BY <1>1, <2>1, <2>2, <2>3 DEF PulledOK, GraphGrows
<1>3. ASSUME Locked, NEW b \in Branches PROVE TempOK(b)'
  <2>1. TempOK(b) /\ MergedOK /\ heads' = heads
      BY <1>1, <1>3 DEF TransactionOK
  <2>2. merged \subseteq made /\ heads[b] \subseteq made /\ pushed \subseteq made
      BY <2>1, BranchOfMade DEF MergedOK
  <2>3. temp[b] \subseteq made
      BY <2>1, <2>2 DEF TempOK
  <2>4. (Maximal(heads[b]) = Maximal(heads[b])') /\ (Maximal(temp[b]) = Maximal(temp[b])')
      BY <2>1, <2>2, <2>3 DEF Maximal, GraphGrows
  <2> QED BY <2>1, <2>2, <2>3, <2>4 DEF TempOK, GraphGrows
<1>4. ASSUME Locked PROVE MergedOK'
    BY <1>1, <1>4 DEF TransactionOK, MergedOK, GraphGrows
<1> QED BY <1>1, <1>2, <1>3, <1>4 DEF TransactionOK

-----------------------------------------------------------------------------
(* What others do. *)

\* A new branch of the vault.
LEMMA VaultBranchKeeps ==
  ASSUME IInv, NEW b \in Branches, NEW on \in Branches, NEW at \in AllVersions,
         VaultBranch(b, on, at)
  PROVE  IInv' /\ HeadsForward
<1> USE DEF VaultBranch, repoVars
<1>1. TypeOK /\ GraphInv /\ VaultOK /\ at \in made /\ at # None
    BY BranchOfMade DEF IInv
<1>2. TypeOK'
    BY <1>1 DEF TypeOK, sentVars, importVars
<1>3. /\ \A d \in Branches : origin'[d] = IF d = b THEN at ELSE origin[d]
      /\ \A d \in Branches : chain'[d] = IF d = b THEN {b} \cup chain[on] ELSE chain[d]
      /\ \A d \in Branches : vaultHeads'[d] = IF d = b THEN {at} ELSE vaultHeads[d]
    BY <1>1 DEF TypeOK
<1>4. GraphGrows
    BY <1>3 DEF GraphGrows
<1>5. GraphInv'
  <2>1. \A v \in made : branchOf[v] \in Branches /\ branchOf[v] # b
      BY BranchOfMade
  <2>2. BranchesRooted'
      BY <1>1, <1>3, <2>1 DEF GraphInv, BranchesRooted, TypeOK
  <2> QED BY <1>1, <2>2 DEF GraphInv, GraphOK, AncestryIsLeast, Closed
<1>6. VaultOK'
  <2>1. \A d \in Branches : OnBranch(d) \subseteq OnBranch(d)'
      BY <1>1, <1>4, OnBranchGrows
  <2>2. at \in OnBranch(b)'
      BY <1>1, <1>3 DEF OnBranch
  <2> QED BY <1>1, <1>3, <2>1, <2>2 DEF VaultOK, TypeOK
<1> QED BY <1>2, <1>4, <1>5, <1>6, RepositorySame, PullSame DEF IInv

\* A commit that is based on versions that exist.
LEMMA NewCommitOK ==
  ASSUME IInv, NEW v \in Versions, NEW b \in Branches, NEW p \in AllVersions, NEW s \in AllVersions,
         NEW stored \in SUBSET made, origin[b] # None, NewCommit(v, b, p, s, stored)
  PROVE  /\ GraphInv' /\ GraphGrows
         /\ made' = made \cup {v} /\ up'[v] = {p, s} /\ branchOf'[v] = b
         /\ v \in anc'[v] /\ anc[p] \subseteq anc'[v] /\ anc[s] \subseteq anc'[v]
         /\ v \in OnBranch(b)'
         /\ v \in AllVersions \ made
<1>1. TypeOK /\ GraphInv /\ v \in AllVersions \ made
    BY DEF NewCommit, IInv, AllVersions
<1>2. {p, s} \in SUBSET made /\ {p, s} \cap OnBranch(b) # {} /\ NewVersion(v, b, {p, s})
    BY DEF NewCommit
<1> QED BY <1>1, <1>2, NewVersionKeepsGraph

\* A commit in the vault.
LEMMA VaultCommitKeeps ==
  ASSUME IInv, NEW v \in Versions, NEW b \in Branches, NEW p \in AllVersions, NEW s \in AllVersions,
         VaultCommit(v, b, p, s)
  PROVE  IInv' /\ HeadsForward
<1> USE DEF VaultCommit, repoVars
<1>1. TypeOK /\ VaultOK /\ origin[b] # None /\ vaultVersions \subseteq made
    BY DEF IInv, VaultOK
<1>2. /\ GraphInv' /\ GraphGrows /\ made' = made \cup {v} /\ v \in OnBranch(b)'
      /\ v \in AllVersions \ made
    BY <1>1, NewCommitOK
<1>3. TypeOK'
    BY <1>1, <1>2 DEF TypeOK, NewCommit, NewVersion, sentVars, importVars
<1>4. \A d \in Branches : vaultHeads'[d] \subseteq vaultHeads[d] \cup (IF d = b THEN {v} ELSE {})
    BY <1>1 DEF TypeOK
<1>5. VaultOK'
  <2>1. \A d \in Branches : OnBranch(d) \subseteq OnBranch(d)'
      BY <1>1, <1>2, OnBranchGrows
  <2> QED BY <1>1, <1>2, <1>4, <2>1 DEF VaultOK, GraphGrows, TypeOK
<1> QED BY <1>2, <1>3, <1>5, RepositorySame, PullSame DEF IInv

\* The origin of a branch is not its head once a version of the branch is stored.
LEMMA OriginIsNoParent ==
  ASSUME IInv, NEW b \in Branches, NEW p \in versions \cap OnBranch(b),
         NEW h \in heads[b], branchOf[h] # b
  PROVE  p = h
<1>1. GraphInv /\ RepositoryOK
    BY DEF IInv
<1>2. h = origin[b] /\ heads[b] = {h}
    BY <1>1 DEF RepositoryOK, HeadsOnBranch
<1>3. CASE branchOf[p] = b
  <2>1. p \in made /\ h \in made
      BY BranchOfMade
  <2>2. p \in anc[h] /\ h \in anc[p]
      BY <1>1, <1>2, <1>3, <2>1 DEF RepositoryOK, NothingLost, GraphInv, BranchesRooted
  <2> QED BY <1>1, <2>1, <2>2 DEF GraphInv, GraphOK
<1> QED BY <1>2, <1>3 DEF OnBranch

\* A commit in the repository, outside RunLocked: the new head descends from
\* the heads it replaces.
LEMMA LocalCommitKeeps ==
  ASSUME IInv, NEW v \in Versions, NEW b \in Branches, NEW p \in AllVersions, NEW s \in AllVersions,
         LocalCommit(v, b, p, s)
  PROVE  IInv' /\ HeadsForward
<1>1. TypeOK /\ GraphInv /\ RepositoryOK /\ origin[b] # None /\ versions \in SUBSET made
    BY DEF IInv, RepositoryOK, LocalCommit
<1>2. /\ GraphInv' /\ GraphGrows /\ made' = made \cup {v} /\ up'[v] = {p, s} /\ branchOf'[v] = b
      /\ v \in anc'[v] /\ anc[p] \subseteq anc'[v] /\ anc[s] \subseteq anc'[v]
      /\ v \in AllVersions \ made
    BY <1>1, NewCommitOK DEF LocalCommit
<1>3. TypeOK'
    BY <1>1, <1>2 DEF TypeOK, LocalCommit, NewCommit, NewVersion, vaultVars, sentVars, importVars
<1>4. /\ \A d \in Branches : heads'[d] = IF d = b THEN (heads[b] \ {p, s}) \cup {v} ELSE heads[d]
      /\ versions' = versions \cup {v} /\ branches' = branches /\ b \in branches
      /\ {p, s} \subseteq versions /\ p \in OnBranch(b)
    BY <1>1 DEF TypeOK, LocalCommit, NewCommit
<1>5. ASSUME NEW d \in Branches, NEW h \in heads[d]
      PROVE  \E g \in heads'[d] : anc[h] \subseteq anc'[g]
  <2>1. h \in made
      BY BranchOfMade
  <2>2. CASE d = b /\ h \in {p, s}
      BY <2>2, <1>2, <1>4
  <2>3. CASE ~(d = b /\ h \in {p, s})
      BY <2>1, <2>3, <1>2, <1>4 DEF GraphGrows
  <2> QED BY <2>2, <2>3
<1>6. HeadsForward
    BY <1>1, <1>5, BranchOfMade DEF GraphInv, GraphOK, HeadsForward
<1>7. RepositoryOK'
  <2>1. versions' \subseteq made' /\ HistoryComplete'
      BY <1>1, <1>2, <1>4 DEF RepositoryOK, HistoryComplete, GraphGrows
  <2>2. NothingLost'
    <3> SUFFICES ASSUME NEW u \in versions' PROVE \E h \in heads'[branchOf'[u]] : u \in anc'[h]
        BY DEF NothingLost
    <3>1. CASE u = v
        BY <3>1, <1>2, <1>4
    <3>2. CASE u # v
      <4>1. u \in versions /\ u \in made
          BY <3>2, <1>4, BranchOfMade
      <4>2. PICK h \in heads[branchOf[u]] : u \in anc[h]
          BY <4>1, <1>1 DEF RepositoryOK, NothingLost
      <4>3. branchOf'[u] = branchOf[u] /\ branchOf[u] \in Branches
          BY <4>1, <1>2, BranchOfMade DEF GraphGrows
      <4> QED BY <4>2, <4>3, <1>5
    <3> QED BY <3>1, <3>2
  <2>3. \A d \in Branches : heads'[d] \subseteq versions'
      BY <1>1, <1>4 DEF RepositoryOK
  <2>4. HeadsOnBranch'
    <3> SUFFICES ASSUME NEW d \in Branches, NEW h \in heads'[d]
                 PROVE  branchOf'[h] = d \/ (h = origin'[d] /\ heads'[d] = {h})
        BY DEF HeadsOnBranch
    <3>1. CASE d # b
      <4>1. h \in made /\ h # None /\ heads'[d] = heads[d]
          BY <3>1, <1>4, BranchOfMade
      <4> QED BY <4>1, <1>1, <1>2 DEF RepositoryOK, HeadsOnBranch, GraphGrows
    <3>2. CASE d = b /\ h # v
      <4>1. h \in heads[b] /\ h # p /\ h \in made
          BY <3>2, <1>4, BranchOfMade
      <4>2. branchOf[h] = b
          BY <4>1, <1>4, OriginIsNoParent
      <4> QED BY <3>2, <4>1, <4>2, <1>2 DEF GraphGrows
    <3> QED BY <3>1, <3>2, <1>2
  <2>5. \A d \in branches' : origin'[d] # None
      BY <1>1, <1>2, <1>4 DEF RepositoryOK, GraphGrows, TypeOK
  <2>6. \A u \in versions' : branchOf'[u] \in branches'
      BY <1>1, <1>2, <1>4, BranchOfMade DEF RepositoryOK, GraphGrows
  <2> QED BY <2>1, <2>2, <2>3, <2>4, <2>5, <2>6 DEF RepositoryOK
<1>8. VaultOK'
    BY <1>2, <1>3, VaultSame DEF LocalCommit
<1>9. PulledOK' /\ TransactionOK'
    BY <1>2, <1>3, <1>4, PullSame DEF LocalCommit
<1> QED BY <1>2, <1>3, <1>6, <1>7, <1>8, <1>9 DEF IInv

\* A push of the repository changes the vault only.
LEMMA PushKeeps ==
  ASSUME IInv, NEW b \in Branches, NEW h \in AllVersions, Push(b, h)
  PROVE  IInv' /\ HeadsForward
<1>1. TypeOK /\ GraphInv /\ VaultOK
    BY DEF IInv
<1>2. UNCHANGED <<graphVars, vaultBranches, repoVars, pc, sentVars, importVars>>
    BY DEF Push
<1>3. GraphInv' /\ GraphGrows /\ \A d \in Branches : OnBranch(d)' = OnBranch(d)
    BY <1>1, <1>2, GraphSame
<1>4. /\ vaultVersions' \subseteq vaultVersions \cup anc[h]
      /\ vaultHeads' \in [Branches -> SUBSET AllVersions]
      /\ \A d \in Branches : vaultHeads'[d] \subseteq vaultHeads[d] \cup {v \in anc[h] : branchOf[v] = d}
    BY <1>1 DEF Push, Maximal, TypeOK
<1>5. h \in made /\ anc[h] \subseteq made
    BY BranchOfMade DEF Push
<1>6. TypeOK'
    BY <1>1, <1>2, <1>4 DEF TypeOK, graphVars, repoVars, sentVars, importVars
<1>7. VaultOK'
  <2>1. \A d \in Branches : {v \in anc[h] : branchOf[v] = d} \subseteq made \cap OnBranch(d)
      BY <1>5 DEF OnBranch
  <2> QED BY <1>1, <1>2, <1>3, <1>4, <1>5, <2>1 DEF VaultOK, graphVars
<1> QED BY <1>2, <1>3, <1>6, <1>7, RepositorySame, PullSame DEF IInv, repoVars

-----------------------------------------------------------------------------
(* The first part of a pull. *)

\* A step of the connection that changes neither database keeps the invariant
\* if it keeps its own part.
LEMMA OwnStep ==
  ASSUME IInv, TypeOK', GraphInv', GraphGrows, UNCHANGED <<vaultVars, repoVars>>,
         PulledOK', TransactionOK'
  PROVE  IInv' /\ HeadsForward
  BY VaultSame, RepositorySame DEF IInv

\* A pull begins: only the head of the branch is to be asked about.
LEMMA StartPullKeeps ==
  ASSUME IInv, NEW b \in Branches, StartPull(b)
  PROVE  IInv' /\ HeadsForward
<1>1. TypeOK /\ GraphInv /\ PulledOK /\ TransactionOK /\ VaultOK
    BY DEF IInv
<1>2. /\ pc \in {"off", "open"} /\ pc' = "query" /\ target' = b /\ frontier' = {tip'} \ pushed
      /\ UNCHANGED <<graphVars, vaultVars, repoVars, pushed, received, headInfo, importVars>>
    BY DEF StartPull
<1>3. GraphInv' /\ GraphGrows /\ \A d \in Branches : OnBranch(d)' = OnBranch(d)
    BY <1>1, <1>2, GraphSame
<1>4. tip' \in made /\ tip' # None /\ tip' \in AllVersions /\ origin[b] # None
    BY <1>1, BranchOfMade DEF StartPull, VaultOK, TypeOK
<1>5. TypeOK'
    BY <1>1, <1>2, <1>4 DEF TypeOK, graphVars, vaultVars, repoVars, importVars
<1>6. PulledOK'
    BY <1>1, <1>2, <1>3, <1>4 DEF PulledOK, graphVars, repoVars
<1>7. TransactionOK'
    BY <1>1, <1>2 DEF TransactionOK, Locked, importVars
<1> QED BY <1>2, <1>3, <1>5, <1>6, <1>7, OwnStep

\* A chunk of the query: the walk ends only at what the repository has.
LEMMA QueryChunkKeeps ==
  ASSUME IInv, QueryChunk
  PROVE  IInv' /\ HeadsForward
<1> DEFINE missing == frontier \ versions
<1>1. TypeOK /\ GraphInv /\ PulledOK /\ TransactionOK
    BY DEF IInv
<1>2. /\ pc = "query" /\ pushed' = pushed \cup missing
      /\ frontier' = (UNION {up[v] : v \in missing}) \ (pushed \cup missing)
      /\ UNCHANGED <<graphVars, vaultVars, repoVars, pc, target, tip, received, headInfo, importVars>>
    BY DEF QueryChunk
<1>3. GraphInv' /\ GraphGrows /\ \A d \in Branches : OnBranch(d)' = OnBranch(d)
    BY <1>1, <1>2, GraphSame
<1>4. missing \subseteq made /\ \A v \in missing : up[v] \subseteq made
    BY <1>1 DEF PulledOK, GraphInv, GraphOK
<1>5. pushed' \cup frontier' \subseteq made
    BY <1>1, <1>2, <1>4 DEF PulledOK
<1>6. TypeOK'
    BY <1>1, <1>2, <1>5 DEF TypeOK, graphVars, vaultVars, repoVars, importVars
<1>7. \A v \in pushed' : up[v] \subseteq pushed' \cup versions \cup frontier'
    BY <1>1, <1>2 DEF PulledOK
<1>8. tip \in pushed' \cup versions \cup frontier'
    BY <1>1, <1>2 DEF PulledOK
<1>9. PulledOK'
    BY <1>1, <1>2, <1>3, <1>5, <1>7, <1>8 DEF PulledOK, graphVars, repoVars
<1>10. TransactionOK'
    BY <1>1, <1>2 DEF TransactionOK, Locked, importVars
<1> QED BY <1>2, <1>3, <1>6, <1>9, <1>10, OwnStep

\* The versions and branches are sent: the walk is finished.
LEMMA SendVersionsKeeps ==
  ASSUME IInv, SendVersions
  PROVE  IInv' /\ HeadsForward
<1>1. TypeOK /\ GraphInv /\ PulledOK /\ TransactionOK /\ VaultOK
    BY DEF IInv
<1>2. /\ pc = "query" /\ frontier = {} /\ pc' = "sent"
      /\ received' = received \cup ((chain[target] \cup UNION {chain[branchOf[v]] : v \in pushed})
                                      \ (branches \cup received))
      /\ UNCHANGED <<graphVars, vaultVars, repoVars, target, tip, frontier, pushed, importVars>>
    BY DEF SendVersions
<1>3. GraphInv' /\ GraphGrows /\ \A d \in Branches : OnBranch(d)' = OnBranch(d)
    BY <1>1, <1>2, GraphSame
<1>4. \A d \in Branches : headInfo'[d] # headInfo[d] => headInfo'[d] \in vaultHeads[d]
  <2>1. \A d \in Branches : Cardinality(vaultHeads[d]) = 1 => vaultHeads[d] # {}
      BY FS_EmptySet
  <2> QED BY <2>1 DEF SendVersions
<1>5. headInfo' \in [Branches -> AllVersions \cup {None}]
  <2>1. \E f \in [Branches -> AllVersions \cup {None}] : headInfo' = f
    <3>1. \A d \in Branches : headInfo'[d] \in AllVersions \cup {None}
        BY <1>1, <1>4 DEF TypeOK
    <3>2. headInfo' = [d \in Branches |-> headInfo'[d]]
        BY DEF SendVersions
    <3> QED BY <3>1, <3>2
  <2> QED BY <2>1
<1>6. target \in Branches /\ \A v \in pushed : v \in made /\ branchOf[v] \in Branches /\ origin[branchOf[v]] # None
    BY <1>1, <1>2, BranchOfMade DEF PulledOK
<1>7. received' \subseteq Branches
    BY <1>1, <1>2, <1>6 DEF TypeOK
<1>8. TypeOK'
    BY <1>1, <1>2, <1>5, <1>7 DEF TypeOK, graphVars, vaultVars, repoVars, importVars
<1>9. \A d \in received' : origin[d] # None
    BY <1>1, <1>2, <1>6 DEF PulledOK, GraphInv, BranchesRooted
<1>10. \A d \in Branches : headInfo'[d] # None => headInfo'[d] \in OnBranch(d)
    BY <1>1, <1>4 DEF PulledOK, VaultOK
<1>11. \A v \in pushed : branchOf[v] \in branches \cup received'
    BY <1>1, <1>2, <1>6 DEF GraphInv, BranchesRooted
<1>12. PulledOK'
    BY <1>1, <1>2, <1>3, <1>9, <1>10, <1>11 DEF PulledOK, graphVars, repoVars
<1>13. TransactionOK'
    BY <1>1, <1>2 DEF TransactionOK, Locked, importVars
<1> QED BY <1>2, <1>3, <1>8, <1>12, <1>13, OwnStep

\* Nothing came.
LEMMA UpToDateKeeps ==
  ASSUME IInv, UpToDate
  PROVE  IInv' /\ HeadsForward
<1> USE DEF UpToDate
<1>1. TypeOK /\ GraphInv /\ PulledOK /\ TransactionOK
    BY DEF IInv
<1>2. GraphInv' /\ GraphGrows /\ \A d \in Branches : OnBranch(d)' = OnBranch(d)
    BY <1>1, GraphSame
<1>3. TypeOK'
    BY <1>1 DEF TypeOK, graphVars, vaultVars, repoVars, sentVars, importVars
<1>4. PulledOK'
    BY <1>1, <1>2 DEF PulledOK, NothingReceived, graphVars, repoVars, sentVars
<1>5. TransactionOK'
    BY <1>1 DEF TransactionOK, Locked, importVars, sentVars
<1> QED BY <1>2, <1>3, <1>4, <1>5, OwnStep

\* The transaction begins, with nothing considered.
LEMMA BeginImportKeeps ==
  ASSUME IInv, BeginImport
  PROVE  IInv' /\ HeadsForward
<1> USE DEF BeginImport
<1>1. TypeOK /\ GraphInv /\ PulledOK /\ TransactionOK
    BY DEF IInv
<1>2. GraphInv' /\ GraphGrows /\ \A d \in Branches : OnBranch(d)' = OnBranch(d)
    BY <1>1, GraphSame
<1>3. TypeOK'
    BY <1>1 DEF TypeOK, graphVars, vaultVars, repoVars, sentVars
<1>4. PulledOK'
    BY <1>1, <1>2 DEF PulledOK, graphVars, repoVars, sentVars
<1>5. temp = NoTemp /\ merged = {} /\ temp' = temp /\ merged' = merged
    BY <1>1 DEF TransactionOK, Locked
<1>6. ASSUME NEW b \in Branches PROVE TempOK(b)'
  <2>1. temp'[b] = {}
      BY <1>5 DEF NoTemp
  <2>2. pushed' \ todo' = {}
      BY DEF sentVars
  <2>3. Maximal(temp[b])' = {}
      BY <2>1 DEF Maximal
  <2> QED BY <2>1, <2>2, <2>3 DEF TempOK
<1>7. MergedOK'
    BY <1>5 DEF MergedOK
<1>8. TransactionOK'
    BY <1>1, <1>5, <1>6, <1>7 DEF TransactionOK, Locked, sentVars
<1> QED BY <1>2, <1>3, <1>4, <1>8, OwnStep

\* The connection ends: nothing of it is left, and the repository is as it was.
LEMMA EndKeeps ==
  ASSUME IInv, EndSession
  PROVE  IInv' /\ HeadsForward
<1> USE DEF EndSession
<1>1. TypeOK /\ GraphInv
    BY DEF IInv
<1>2. GraphInv' /\ GraphGrows
    BY <1>1, GraphSame
<1>3. TypeOK'
    BY <1>1 DEF TypeOK, graphVars, vaultVars, repoVars, NoTemp, NoInfo
<1>4. PulledOK'
    BY DEF PulledOK, NoInfo
<1>5. TransactionOK'
    BY DEF TransactionOK, Locked
<1> QED BY <1>2, <1>3, <1>4, <1>5, OwnStep

-----------------------------------------------------------------------------
(* The transaction of PullVersions. *)

\* The heads the loop starts from cover the heads of the branch and what was
\* considered before; only the branch's origin may be among them, alone.
LEMMA StartHeadsOK ==
  ASSUME IInv, pc = "accept", NEW v \in todo
  PROVE  LET b == branchOf[v]  hs == StartHeads(b, v) IN
         /\ v \in pushed /\ b \in Branches
         /\ hs \subseteq pushed \cup heads[b] \cup merged
         /\ hs \subseteq made
         /\ \A g \in hs : branchOf[g] = b \/ (g = origin[b] /\ hs = {g})
         /\ \A h \in heads[b] : \E g \in hs : h \in anc[g]
         /\ \A u \in pushed \ todo : branchOf[u] = b => \E g \in hs : u \in anc[g]
         /\ heads[b] = Maximal(heads[b]) => hs = Maximal(hs)
<1> DEFINE b == branchOf[v]
           hs == StartHeads(b, v)
<1>1. GraphOK /\ PulledOK /\ TransactionOK /\ RepositoryOK
    BY DEF IInv, GraphInv
<1>2. v \in pushed /\ v \in made /\ b \in Branches
    BY <1>1, BranchOfMade DEF TransactionOK
<1>3. TempOK(b) /\ MergedOK
    BY <1>1, <1>2 DEF TransactionOK, Locked
<1>4. merged \subseteq made /\ heads[b] \subseteq made /\ pushed \subseteq made
    BY <1>2, <1>3, BranchOfMade DEF MergedOK
<1>5. CASE temp[b] # {}
  <2>1. hs = temp[b]
      BY <1>5 DEF StartHeads
  <2> QED BY <1>2, <1>3, <1>4, <1>5, <2>1 DEF TempOK
<1>6. CASE temp[b] = {} /\ heads[b] = {}
  <2>1. hs = {v}
      BY <1>6 DEF StartHeads
  <2>2. \A u \in pushed \ todo : branchOf[u] # b
      BY <1>3, <1>6 DEF TempOK
  <2>3. {v} = Maximal({v})
      BY DEF Maximal
  <2> QED BY <1>2, <1>6, <2>1, <2>2, <2>3
<1>7. CASE temp[b] = {} /\ heads[b] # {}
  <2>1. hs = heads[b]
      BY <1>7 DEF StartHeads
  <2>2. \A u \in pushed \ todo : branchOf[u] # b
      BY <1>3, <1>7 DEF TempOK
  <2>3. \A h \in heads[b] : h \in anc[h]
      BY <1>1, <1>4 DEF GraphOK
  <2>4. \A h \in heads[b] : branchOf[h] = b \/ (h = origin[b] /\ heads[b] = {h})
      BY <1>1, <1>2 DEF RepositoryOK, HeadsOnBranch
  <2> QED BY <1>2, <1>4, <2>1, <2>2, <2>3, <2>4
<1> QED BY <1>5, <1>6, <1>7

\* A turn of the loop: the new temporary heads cover what the old ones did and
\* the version itself, and are as much apart as they were.
LEMMA NewHeadsOK ==
  ASSUME GraphInv, NEW v \in made, NEW hs \in SUBSET made,
         \A g \in hs : branchOf[g] = branchOf[v] \/ (g = origin[branchOf[v]] /\ hs = {g})
  PROVE  LET new == NewHeads(hs, v) IN
         /\ new \subseteq hs \cup {v} /\ new # {}
         /\ \A g \in new : branchOf[g] = branchOf[v]
         /\ \A h \in hs : \E g \in new : anc[h] \subseteq anc[g]
         /\ \E g \in new : v \in anc[g]
         /\ hs = Maximal(hs) => new = Maximal(new)
<1> DEFINE new == NewHeads(hs, v)
<1>1. /\ \A u \in made : u \in anc[u] /\ \A w \in anc[u] : anc[w] \subseteq anc[u]
      /\ \A u \in made : \A w \in anc[u] : u \in anc[w] => u = w
      /\ origin[branchOf[v]] \in anc[v]
    BY DEF GraphInv, GraphOK, BranchesRooted
<1>2. CASE \E h \in hs : v \in anc[h]
  <2>1. new = hs
      BY <1>2 DEF NewHeads
  <2>2. \A g \in hs : branchOf[g] = branchOf[v]
      BY <1>1, <1>2
  <2> QED BY <1>2, <2>1, <2>2
<1>3. CASE ~ \E h \in hs : v \in anc[h]
  <2>1. new = {h \in hs : h \notin anc[v]} \cup {v}
      BY <1>3 DEF NewHeads
  <2>2. \A g \in new : branchOf[g] = branchOf[v]
      BY <1>1, <2>1
  <2>3. \A h \in hs : \E g \in new : anc[h] \subseteq anc[g]
      BY <1>1, <2>1
  <2>4. v \in new /\ v \in anc[v]
      BY <1>1, <2>1
  <2>5. hs = Maximal(hs) => new = Maximal(new)
      BY <1>3, <2>1 DEF Maximal
  <2> QED BY <2>1, <2>2, <2>3, <2>4, <2>5
<1> QED BY <1>2, <1>3

LEMMA ConsiderKeeps ==
  ASSUME IInv, NEW v \in AllVersions, Consider(v)
  PROVE  IInv' /\ HeadsForward
<1> DEFINE b == branchOf[v]
           hs == StartHeads(b, v)
           new == NewHeads(hs, v)
<1>1. TypeOK /\ GraphInv /\ PulledOK /\ TransactionOK
    BY DEF IInv
<1>2. /\ pc = "accept" /\ v \in todo /\ todo' = todo \ {v}
      /\ pc' = IF todo' = {} THEN "merge" ELSE "accept"
      /\ UNCHANGED <<graphVars, vaultVars, repoVars, sentVars, merged>>
    BY DEF Consider
<1>3. GraphInv' /\ GraphGrows /\ \A d \in Branches : OnBranch(d)' = OnBranch(d)
    BY <1>1, <1>2, GraphSame
<1>4. /\ v \in pushed /\ v \in made /\ b \in Branches
      /\ hs \subseteq pushed \cup heads[b] \cup merged /\ hs \subseteq made
      /\ \A g \in hs : branchOf[g] = b \/ (g = origin[b] /\ hs = {g})
      /\ \A h \in heads[b] : \E g \in hs : h \in anc[g]
      /\ \A u \in pushed \ todo : branchOf[u] = b => \E g \in hs : u \in anc[g]
      /\ heads[b] = Maximal(heads[b]) => hs = Maximal(hs)
    BY <1>2, StartHeadsOK, BranchOfMade
<1>5. b \in branches \cup received /\ merged = {}
    BY <1>1, <1>2, <1>4 DEF PulledOK, TransactionOK
<1>6. temp' = [temp EXCEPT ![b] = new]
    BY <1>5 DEF Consider
<1> HIDE DEF hs
<1>7. /\ new \subseteq hs \cup {v} /\ new # {}
      /\ \A g \in new : branchOf[g] = b
      /\ \A h \in hs : \E g \in new : anc[h] \subseteq anc[g]
      /\ \E g \in new : v \in anc[g]
      /\ hs = Maximal(hs) => new = Maximal(new)
    BY <1>1, <1>4, NewHeadsOK
<1> HIDE DEF new
<1>8. \A d \in Branches : temp'[d] = IF d = b THEN new ELSE temp[d]
    BY <1>1, <1>6 DEF TypeOK
<1>9. new \subseteq AllVersions
    BY <1>1, <1>4, <1>7 DEF TypeOK
<1>10. TypeOK'
    BY <1>1, <1>2, <1>6, <1>9 DEF TypeOK, graphVars, vaultVars, repoVars, sentVars
<1>11. PulledOK'
    BY <1>1, <1>2, <1>3 DEF PulledOK, graphVars, repoVars, sentVars
<1>12. ASSUME NEW d \in Branches, d = b PROVE TempOK(d)'
  <2>1. \A h \in heads[b] : \E g \in new : h \in anc[g]
      BY <1>4, <1>7
  <2>2. \A u \in pushed \ todo' : branchOf[u] = b => \E g \in new : u \in anc[g]
      BY <1>2, <1>4, <1>7
  <2>3. new \subseteq pushed \cup heads[b] \cup merged
      BY <1>4, <1>7
  <2>4. temp'[d] = new
      BY <1>8, <1>12
  <2>5. Maximal(heads[d])' = Maximal(heads[b]) /\ Maximal(temp[d])' = Maximal(new)
      BY <2>4, <1>2, <1>12 DEF Maximal, graphVars, repoVars
  <2> QED BY <1>2, <1>4, <1>5, <1>7, <1>12, <2>1, <2>2, <2>3, <2>4, <2>5 DEF TempOK, graphVars, repoVars, sentVars
<1>13. ASSUME NEW d \in Branches, d # b PROVE TempOK(d)'
  <2>1. TempOK(d) /\ temp'[d] = temp[d]
      BY <1>1, <1>2, <1>8, <1>13 DEF TransactionOK, Locked
  <2>2. Maximal(heads[d])' = Maximal(heads[d]) /\ Maximal(temp[d])' = Maximal(temp[d])
      BY <2>1, <1>2 DEF Maximal, graphVars, repoVars
  <2> QED BY <1>2, <1>13, <2>1, <2>2 DEF TempOK, graphVars, repoVars, sentVars
<1>14. TransactionOK'
  <2>1. MergedOK'
      BY <1>2, <1>5 DEF MergedOK
  <2>2. \A d \in Branches : TempOK(d)'
      BY <1>12, <1>13
  <2> QED BY <1>1, <1>2, <1>5, <2>1, <2>2 DEF TransactionOK, Locked, sentVars
<1> QED BY <1>2, <1>3, <1>10, <1>11, <1>14, OwnStep

\* An automerge: the new version descends from the two heads it replaces.
LEMMA AutomergeKeeps ==
  ASSUME IInv, NEW b \in Branches, NEW local \in AllVersions, NEW m \in MergeIds,
         Automerge(b, local, m)
  PROVE  IInv' /\ HeadsForward
<1>1. TypeOK /\ GraphInv /\ PulledOK /\ TransactionOK /\ RepositoryOK
    BY DEF IInv
<1>2. PICK remote \in temp[b] :
        /\ temp[b] \ heads[b] = {remote}
        /\ NewVersion(m, branchOf[local], {local, remote})
        /\ temp' = [temp EXCEPT ![b] = (@ \ {local, remote}) \cup {m}]
    BY DEF Automerge
<1>3. /\ pc = "merge" /\ local \in heads[b] /\ m \in AllVersions \ made
      /\ temp[b] \cap merged = {} /\ merged' = merged \cup {m}
      /\ UNCHANGED <<vaultVars, repoVars, pc, sentVars, todo>>
    BY DEF Automerge, AllVersions
<1>4. MergedOK /\ \A d \in Branches : TempOK(d)
    BY <1>1, <1>3 DEF TransactionOK, Locked
<1>5. merged \subseteq made /\ pushed \subseteq made /\ \A d \in Branches : heads[d] \subseteq made /\ temp[d] \subseteq made
    BY <1>4, BranchOfMade DEF MergedOK, TempOK
<1>6. local \in made /\ local \in versions /\ remote \in made /\ remote \in pushed /\ branchOf[remote] = b
    BY <1>2, <1>3, <1>4, <1>5, BranchOfMade DEF TempOK
\* The local head is a version of the branch, not the one it was created at.
<1>7. branchOf[local] = b
  <2>1. temp[b] # {remote}
    <3>1. Cardinality(temp[b]) # 1
        BY DEF Automerge
    <3> QED BY <3>1, FS_Singleton
  <2>2. CASE heads[b] = {local}
      BY <2>1, <2>2, <1>2, <1>4 DEF TempOK
  <2>3. CASE heads[b] # {local}
      BY <2>3, <1>1, <1>3 DEF RepositoryOK, HeadsOnBranch
  <2> QED BY <2>2, <2>3
<1>8. /\ GraphInv' /\ GraphGrows /\ made' = made \cup {m}
      /\ up'[m] = {local, remote} /\ branchOf'[m] = b
      /\ anc'[m] = {m} \cup anc[local] \cup anc[remote]
  <2>1. {local, remote} \in SUBSET made /\ origin[b] # None
      BY <1>6, <1>7, BranchOfMade
  <2>2. {local, remote} \cap OnBranch(b) # {}
      BY <1>6 DEF OnBranch
  <2>3. NewVersion(m, b, {local, remote})
      BY <1>2, <1>7
  <2>4. /\ GraphInv' /\ GraphGrows /\ made' = made \cup {m}
        /\ up'[m] = {local, remote} /\ branchOf'[m] = b
        /\ anc'[m] = {m} \cup UNION {anc[u] : u \in {local, remote}}
      BY <1>1, <1>3, <2>1, <2>2, <2>3, NewVersionKeepsGraph
  <2> QED BY <2>4
<1>9. \A d \in Branches : temp'[d] = IF d = b THEN (temp[b] \ {local, remote}) \cup {m} ELSE temp[d]
    BY <1>1, <1>2 DEF TypeOK
<1>10. TypeOK'
  <2>1. temp' \in [Branches -> SUBSET AllVersions]
      BY <1>1, <1>2, <1>3 DEF TypeOK
  <2>2. /\ made' \subseteq AllVersions
        /\ up' \in [AllVersions -> SUBSET AllVersions]
        /\ anc' \in [AllVersions -> SUBSET AllVersions]
        /\ branchOf' \in [AllVersions -> Branches \cup {None}]
        /\ origin' = origin /\ chain' = chain
      BY <1>1, <1>2, <1>3, <1>6 DEF NewVersion, TypeOK
  <2> QED BY <1>1, <1>3, <2>1, <2>2 DEF TypeOK, vaultVars, repoVars, sentVars
<1>11. PulledOK'
  <2>1. \A d \in Branches : OnBranch(d) \subseteq OnBranch(d)'
      BY <1>1, <1>8, OnBranchGrows
  <2>2. received \subseteq Branches
      BY <1>1 DEF TypeOK
  <2> QED BY <1>1, <1>3, <1>5, <1>8, <2>1, <2>2 DEF PulledOK, repoVars, sentVars, GraphGrows
<1>12. ASSUME NEW d \in Branches, d # b PROVE TempOK(d)'
  <2>1. TempOK(d) /\ temp'[d] = temp[d]
      BY <1>4, <1>9, <1>12
  <2>2. Maximal(heads[d])' = Maximal(heads[d]) /\ Maximal(temp[d])' = Maximal(temp[d])
      BY <2>1, <1>3, <1>5, <1>8 DEF Maximal, repoVars, GraphGrows
  <2> QED BY <1>3, <1>5, <1>8, <2>1, <2>2 DEF TempOK, repoVars, sentVars, GraphGrows
<1>13. TempOK(b)'
  <2> DEFINE new == (temp[b] \ {local, remote}) \cup {m}
  <2>1. TempOK(b) /\ temp'[b] = new
      BY <1>4, <1>9
  <2>2. \A g \in temp[b] : \E n \in new : anc[g] \subseteq anc'[n]
      BY <1>5, <1>8 DEF GraphGrows
  <2>3. \A u \in made : u \in anc'[m] \/ anc'[u] = anc[u]
      BY <1>8 DEF GraphGrows
  <2>4. \A u \in made : (\E g \in temp[b] : u \in anc[g]) => \E n \in new : u \in anc'[n]
      BY <2>2
  <2>5. ASSUME heads[b] = Maximal(heads[b]) PROVE \A g, n \in new : g # n => g \notin anc'[n]
    <3>1. \A g, n \in temp[b] : g # n => g \notin anc[n]
        BY <2>1, <2>5 DEF TempOK, Maximal
    <3>2. \A g \in temp[b] \ {local, remote} : g \notin anc[local]
        BY <1>2, <1>3, <2>5 DEF Maximal
    <3>3. \A g \in temp[b] \ {local, remote} : g \notin anc'[m] /\ anc'[g] = anc[g] /\ m \notin anc[g]
        BY <1>1, <1>2, <1>3, <1>5, <1>8, <3>1, <3>2 DEF GraphGrows, GraphInv, GraphOK
    <3> QED BY <3>1, <3>3
  <2>6. Maximal(heads[b])' = Maximal(heads[b])
      BY <1>3, <1>5, <1>8 DEF Maximal, repoVars, GraphGrows
  <2>7. heads'[b] = Maximal(heads[b])' => temp'[b] = Maximal(temp[b])'
      BY <1>3, <2>1, <2>5, <2>6 DEF Maximal, repoVars
  <2>8. \A g \in new : branchOf'[g] = b
      BY <1>5, <1>8, <2>1 DEF TempOK, GraphGrows
  <2>9. new \subseteq pushed \cup heads[b] \cup merged'
      BY <1>3, <2>1 DEF TempOK
  <2> HIDE DEF new
  <2>10. \A h \in heads[b] : \E n \in new : h \in anc'[n]
      BY <1>2, <1>5, <2>1, <2>4 DEF TempOK
  <2>11. \A u \in pushed \ todo : branchOf'[u] = b => \E n \in new : u \in anc'[n]
      BY <1>5, <1>8, <2>1, <2>4 DEF TempOK, GraphGrows
  <2>12. b \in branches \cup received
      BY <1>2, <2>1 DEF TempOK
  <2> QED BY <1>3, <2>1, <2>7, <2>8, <2>9, <2>10, <2>11, <2>12 DEF TempOK, repoVars, sentVars
<1>14. MergedOK'
  <2>1. \A n \in merged : n \in made /\ branchOf[n] # b /\ branchOf[n] \in Branches
      BY <1>3, <1>4, BranchOfMade DEF MergedOK
  <2>2. \A n \in merged : up[n] \subseteq pushed \cup versions /\ n \in temp'[branchOf[n]]
      BY <1>4, <1>9, <2>1 DEF MergedOK
  <2> QED BY <1>3, <1>6, <1>8, <1>9, <2>1, <2>2 DEF MergedOK, GraphGrows, sentVars, repoVars
<1>15. TransactionOK'
    BY <1>1, <1>3, <1>12, <1>13, <1>14 DEF TransactionOK, Locked, sentVars
<1> QED BY <1>3, <1>8, <1>10, <1>11, <1>15, OwnStep

\* The commit: what was received and merged completes the repository, and the
\* new heads of each branch cover the old ones and everything that came.
LEMMA CommitKeeps ==
  ASSUME IInv, Commit
  PROVE  /\ IInv' /\ HeadsForward
         /\ \A b \in Branches : heads[b] = Maximal(heads[b]) => heads'[b] = Maximal(heads'[b])
<1>1. TypeOK /\ GraphInv /\ PulledOK /\ TransactionOK /\ RepositoryOK
    BY DEF IInv
<1>2. /\ pc = "merge" /\ pc' = "open"
      /\ versions' = versions \cup pushed \cup merged
      /\ branches' = branches \cup received
      /\ todo' = {} /\ temp' = NoTemp /\ merged' = {}
      /\ UNCHANGED <<graphVars, vaultVars, target, tip, frontier, pushed, received>>
    BY DEF Commit
<1>3. GraphInv' /\ GraphGrows /\ \A d \in Branches : OnBranch(d)' = OnBranch(d)
    BY <1>1, <1>2, GraphSame
<1>4. /\ MergedOK /\ \A d \in Branches : TempOK(d)
      /\ todo = {} /\ frontier = {}
    BY <1>1, <1>2 DEF TransactionOK, PulledOK, Locked
<1>5. /\ merged \subseteq made /\ pushed \subseteq made /\ versions \subseteq made
      /\ \A m \in merged : branchOf[m] \in Branches
      /\ \A d \in Branches : heads[d] \subseteq made /\ heads[d] \subseteq versions
    BY <1>4, BranchOfMade DEF MergedOK
<1>6. \A b \in Branches :
        \/ temp[b] # {} /\ heads'[b] = temp[b]
        \/ /\ temp[b] = {} /\ heads[b] = {} /\ headInfo[b] \in versions'
           /\ heads'[b] = {headInfo[b]}
        \/ temp[b] = {} /\ heads'[b] = heads[b]
    BY DEF Commit
<1>7. \A b \in Branches : temp[b] \subseteq versions'
    BY <1>2, <1>4, <1>5 DEF TempOK
<1>8. versions' \subseteq made /\ made \subseteq AllVersions
    BY <1>1, <1>2, <1>5 DEF TypeOK
<1>9. \A b \in Branches : heads'[b] \subseteq versions'
    BY <1>2, <1>5, <1>6, <1>7
<1>10. \A b \in Branches : \A h \in heads[b] : \E g \in heads'[b] : g \in made /\ h \in anc[g]
    BY <1>1, <1>4, <1>5, <1>6, <1>8, <1>9 DEF TempOK, GraphInv, GraphOK
<1>11. HeadsForward
    BY <1>2, <1>10 DEF HeadsForward, graphVars
<1>12. RepositoryOK'
  <2>1. versions' \subseteq made' /\ \A b \in Branches : heads'[b] \subseteq versions'
      BY <1>2, <1>8, <1>9 DEF graphVars
  <2>2. HistoryComplete'
      BY <1>1, <1>2, <1>4 DEF RepositoryOK, HistoryComplete, PulledOK, MergedOK, graphVars
  <2>3. NothingLost'
    <3> SUFFICES ASSUME NEW u \in versions' PROVE \E g \in heads'[branchOf[u]] : u \in anc[g]
        BY <1>2 DEF NothingLost, graphVars
    <3>1. u \in made /\ branchOf[u] \in Branches /\ u \in anc[u]
        BY <1>1, <1>8, BranchOfMade DEF GraphInv, GraphOK
    <3>2. CASE u \in versions
      <4>1. PICK h \in heads[branchOf[u]] : u \in anc[h]
          BY <3>2, <1>1 DEF RepositoryOK, NothingLost
      <4>2. PICK g \in heads'[branchOf[u]] : g \in made /\ h \in anc[g]
          BY <3>1, <4>1, <1>10
      <4> QED BY <4>1, <4>2, <1>1 DEF GraphInv, GraphOK
    <3>3. CASE u \in pushed
        BY <3>1, <3>3, <1>4, <1>6 DEF TempOK
    <3>4. CASE u \in merged
        BY <3>1, <3>4, <1>4, <1>6 DEF MergedOK
    <3> QED BY <3>2, <3>3, <3>4, <1>2
  <2>4. HeadsOnBranch'
    <3> SUFFICES ASSUME NEW b \in Branches, NEW h \in heads'[b]
                 PROVE  branchOf[h] = b \/ (h = origin[b] /\ heads'[b] = {h})
        BY <1>2 DEF HeadsOnBranch, graphVars
    <3>1. CASE heads'[b] = temp[b]
        BY <3>1, <1>4 DEF TempOK
    <3>2. CASE heads'[b] = {headInfo[b]}
      <4>1. h = headInfo[b] /\ h # None
          BY <3>2, <1>8, <1>9, BranchOfMade
      <4> QED BY <3>2, <4>1, <1>1 DEF PulledOK, OnBranch
    <3>3. CASE heads'[b] = heads[b]
        BY <3>3, <1>1 DEF RepositoryOK, HeadsOnBranch
    <3> QED BY <3>1, <3>2, <3>3, <1>6
  <2>5. \A b \in branches' : origin'[b] # None
      BY <1>1, <1>2 DEF RepositoryOK, PulledOK, graphVars
  <2>6. \A u \in versions' : branchOf'[u] \in branches'
    <3>1. \A u \in pushed : branchOf[u] \in branches'
        BY <1>1, <1>2 DEF PulledOK
    <3>2. \A u \in merged : branchOf[u] \in branches'
        BY <1>2, <1>4, <1>5 DEF MergedOK, TempOK
    <3> QED BY <3>1, <3>2, <1>1, <1>2 DEF RepositoryOK, graphVars
  <2> QED BY <2>1, <2>2, <2>3, <2>4, <2>5, <2>6 DEF RepositoryOK
<1>13. \A b \in Branches : headInfo'[b] # None => headInfo'[b] = headInfo[b]
    BY DEF Commit
<1>14. TypeOK'
  <2>1. headInfo' \in [Branches -> AllVersions \cup {None}]
      BY <1>1 DEF Commit, TypeOK
  <2>2. heads' \in [Branches -> SUBSET AllVersions]
    <3>1. \A b \in Branches : heads'[b] \subseteq AllVersions
        BY <1>8, <1>9
    <3>2. heads' = [b \in Branches |-> heads'[b]]
        BY DEF Commit
    <3> QED BY <3>1, <3>2
  <2> QED BY <1>1, <1>2, <1>8, <2>1, <2>2 DEF TypeOK, NoTemp, graphVars, vaultVars
<1>15. VaultOK'
    BY <1>2, <1>3, <1>14, VaultSame
<1>16. PulledOK'
    BY <1>1, <1>2, <1>3, <1>13 DEF PulledOK, graphVars
<1>17. TransactionOK'
    BY <1>2 DEF TransactionOK, Locked
<1>18. \A b \in Branches : heads[b] = Maximal(heads[b]) => heads'[b] = Maximal(heads'[b])
  <2> SUFFICES ASSUME NEW b \in Branches, heads[b] = Maximal(heads[b])
               PROVE  heads'[b] = Maximal(heads'[b])
      OBVIOUS
  <2>1. CASE heads'[b] = temp[b]
      BY <2>1, <1>4 DEF TempOK
  <2>2. CASE heads'[b] = {headInfo[b]}
      BY <2>2 DEF Maximal
  <2>3. CASE heads'[b] = heads[b]
      BY <2>3
  <2> QED BY <2>1, <2>2, <2>3, <1>6
<1> QED BY <1>3, <1>11, <1>12, <1>14, <1>15, <1>16, <1>17, <1>18 DEF IInv

-----------------------------------------------------------------------------
(* The theorems. *)

LEMMA InitIInv == Init => IInv
<1> SUFFICES ASSUME Init PROVE IInv
    OBVIOUS
<1> USE NoneAssumption, TrunkAssumption, IdsAssumption DEF Init
<1>1. TypeOK
    BY DEF TypeOK, RootHead, NoInfo, NoTemp, AllVersions
<1>2. GraphInv
    BY DEF GraphInv, GraphOK, AncestryIsLeast, BranchesRooted, Closed, AllVersions
<1>3. VaultOK
    BY DEF VaultOK, RootHead, OnBranch, AllVersions
<1>4. RepositoryOK
  <2>1. HistoryComplete /\ NothingLost
      BY DEF HistoryComplete, NothingLost, RootHead, AllVersions
  <2>2. HeadsOnBranch
      BY DEF HeadsOnBranch, RootHead, AllVersions
  <2> QED BY <2>1, <2>2 DEF RepositoryOK, RootHead, AllVersions
<1>5. PulledOK
    BY DEF PulledOK, NoInfo
<1>6. TransactionOK
    BY DEF TransactionOK, Locked
<1> QED BY <1>1, <1>2, <1>3, <1>4, <1>5, <1>6 DEF IInv

\* Every step keeps the invariant, and the heads of the repository move forward.
LEMMA NextKeeps ==
  ASSUME IInv, [Next]_vars
  PROVE  IInv' /\ HeadsForward
<1>1. CASE Others
    BY <1>1, VaultBranchKeeps, VaultCommitKeeps, LocalCommitKeeps, PushKeeps DEF Others
<1>2. CASE \E b \in Branches : StartPull(b) \/ PullRefused(b)
    BY <1>2, StartPullKeeps, EndKeeps DEF PullRefused
<1>3. CASE Pull
    BY <1>3, QueryChunkKeeps, SendVersionsKeeps, UpToDateKeeps, BeginImportKeeps, CommitKeeps,
       ConsiderKeeps, AutomergeKeeps DEF Pull
<1>4. CASE Disconnect
    BY <1>4, EndKeeps DEF Disconnect
<1>5. CASE UNCHANGED vars
  <2> USE <1>5 DEF vars
  <2>1. TypeOK /\ GraphInv
      BY DEF IInv
  <2>2. GraphInv' /\ GraphGrows
      BY <2>1, GraphSame
  <2>3. TypeOK'
      BY <2>1 DEF TypeOK, graphVars, vaultVars, repoVars, sentVars, importVars
  <2>4. PulledOK' /\ TransactionOK'
      BY <2>2, <2>3, PullSame DEF repoVars
  <2> QED BY <2>2, <2>3, <2>4, OwnStep
<1> QED BY <1>1, <1>2, <1>3, <1>4, <1>5 DEF Next

THEOREM InductiveInvariant == Spec => []IInv
<1>1. IInv /\ [Next]_vars => IInv'
    BY NextKeeps
<1> QED BY InitIInv, <1>1, PTL DEF Spec

\* Every variable holds a value of its kind, for any sets of versions and
\* branches.
THEOREM TypeCorrect == Spec => []TypeOK
<1>1. IInv => TypeOK
    BY DEF IInv
<1> QED BY InductiveInvariant, <1>1, PTL

\* A pull that came to its end delivered the head of the branch with its whole
\* history, although what the repository had was asked chunk by chunk, without
\* a lock, and over several pulls of one connection.
THEOREM PulledStored == Spec => []PulledIsStored
<1>1. ASSUME IInv, pc = "open"
      PROVE  /\ anc[tip] \subseteq versions
             /\ \E h \in heads[branchOf[tip]] : tip \in anc[h]
  <2>1. TypeOK /\ GraphInv /\ PulledOK /\ RepositoryOK
      BY <1>1 DEF IInv
  <2>2. tip \in made /\ tip \in versions
      BY <2>1, <1>1 DEF PulledOK
  <2>3. anc[tip] \subseteq versions
    <3>1. Closed(versions) /\ versions \in SUBSET AllVersions
        BY <2>1 DEF Closed, RepositoryOK, HistoryComplete, TypeOK
    <3> QED BY <2>1, <2>2, <3>1 DEF GraphInv, AncestryIsLeast
  <2> QED BY <2>1, <2>2, <2>3 DEF RepositoryOK, NothingLost
<1>2. IInv => PulledIsStored
    BY <1>1 DEF PulledIsStored
<1> QED BY InductiveInvariant, <1>2, PTL

\* A pull leaves no head behind that another head of the branch descends from.
THEOREM HeadsStayApart == Spec => HeadsApart
<1>1. ASSUME IInv, [Next]_vars, pc = "merge", pc' = "open"
      PROVE  \A b \in Branches : heads[b] = Maximal(heads[b]) => heads'[b] = Maximal(heads'[b])
  <2>1. Commit
    <3>1. ~(UNCHANGED vars) /\ ~Others /\ ~Disconnect
        BY <1>1 DEF vars, Others, VaultBranch, VaultCommit, LocalCommit, Push, Disconnect, EndSession
    <3>2. ~(\E b \in Branches : StartPull(b) \/ PullRefused(b))
        BY <1>1 DEF StartPull, PullRefused, EndSession
    <3>3. Pull
        BY <1>1, <3>1, <3>2 DEF Next
    <3> QED BY <1>1, <3>3 DEF Pull, QueryChunk, SendVersions, UpToDate, BeginImport, Consider, Automerge
  <2> QED BY <1>1, <2>1, CommitKeeps
<1>2. IInv /\ [Next]_vars =>
        [pc = "merge" /\ pc' = "open" =>
           \A b \in Branches : heads[b] = Maximal(heads[b]) => heads'[b] = Maximal(heads'[b])]_vars
    BY <1>1
<1> QED BY InductiveInvariant, <1>2, PTL DEF Spec, HeadsApart

-----------------------------------------------------------------------------
(* The repository implements VersionStore. *)

\* A step writes at most one version, on top of existing ones, and what the
\* repository stores only grows.
LEMMA StepsOfTheStore ==
  ASSUME IInv, [Next]_vars
  PROVE  /\ \/ UNCHANGED Repository!graph
            \/ \E v \in AllVersions, b \in Branches, p, s \in AllVersions :
                 Repository!Write(v, b, {p, s})
         /\ versions \subseteq versions'
<1> DEFINE Writes == \E v \in AllVersions, b \in Branches, p, s \in AllVersions :
                       Repository!Write(v, b, {p, s})
<1>1. TypeOK
    BY DEF IInv
<1>2. ASSUME NEW v \in Versions, NEW b \in Branches, NEW p \in AllVersions, NEW s \in AllVersions,
             VaultCommit(v, b, p, s) \/ LocalCommit(v, b, p, s)
      PROVE  Writes /\ versions \subseteq versions'
  <2>1. /\ v \in AllVersions \ made /\ {p, s} \subseteq made
        /\ NewVersion(v, b, {p, s})
      BY <1>2, BranchOfMade DEF VaultCommit, LocalCommit, NewCommit, AllVersions
  <2>2. Repository!Write(v, b, {p, s})
      BY <2>1 DEF NewVersion, Repository!Write
  <2> QED BY <1>2, <2>1, <2>2 DEF VaultCommit, LocalCommit, repoVars
<1>3. ASSUME NEW b \in Branches, NEW local \in AllVersions, NEW m \in MergeIds, Automerge(b, local, m)
      PROVE  Writes /\ versions \subseteq versions'
  <2>1. PICK remote \in temp[b] : NewVersion(m, branchOf[local], {local, remote})
      BY <1>3 DEF Automerge
  <2>2. remote \in pushed \cup heads[b] \cup merged /\ merged \subseteq made
      BY <1>3, <2>1 DEF Automerge, IInv, TransactionOK, TempOK, MergedOK, Locked
  <2>3. {local, remote} \subseteq made /\ branchOf[local] \in Branches /\ m \in AllVersions \ made
      BY <1>3, <2>2, BranchOfMade DEF Automerge, AllVersions
  <2>4. Repository!Write(m, branchOf[local], {local, remote})
      BY <2>1, <2>3 DEF NewVersion, Repository!Write
  <2>5. remote \in AllVersions /\ m \in AllVersions
      BY <1>1, <2>3 DEF TypeOK
  <2> QED BY <1>3, <2>3, <2>4, <2>5 DEF Automerge, repoVars
<1>4. ASSUME \/ \E b, on \in Branches, at \in AllVersions : VaultBranch(b, on, at)
             \/ \E b \in Branches, h \in AllVersions : Push(b, h)
             \/ \E b \in Branches : StartPull(b) \/ PullRefused(b)
             \/ QueryChunk \/ SendVersions \/ UpToDate \/ BeginImport \/ Commit
             \/ \E v \in AllVersions : Consider(v)
             \/ Disconnect
             \/ UNCHANGED vars
      PROVE  UNCHANGED Repository!graph /\ versions \subseteq versions'
    BY <1>4 DEF VaultBranch, Push, StartPull, PullRefused, QueryChunk, SendVersions, UpToDate,
         BeginImport, Commit, Consider, Disconnect, EndSession, vars, graphVars, repoVars,
         Repository!graph
<1> HIDE DEF Writes
<1>5. (UNCHANGED Repository!graph \/ Writes) /\ versions \subseteq versions'
  <2>1. CASE Others
      BY <2>1, <1>2, <1>4 DEF Others
  <2>2. CASE Pull
      BY <2>2, <1>3, <1>4 DEF Pull
  <2> QED BY <2>1, <2>2, <1>4 DEF Next
<1> QED BY <1>5 DEF Writes

\* A step takes into the repository what it adds, as the store does.
LEMMA TakesIn ==
  ASSUME IInv, [Next]_vars
  PROVE  \E new \in SUBSET AllVersions : Repository!Store(new)
<1> DEFINE new == versions' \ versions
<1>1. IInv' /\ HeadsForward
    BY NextKeeps
<1>2. versions \subseteq versions'
    BY StepsOfTheStore
<1>3. TypeOK' /\ RepositoryOK'
    BY <1>1 DEF IInv
<1>4. new \in SUBSET AllVersions /\ versions' = versions \cup new
    BY <1>2, <1>3 DEF TypeOK
<1>5. /\ new \subseteq made'
      /\ \A v \in new : up'[v] \subseteq versions'
      /\ \A v \in new : \E g \in heads'[branchOf'[v]] : v \in anc'[g]
    BY <1>3 DEF RepositoryOK, HistoryComplete, NothingLost
<1>6. heads' \in [Branches -> SUBSET versions']
  <2>1. heads' \in [Branches -> SUBSET AllVersions]
      BY <1>3 DEF TypeOK
  <2>2. \A b \in Branches : heads'[b] \subseteq versions'
      BY <1>3 DEF RepositoryOK
  <2> QED BY <2>1, <2>2
<1>7. Repository!Store(new)
    BY <1>1, <1>4, <1>5, <1>6 DEF Repository!Store, HeadsForward
<1> QED BY <1>4, <1>7

\* The repository implements VersionStore: pulls, automerges and the commits of
\* other processes are, seen from outside, a sequence of atomic steps that take
\* in complete histories and move heads forward.
THEOREM RepositoryImplementsStore == Spec => RepositoryKeepsPromise
<1>1. Init => Repository!Init
    BY DEF Init, RootHead, Repository!Init
<1>2. ASSUME IInv, [Next]_vars
      PROVE  Repository!Next
  <2>1. ASSUME NEW v \in AllVersions, NEW b \in Branches,
               NEW p \in AllVersions, NEW s \in AllVersions, Repository!Write(v, b, {p, s})
        PROVE  \E d \in Branches, sources \in SUBSET AllVersions : Repository!Write(v, d, sources)
    <3>1. {p, s} \in SUBSET AllVersions
        OBVIOUS
    <3> QED BY <2>1, <3>1
  <2> QED BY <1>2, <2>1, StepsOfTheStore, TakesIn DEF Repository!Next
<1> QED BY <1>1, <1>2, InductiveInvariant, PTL DEF Spec, RepositoryKeepsPromise, Repository!Spec
=============================================================================
