--------------------------- MODULE VaultPush_proof ---------------------------
(***************************************************************************)
(* Theorems about VaultPush, for any sets of clients, versions and         *)
(* branches.  NothingLost and HistoryComplete depend on what a push in     *)
(* progress holds in memory, and on RunLocked keeping the vault still      *)
(* while PushHead computes; IInv says so, in three parts: the graph of     *)
(* versions, the vault, and each connection.                               *)
(***************************************************************************)
EXTENDS VaultPush, SequenceTheorems, TLAPS

Closed(S) == \A v \in S : up[v] \subseteq S

(* The graph.  anc[v] contains v, is transitive, and is the least set that  *)
(* contains v and is closed under parents and merge sources.                *)
GraphOK ==
  /\ Root \in made
  /\ \A v \in AllVersions \ made : up[v] = {} /\ anc[v] = {}
  /\ \A v \in made : v \in anc[v] /\ anc[v] \subseteq made /\ up[v] \subseteq made
  /\ \A v \in made : \A u \in anc[v] : anc[u] \subseteq anc[v]

AncestryIsLeast ==
  \A S \in SUBSET AllVersions : Closed(S) => \A v \in S \cap made : anc[v] \subseteq S

BranchesRooted ==
  /\ \A b \in Branches : origin[b] # None => origin[b] \in made
  /\ \A v \in made : /\ branchOf[v] \in Branches
                     /\ origin[branchOf[v]] \in anc[v]

(* The vault. *)
VaultOK ==
  /\ versions \subseteq made
  /\ HistoryComplete
  /\ NothingLost
  /\ \A b \in Branches : heads[b] \subseteq versions \cap OnBranch(b)
  /\ \A b \in branches : origin[b] # None
  /\ \A c \in Clients : repo[c] \subseteq made
  /\ \A c \in Clients : \A b \in known[c] : origin[b] # None

(* A connection is inside RunLocked from BeginPushHead to the end.          *)
InPushHead(c) == pc[c] \in {"accept", "merge", "hook", "import", "reply"}

LockOK == \A c \in Clients : lock = c <=> InPushHead(c)

(* What a push holds in memory completes the vault's history.               *)
PushedOK(c) ==
  /\ pushed[c] \cup frontier[c] \subseteq made
  /\ pc[c] # "query" => frontier[c] = {}
  /\ tip[c] # None => tip[c] \in made
  /\ pc[c] # "idle" => tip[c] # None
  /\ \A v \in pushed[c] : up[v] \subseteq pushed[c] \cup versions \cup frontier[c]
  /\ \A b \in Branches :
       headInfo[c][b] # None => headInfo[c][b] \in OnBranch(b)
  /\ pc[c] \in {"sent", "accept", "merge", "hook", "import"} =>
       \A b \in newBranches[c] : origin[b] # None
  /\ pc[c] = "reply" => pushed[c] \subseteq versions
  /\ todo[c] \subseteq pushed[c]
  /\ pc[c] # "accept" => todo[c] = {}

(* The temporary heads of branch b cover the vault's heads of b and the     *)
(* versions already considered; they are on b or where b was created.       *)
TempOK(c, b) ==
  LET hs == temp[c][b] IN
  /\ \A i \in DOMAIN hs : hs[i] \in (pushed[c] \cup versions) \cap OnBranch(b)
  /\ Len(hs) > 1 => \A i \in DOMAIN hs : branchOf[hs[i]] = b
  /\ hs # <<>> => /\ AtMostOneHead(b)
                  /\ \A h \in heads[b] : \E i \in DOMAIN hs : h \in anc[hs[i]]
  /\ \A v \in pushed[c] \ todo[c] :
       branchOf[v] = b => \E i \in DOMAIN hs : v \in anc[hs[i]]

(* The resulting head of b is a descendant of all its temporary heads.      *)
ResultOK(c, b) ==
  /\ result[c][b] # None =>
       /\ temp[c][b] # <<>>
       /\ result[c][b] \in (pushed[c] \cup versions \cup merged[c]) \cap OnBranch(b)
       /\ \A i \in DOMAIN temp[c][b] : temp[c][b][i] \in anc[result[c][b]]
  /\ pc[c] \in {"hook", "import"} /\ temp[c][b] # <<>> => result[c][b] # None

MergedOK(c) ==
  \A m \in merged[c] : /\ m \in made
                       /\ up[m] \subseteq pushed[c] \cup versions
                       /\ result[c][branchOf[m]] = m

TransactionOK(c) ==
  /\ pc[c] \in {"idle", "query", "sent"} => temp[c] = NoTemp
  /\ pc[c] \notin {"merge", "hook", "import", "reply"} => result[c] = NoHeads /\ merged[c] = {}
  /\ pc[c] \in {"accept", "merge", "hook", "import"} =>
       /\ MergedOK(c)
       /\ \A b \in Branches : TempOK(c, b) /\ ResultOK(c, b)

IInv ==
  /\ TypeOK
  /\ GraphOK /\ AncestryIsLeast /\ BranchesRooted
  /\ VaultOK
  /\ AcceptedIsStored
  /\ LockOK
  /\ \A c \in Clients : PushedOK(c) /\ TransactionOK(c)

-----------------------------------------------------------------------------
(* What a step may do to the graph. *)

\* The versions and branches that existed keep their ancestry and branch.
GraphGrows ==
  /\ made \subseteq made'
  /\ \A u \in made : anc'[u] = anc[u] /\ up'[u] = up[u] /\ branchOf'[u] = branchOf[u]
  /\ \A b \in Branches : origin[b] # None => origin'[b] = origin[b]

GraphInv == GraphOK /\ AncestryIsLeast /\ BranchesRooted

\* Committing a version on top of existing ones keeps the graph sound: the
\* new version descends from its sources, and nothing else changes.
LEMMA NewVersionKeepsGraph ==
  ASSUME TypeOK, GraphInv,
         NEW v \in AllVersions \ made, NEW b \in Branches, NEW sources \in SUBSET made,
         origin[b] # None, sources \cap OnBranch(b) # {},
         NewVersion(v, b, sources)
  PROVE  /\ GraphInv'
         /\ GraphGrows
         /\ made' = made \cup {v} /\ up'[v] = sources /\ branchOf'[v] = b
         /\ v \in anc'[v]
         /\ \A u \in sources : anc[u] \subseteq anc'[v]
         /\ OnBranch(b) \cup {v} \subseteq OnBranch(b)'
<1> USE NoneAssumption, IdsAssumption
<1>1. /\ made' = made \cup {v} /\ origin' = origin
      /\ \A u \in AllVersions : u # v =>
           anc'[u] = anc[u] /\ up'[u] = up[u] /\ branchOf'[u] = branchOf[u]
      /\ up'[v] = sources /\ branchOf'[v] = b
      /\ anc'[v] = {v} \cup UNION {anc[u] : u \in sources}
    BY DEF NewVersion, TypeOK
<1>2. made \subseteq AllVersions /\ v \notin made
    BY DEF TypeOK
<1>3. GraphGrows
    BY <1>1, <1>2 DEF GraphGrows
<1>4. GraphOK'
  <2>1. Root \in made' /\ \A u \in AllVersions \ made' : up'[u] = {} /\ anc'[u] = {}
      BY <1>1, <1>2 DEF GraphInv, GraphOK
  <2>2. \A u \in made' : u \in anc'[u] /\ anc'[u] \subseteq made' /\ up'[u] \subseteq made'
      BY <1>1, <1>2 DEF GraphInv, GraphOK
  <2>3. ASSUME NEW w \in made', NEW u \in anc'[w] PROVE anc'[u] \subseteq anc'[w]
    <3>1. CASE w = v
        BY <3>1, <1>1, <1>2 DEF GraphInv, GraphOK
    <3>2. CASE w # v
      <4>1. w \in made /\ u \in anc[w] /\ u \in made
          BY <3>2, <2>3, <1>1, <1>2 DEF GraphInv, GraphOK
      <4> QED BY <4>1, <1>1, <1>2 DEF GraphInv, GraphOK
    <3> QED BY <3>1, <3>2
  <2> QED BY <2>1, <2>2, <2>3 DEF GraphOK
<1>5. AncestryIsLeast'
  <2> SUFFICES ASSUME NEW S \in SUBSET AllVersions, \A u \in S : up'[u] \subseteq S,
                      NEW w \in S \cap made'
               PROVE  anc'[w] \subseteq S
      BY DEF AncestryIsLeast, Closed
  <2>1. Closed(S)
      BY <1>1, <1>2 DEF Closed, GraphInv, GraphOK
  <2>2. \A u \in S \cap made : anc[u] \subseteq S
      BY <2>1 DEF GraphInv, AncestryIsLeast
  <2>3. CASE w = v
      BY <2>3, <2>2, <1>1, <1>2
  <2>4. CASE w # v
      BY <2>4, <2>2, <1>1, <1>2
  <2> QED BY <2>3, <2>4
<1>6. BranchesRooted'
  <2>1. ASSUME NEW w \in made' PROVE branchOf'[w] \in Branches /\ origin'[branchOf'[w]] \in anc'[w]
    <3>1. CASE w = v
      <4>1. PICK p \in sources : branchOf[p] = b \/ p = origin[b]
          BY DEF OnBranch
      <4>2. origin[b] \in anc[p]
          BY <4>1 DEF GraphInv, GraphOK, BranchesRooted
      <4> QED BY <3>1, <4>1, <4>2, <1>1
    <3>2. CASE w # v
        BY <3>2, <1>1, <1>2 DEF GraphInv, BranchesRooted
    <3> QED BY <3>1, <3>2
  <2>2. \A d \in Branches : origin'[d] # None => origin'[d] \in made'
      BY <1>1 DEF GraphInv, BranchesRooted
  <2> QED BY <2>1, <2>2 DEF BranchesRooted
<1>7. v \in anc'[v] /\ \A u \in sources : anc[u] \subseteq anc'[v]
    BY <1>1
<1>8. OnBranch(b) \cup {v} \subseteq OnBranch(b)'
    BY <1>1, <1>2 DEF OnBranch
<1> QED BY <1>1, <1>3, <1>4, <1>5, <1>6, <1>7, <1>8 DEF GraphInv

\* What a connection holds.
sessionOf(c) ==
  <<pc[c], tip[c], frontier[c], pushed[c], newBranches[c], headInfo[c], todo[c],
    temp[c], result[c], merged[c]>>

\* A branch's own versions stay its own when the graph grows.
LEMMA OnBranchGrows ==
  ASSUME TypeOK, GraphGrows, NEW b \in Branches
  PROVE  OnBranch(b) \subseteq OnBranch(b)'
  BY NoneAssumption DEF TypeOK, GraphGrows, OnBranch

\* A connection that does not move is not disturbed by what the others and
\* the users do: the vault only grows, and its heads move only when the
\* connection is outside RunLocked.
LEMMA OthersUndisturbed ==
  ASSUME IInv, GraphGrows, versions \subseteq versions',
         NEW c \in Clients, UNCHANGED sessionOf(c),
         InPushHead(c) => UNCHANGED heads
  PROVE  PushedOK(c)' /\ TransactionOK(c)'
<1> USE DEF sessionOf
<1>1. TypeOK /\ GraphOK /\ versions \subseteq made
    BY DEF IInv, VaultOK
<1>2. PushedOK(c) /\ TransactionOK(c)
    BY DEF IInv
<1>3. PushedOK(c)'
  <2>1. pushed[c] \subseteq made /\ tip[c] # None => tip[c] \in made
      BY <1>2 DEF PushedOK
  <2>2. \A b \in Branches : headInfo'[c][b] # None => headInfo'[c][b] \in OnBranch(b)'
      BY <1>1, <1>2, OnBranchGrows DEF PushedOK
  <2>3. newBranches[c] \subseteq Branches
      BY <1>1 DEF TypeOK
  <2>4. \A v \in pushed'[c] : up'[v] \subseteq pushed'[c] \cup versions' \cup frontier'[c]
      BY <1>2, <2>1 DEF PushedOK, GraphGrows
  <2> QED BY <1>2, <2>1, <2>2, <2>3, <2>4 DEF PushedOK, GraphGrows
<1>4. ASSUME pc[c] \in {"accept", "merge", "hook", "import"}, NEW b \in Branches
      PROVE  TempOK(c, b)' /\ ResultOK(c, b)'
  <2>1. TempOK(c, b) /\ ResultOK(c, b) /\ MergedOK(c) /\ heads' = heads
      BY <1>2, <1>4 DEF TransactionOK, InPushHead
  <2>2. pushed[c] \subseteq made /\ todo[c] \subseteq pushed[c]
      BY <1>2 DEF PushedOK
  <2>3. /\ \A i \in DOMAIN temp[c][b] : temp[c][b][i] \in made
        /\ \A m \in merged[c] : m \in made
      BY <2>1, <2>2, <1>1 DEF TempOK, MergedOK
  <2>4. heads[b] \subseteq made
      BY DEF IInv, VaultOK
  <2>5. TempOK(c, b)'
      BY <2>1, <2>2, <2>3, <2>4, <1>1, OnBranchGrows DEF TempOK, AtMostOneHead, GraphGrows
  <2>6. ResultOK(c, b)'
      BY <2>1, <2>2, <2>3, <1>1, OnBranchGrows DEF ResultOK, GraphGrows
  <2> QED BY <2>5, <2>6
<1>5. ASSUME pc[c] \in {"accept", "merge", "hook", "import"} PROVE MergedOK(c)'
  <2>1. MergedOK(c)
      BY <1>2, <1>5 DEF TransactionOK
  <2> QED BY <2>1 DEF MergedOK, GraphGrows
<1>6. TransactionOK(c)'
    BY <1>2, <1>4, <1>5 DEF TransactionOK
<1> QED BY <1>3, <1>6

-----------------------------------------------------------------------------
(* Type correctness. *)

\* Versions that exist are on branches.
LEMMA BranchOfMade ==
  ASSUME IInv
  PROVE  /\ \A v \in made : branchOf[v] \in Branches /\ origin[branchOf[v]] # None
         /\ \A b \in Branches : \A h \in heads[b] : h \in made /\ anc[h] \subseteq made
         /\ \A v \in versions : v \in made /\ anc[v] \subseteq made
         /\ \A c \in Clients : tip[c] # None => tip[c] \in made
         /\ \A c \in Clients : pushed[c] \subseteq made /\ repo[c] \subseteq made
  BY NoneAssumption DEF IInv, VaultOK, GraphOK, BranchesRooted, PushedOK, TypeOK

\* A step of the clients or of the vault's user keeps the types.
LEMMA TypeOfWork ==
  ASSUME IInv, NEW c \in Clients, Work(c) \/ VaultWork
  PROVE  TypeOK'
<1> TypeOK
    BY DEF IInv
<1> USE NoneAssumption DEF TypeOK, Places, graphVars, clientVars, vaultVars, sentVars,
                           acceptVars, Goto
<1>1. CASE \E b \in Branches, v \in AllVersions : CreateBranch(c, b, v)
    BY <1>1 DEF CreateBranch
<1>2. CASE \E b \in Branches, v \in AllVersions : ClientPull(c, b, v)
  <2> PICK b \in Branches, v \in AllVersions : ClientPull(c, b, v)
      BY <1>2
  <2>1. known' \in [Clients -> SUBSET Branches]
      BY BranchOfMade DEF ClientPull
  <2> QED BY <2>1 DEF ClientPull
<1>3. CASE \E v \in Versions, b \in Branches, p, s \in AllVersions : ClientCommit(c, v, b, p, s)
    BY <1>3 DEF ClientCommit, NewVersion, AllVersions
<1>4. CASE \E v \in AllVersions : StartPush(c, v)
    BY <1>4 DEF StartPush
<1>5. CASE VaultWork
    BY <1>5 DEF VaultWork, VaultCommit, NewVersion, AllVersions
<1> QED BY <1>1, <1>2, <1>3, <1>4, <1>5 DEF Work

\* The end of a connection's push keeps the types.
LEMMA TypeOfEnd ==
  ASSUME TypeOK, NEW c \in Clients, EndSession(c), UNCHANGED <<graphVars, clientVars, vaultVars>>,
         told' \subseteq AllVersions
  PROVE  TypeOK'
<1> USE NoneAssumption DEF TypeOK, Places, graphVars, clientVars, vaultVars, EndSession,
                           Goto
<1>1. NoTemp \in [Branches -> Seq(AllVersions)] /\ NoHeads \in [Branches -> AllVersions \cup {None}]
    BY DEF NoTemp, NoHeads
<1>2. temp' \in [Clients -> [Branches -> Seq(AllVersions)]]
    BY <1>1
<1>3. /\ headInfo' \in [Clients -> [Branches -> AllVersions \cup {None}]]
      /\ result' \in [Clients -> [Branches -> AllVersions \cup {None}]]
    BY <1>1
<1> QED BY <1>2, <1>3

\* The list of heads AcceptHeads starts from is not empty.
LEMMA StartHeadsType ==
  ASSUME TypeOK, NEW c \in Clients, NEW b \in Branches, NEW v \in AllVersions
  PROVE  StartHeads(c, b, v) \in Seq(AllVersions) /\ StartHeads(c, b, v) # <<>>
  BY DEF TypeOK, StartHeads

\* One turn of AcceptHeads: the list of heads of the version's branch is kept,
\* or one element of it becomes the version, or the version is added.
LEMMA ConsiderCases ==
  ASSUME TypeOK, NEW c \in Clients, NEW v \in AllVersions, branchOf[v] \in Branches,
         Consider(c, v)
  PROVE  LET b == branchOf[v]  hs == StartHeads(c, b, v)  new == temp'[c][b] IN
         /\ temp' = [temp EXCEPT ![c][b] = new]
         /\ new \in Seq(AllVersions) /\ new # <<>>
         /\ \/ new = hs /\ \E i \in 1 .. Len(hs) : v \in anc[hs[i]]
            \/ \E i \in 1 .. Len(hs) :
                 /\ hs[i] \in anc[v]
                 /\ Len(new) = Len(hs) /\ new[i] = v
                 /\ \A j \in 1 .. Len(hs) : j # i => new[j] = hs[j]
            \/ /\ \A i \in 1 .. Len(hs) : hs[i] \notin anc[v]
               /\ Len(new) = Len(hs) + 1 /\ new[Len(new)] = v
               /\ \A j \in 1 .. Len(hs) : new[j] = hs[j]
<1> DEFINE b == branchOf[v]
           hs == StartHeads(c, b, v)
<1> HIDE DEF b, hs
<1>1. b \in Branches /\ hs \in Seq(AllVersions) /\ hs # <<>> /\ DOMAIN hs = 1 .. Len(hs)
    BY StartHeadsType DEF b, hs
<1>2. temp \in [Clients -> [Branches -> Seq(AllVersions)]]
    BY DEF TypeOK
<1>3. CASE (\E i \in DOMAIN hs : v \in anc[hs[i]]) /\ temp' = [temp EXCEPT ![c][b] = hs]
  <2>1. temp'[c][b] = hs
      BY <1>3, <1>1, <1>2
  <2> QED BY <2>1, <1>3, <1>1 DEF b, hs
<1>4. CASE \E i \in DOMAIN hs : hs[i] \in anc[v] /\ temp' = [temp EXCEPT ![c][b] = [hs EXCEPT ![i] = v]]
  <2> PICK i \in 1 .. Len(hs) : hs[i] \in anc[v] /\ temp' = [temp EXCEPT ![c][b] = [hs EXCEPT ![i] = v]]
      BY <1>4, <1>1
  <2> DEFINE new == [hs EXCEPT ![i] = v]
  <2>1. /\ new \in Seq(AllVersions) /\ Len(new) = Len(hs)
        /\ \A j \in 1 .. Len(hs) : new[j] = IF j = i THEN v ELSE hs[j]
      BY <1>1, ExceptSeq
  <2>2. temp'[c][b] = new /\ temp' = [temp EXCEPT ![c][b] = new]
      BY <1>1, <1>2
  <2> HIDE DEF new
  <2>3. new # <<>>
      BY <2>1, <1>1
  <2>4. new[i] = v /\ \A j \in 1 .. Len(hs) : j # i => new[j] = hs[j]
      BY <2>1
  <2> QED BY <2>1, <2>2, <2>3, <2>4, <1>1 DEF b, hs
<1>5. CASE /\ {i \in DOMAIN hs : hs[i] \in anc[v]} = {}
           /\ temp' = [temp EXCEPT ![c][b] = Append(hs, v)]
  <2> DEFINE new == Append(hs, v)
  <2>1. /\ new \in Seq(AllVersions) /\ new # <<>> /\ Len(new) = Len(hs) + 1
        /\ new[Len(new)] = v /\ \A j \in 1 .. Len(hs) : new[j] = hs[j]
      BY <1>1, AppendProperties
  <2>2. temp'[c][b] = new /\ temp' = [temp EXCEPT ![c][b] = new]
      BY <1>1, <1>2, <1>5
  <2> HIDE DEF new
  <2>3. \A i \in 1 .. Len(hs) : hs[i] \notin anc[v]
      BY <1>5, <1>1
  <2> QED BY <2>1, <2>2, <2>3 DEF b, hs
<1> QED BY <1>3, <1>4, <1>5 DEF Consider, b, hs

\* A step of the server for a connection keeps the types.
LEMMA TypeOfServe ==
  ASSUME IInv, NEW c \in Clients, Serve(c) \/ Disturb(c) \/ Abort(c)
  PROVE  TypeOK'
<1> TypeOK
    BY DEF IInv
<1> USE DEF Places
<1>1. CASE QueryChunk(c)
    BY <1>1, NoneAssumption DEF TypeOK, QueryChunk, graphVars, clientVars, vaultVars, acceptVars
<1>2. CASE SendVersions(c)
  <2>1. newBranches' \in [Clients -> SUBSET Branches]
    <3>1. tip[c] \in made
        BY <1>2 DEF SendVersions, IInv, PushedOK
    <3> QED BY <1>2, <3>1, BranchOfMade DEF SendVersions, TypeOK
  <2>2. headInfo' \in [Clients -> [Branches -> AllVersions \cup {None}]]
      BY <1>2 DEF SendVersions, TypeOK
  <2> QED BY <1>2, <2>1, <2>2 DEF SendVersions, TypeOK, Goto, graphVars, clientVars, vaultVars, acceptVars
<1>3. CASE \E v \in AllVersions : Consider(c, v)
  <2> PICK v \in AllVersions : Consider(c, v)
      BY <1>3
  <2>1. branchOf[v] \in Branches
      BY BranchOfMade DEF Consider, IInv, PushedOK
  <2>2. temp' \in [Clients -> [Branches -> Seq(AllVersions)]]
    <3> DEFINE b == branchOf[v]
               new == temp'[c][b]
    <3>1. temp' = [temp EXCEPT ![c][b] = new] /\ new \in Seq(AllVersions)
        BY <2>1, ConsiderCases
    <3> HIDE DEF new
    <3> QED BY <2>1, <3>1 DEF TypeOK
  <2> QED BY <2>2 DEF Consider, TypeOK, Goto, graphVars, clientVars, vaultVars, sentVars
<1>4. CASE \E b \in Branches : SingleHead(c, b)
  <2> PICK b \in Branches : SingleHead(c, b)
      BY <1>4
  <2>1. temp[c][b][1] \in AllVersions
      BY DEF SingleHead, TypeOK
  <2>2. result' \in [Clients -> [Branches -> AllVersions \cup {None}]]
      BY <2>1 DEF SingleHead, TypeOK
  <2> QED BY <2>2 DEF SingleHead, TypeOK, graphVars, clientVars, vaultVars, sentVars
<1>5. CASE \E b \in Branches : \E m \in MergeIds : Automerge(c, b, m)
  <2> PICK b \in Branches, m \in MergeIds : Automerge(c, b, m)
      BY <1>5
  <2>1. temp[c][b][1] \in AllVersions /\ temp[c][b][2] \in AllVersions /\ m \in AllVersions
      BY DEF Automerge, TypeOK, AllVersions
  <2>2. result' \in [Clients -> [Branches -> AllVersions \cup {None}]]
      BY <2>1 DEF Automerge, TypeOK
  <2>3. /\ made' \subseteq AllVersions
        /\ up' \in [AllVersions -> SUBSET AllVersions]
        /\ anc' \in [AllVersions -> SUBSET AllVersions]
        /\ branchOf' \in [AllVersions -> Branches \cup {None}]
      BY <2>1 DEF Automerge, NewVersion, TypeOK
  <2>4. merged' \in [Clients -> SUBSET AllVersions]
      BY <2>1 DEF Automerge, TypeOK
  <2> QED BY <2>2, <2>3, <2>4 DEF Automerge, NewVersion, TypeOK, clientVars, vaultVars, sentVars
<1>6. CASE HeadsResolved(c)
    BY <1>6 DEF HeadsResolved, TypeOK, Goto, graphVars, clientVars, vaultVars, sentVars, acceptVars
<1>7. CASE CommitPush(c)
  <2>1. heads' \in [Branches -> SUBSET AllVersions]
      BY <1>7 DEF CommitPush, TypeOK
  <2> QED BY <1>7, <2>1 DEF CommitPush, TypeOK, Goto, graphVars, clientVars, sentVars, acceptVars
<1>8. CASE Reply(c)
  <2>1. told' \subseteq AllVersions
      BY <1>8 DEF Reply, TypeOK
  <2> QED BY <1>8, <2>1, TypeOfEnd DEF Reply
<1>9. CASE Reject(c) \/ Abort(c)
  <2>1. told' \subseteq AllVersions
      BY <1>9 DEF Reject, Abort, TypeOK
  <2> QED BY <1>9, <2>1, TypeOfEnd DEF Reject, Abort
<1>10. CASE BeginPushHead(c)
    BY <1>10 DEF BeginPushHead, TypeOK, Goto, graphVars, clientVars, vaultVars, sentVars
<1>11. CASE RunHooks(c)
  <2>1. CASE EndSession(c)
      BY <1>11, <2>1, TypeOfEnd DEF RunHooks, TypeOK
  <2>2. CASE ~EndSession(c)
      BY <1>11, <2>2 DEF RunHooks, TypeOK, Goto, graphVars, clientVars, vaultVars, sentVars,
         acceptVars
  <2> QED BY <2>1, <2>2
<1>12. CASE Disturb(c)
    BY <1>12 DEF Disturb, TypeOK, graphVars, clientVars, vaultVars, sentVars, acceptVars
<1> QED BY <1>1, <1>2, <1>3, <1>4, <1>5, <1>6, <1>7, <1>8, <1>9, <1>10, <1>11, <1>12
        DEF Serve, Handle

-----------------------------------------------------------------------------
(* Steps of the clients and of the vault's user. *)

\* A step that leaves the graph alone lets it grow, trivially.
LEMMA GraphSame ==
  ASSUME UNCHANGED graphVars, GraphInv
  PROVE  GraphInv' /\ GraphGrows /\ \A b \in Branches : OnBranch(b)' = OnBranch(b)
  BY DEF graphVars, GraphInv, GraphOK, AncestryIsLeast, Closed, BranchesRooted, GraphGrows, OnBranch

\* The vault's part of the invariant survives a step that changes only the
\* graph, by growth, and the repositories.
LEMMA VaultSame ==
  ASSUME IInv, TypeOK', GraphGrows, UNCHANGED vaultVars,
         \A c \in Clients : repo'[c] \subseteq made',
         \A c \in Clients : \A b \in known'[c] : origin'[b] # None
  PROVE  VaultOK'
<1> USE DEF vaultVars
<1>1. VaultOK /\ TypeOK
    BY DEF IInv
<1>2. versions' \subseteq made' /\ HistoryComplete'
    BY <1>1 DEF VaultOK, HistoryComplete, GraphGrows
<1>3. NothingLost'
  <2> SUFFICES ASSUME NEW v \in versions PROVE \E h \in heads[branchOf'[v]] : v \in anc'[h]
      BY DEF NothingLost
  <2>1. PICK h \in heads[branchOf[v]] : v \in anc[h]
      BY <1>1 DEF VaultOK, NothingLost
  <2>2. v \in made /\ h \in made
      BY <1>1, <2>1, BranchOfMade
  <2> QED BY <2>1, <2>2 DEF GraphGrows
<1>4. \A b \in Branches : heads'[b] \subseteq versions' \cap OnBranch(b)'
    BY <1>1, OnBranchGrows DEF VaultOK
<1>5. \A b \in branches' : origin'[b] # None
    BY <1>1 DEF VaultOK, GraphGrows, TypeOK
<1> QED BY <1>2, <1>3, <1>4, <1>5 DEF VaultOK

\* When every connection stands still, their invariants survive.
LEMMA AllUndisturbed ==
  ASSUME IInv, GraphGrows, versions \subseteq versions',
         UNCHANGED <<lock, pc, sentVars, acceptVars>>,
         lock # None => UNCHANGED heads
  PROVE  LockOK' /\ \A c \in Clients : PushedOK(c)' /\ TransactionOK(c)'
<1>1. LockOK'
    BY DEF IInv, LockOK, InPushHead
<1>2. ASSUME NEW c \in Clients PROVE PushedOK(c)' /\ TransactionOK(c)'
  <2>1. UNCHANGED sessionOf(c)
      BY DEF sessionOf, sentVars, acceptVars
  <2>2. InPushHead(c) => UNCHANGED heads
      BY NoneAssumption DEF IInv, LockOK
  <2> QED BY <2>1, <2>2, OthersUndisturbed
<1> QED BY <1>1, <1>2

\* A new branch.
LEMMA CreateBranchKeeps ==
  ASSUME IInv, TypeOK', NEW c \in Clients, NEW b \in Branches, NEW at \in AllVersions,
         CreateBranch(c, b, at)
  PROVE  IInv'
<1>1. TypeOK /\ GraphInv /\ at \in made /\ at # None
    BY BranchOfMade, NoneAssumption DEF CreateBranch, IInv, GraphInv
<1>2. /\ UNCHANGED <<made, up, anc, branchOf>>
      /\ \A d \in Branches : origin'[d] = IF d = b THEN at ELSE origin[d]
    BY <1>1 DEF CreateBranch, TypeOK
<1>3. GraphGrows
    BY <1>2, NoneAssumption DEF GraphGrows, CreateBranch
<1>4. \A v \in made : branchOf[v] # b
    BY BranchOfMade DEF CreateBranch
<1>5. GraphInv'
    BY <1>1, <1>2, <1>4 DEF GraphInv, GraphOK, AncestryIsLeast, Closed, BranchesRooted
<1>6. \A d \in Clients : \A e \in known'[d] : origin'[e] # None
    BY <1>1, <1>2 DEF CreateBranch, IInv, VaultOK, TypeOK
<1>7. VaultOK'
    BY <1>3, <1>6, VaultSame, BranchOfMade DEF CreateBranch
<1>8. AcceptedIsStored'
    BY DEF CreateBranch, AcceptedIsStored, IInv, vaultVars
<1> QED BY <1>3, <1>5, <1>7, <1>8, AllUndisturbed DEF CreateBranch, vaultVars, IInv, GraphInv

\* A pull: only a repository changes.
LEMMA ClientPullKeeps ==
  ASSUME IInv, TypeOK', NEW c \in Clients, NEW b \in Branches, NEW h \in AllVersions,
         ClientPull(c, b, h)
  PROVE  IInv'
<1>1. TypeOK /\ GraphInv /\ h \in made /\ anc[h] \subseteq made
    BY BranchOfMade DEF ClientPull, IInv, GraphInv
<1>2. GraphInv' /\ GraphGrows
    BY <1>1, GraphSame DEF ClientPull
<1>3. origin[b] # None
  <2>1. h \in OnBranch(b)
      BY DEF ClientPull, IInv, VaultOK
  <2> QED BY <2>1, <1>1, BranchOfMade, NoneAssumption DEF OnBranch, TypeOK
<1>4. \A d \in Clients : \A e \in known'[d] : origin'[e] # None
    BY <1>1, <1>3, BranchOfMade DEF ClientPull, IInv, VaultOK, TypeOK, graphVars
<1>5. \A d \in Clients : repo'[d] \subseteq made'
    BY <1>1, BranchOfMade DEF ClientPull, TypeOK, graphVars
<1>6. VaultOK'
    BY <1>2, <1>4, <1>5, VaultSame DEF ClientPull
<1>7. AcceptedIsStored'
    BY DEF ClientPull, AcceptedIsStored, IInv, vaultVars
<1> QED BY <1>2, <1>6, <1>7, AllUndisturbed DEF ClientPull, vaultVars, IInv, GraphInv

\* A commit in a client's repository.
LEMMA ClientCommitKeeps ==
  ASSUME IInv, TypeOK', NEW c \in Clients, NEW v \in Versions, NEW b \in Branches,
         NEW p \in AllVersions, NEW s \in AllVersions, ClientCommit(c, v, b, p, s)
  PROVE  IInv'
<1>1. TypeOK /\ GraphInv /\ v \in AllVersions \ made
    BY DEF ClientCommit, IInv, GraphInv, AllVersions
<1>2. {p, s} \in SUBSET made /\ {p, s} \cap OnBranch(b) # {}
    BY BranchOfMade DEF ClientCommit
<1>3. origin[b] # None
    BY DEF ClientCommit, IInv, VaultOK
<1>4. GraphInv' /\ GraphGrows /\ made' = made \cup {v}
    BY <1>1, <1>2, <1>3, NewVersionKeepsGraph DEF ClientCommit
<1>5. \A d \in Clients : repo'[d] \subseteq made'
    BY <1>1, <1>4, BranchOfMade DEF ClientCommit, TypeOK
<1>6. \A d \in Clients : \A e \in known'[d] : origin'[e] # None
    BY DEF ClientCommit, NewVersion, IInv, VaultOK
<1>7. VaultOK'
    BY <1>4, <1>5, <1>6, VaultSame DEF ClientCommit
<1>8. AcceptedIsStored'
    BY DEF ClientCommit, AcceptedIsStored, IInv, vaultVars
<1> QED BY <1>4, <1>7, <1>8, AllUndisturbed DEF ClientCommit, vaultVars, IInv, GraphInv

\* A commit of the vault's user: it happens while no push is in PushHead, and
\* the new head descends from the heads it replaces.
LEMMA VaultCommitKeeps ==
  ASSUME IInv, TypeOK', NEW v \in Versions, NEW b \in Branches,
         NEW p \in AllVersions, NEW s \in AllVersions, VaultCommit(v, b, p, s)
  PROVE  /\ IInv'
         /\ \A d \in Branches : \A h \in heads[d] : \E g \in heads'[d] : h \in anc'[g]
<1>1. TypeOK /\ GraphInv /\ VaultOK /\ v \in AllVersions \ made
    BY DEF VaultCommit, IInv, GraphInv, AllVersions
<1>2. {p, s} \in SUBSET made /\ {p, s} \cap OnBranch(b) # {} /\ {p, s} \subseteq versions
    BY BranchOfMade DEF VaultCommit
<1>3. origin[b] # None
    BY <1>1 DEF VaultCommit, VaultOK
<1>4. /\ GraphInv' /\ GraphGrows /\ made' = made \cup {v}
      /\ up'[v] = {p, s} /\ branchOf'[v] = b
      /\ v \in anc'[v] /\ anc[p] \subseteq anc'[v] /\ anc[s] \subseteq anc'[v]
      /\ OnBranch(b) \cup {v} \subseteq OnBranch(b)'
    BY <1>1, <1>2, <1>3, NewVersionKeepsGraph DEF VaultCommit
<1>5. \A d \in Branches : heads'[d] = IF d = b THEN (heads[b] \ {p, s}) \cup {v} ELSE heads[d]
    BY <1>1 DEF VaultCommit, TypeOK
<1>6. versions' = versions \cup {v}
    BY DEF VaultCommit
<1>7. ASSUME NEW d \in Branches, NEW h \in heads[d]
      PROVE  \E g \in heads'[d] : anc[h] \subseteq anc'[g]
  <2>1. h \in made
      BY BranchOfMade
  <2>2. CASE d = b /\ h \in {p, s}
      BY <2>2, <1>4, <1>5
  <2>3. CASE ~(d = b /\ h \in {p, s})
      BY <2>1, <2>3, <1>4, <1>5 DEF GraphGrows
  <2> QED BY <2>2, <2>3
<1>8. \A d \in Branches : \A h \in heads[d] : \E g \in heads'[d] : h \in anc'[g]
    BY <1>1, <1>7, BranchOfMade DEF GraphInv, GraphOK
<1>9. VaultOK'
  <2>1. versions' \subseteq made' /\ HistoryComplete'
      BY <1>1, <1>2, <1>4, <1>6 DEF VaultOK, HistoryComplete, GraphGrows
  <2>2. NothingLost'
    <3> SUFFICES ASSUME NEW u \in versions' PROVE \E h \in heads'[branchOf'[u]] : u \in anc'[h]
        BY DEF NothingLost
    <3>1. CASE u = v
        BY <3>1, <1>4, <1>5
    <3>2. CASE u # v
      <4>1. u \in versions /\ u \in made
          BY <3>2, <1>6, BranchOfMade
      <4>2. PICK h \in heads[branchOf[u]] : u \in anc[h]
          BY <4>1, <1>1 DEF VaultOK, NothingLost
      <4>3. branchOf'[u] = branchOf[u] /\ branchOf[u] \in Branches
          BY <4>1, <1>4, BranchOfMade DEF GraphGrows
      <4> QED BY <4>2, <4>3, <1>7
    <3> QED BY <3>1, <3>2
  <2>3. \A d \in Branches : heads'[d] \subseteq versions' \cap OnBranch(d)'
      BY <1>1, <1>4, <1>5, <1>6, OnBranchGrows DEF VaultOK
  <2>4. branches' = branches /\ repo' = repo /\ known' = known /\ origin' = origin
      BY DEF VaultCommit, clientVars, NewVersion
  <2> QED BY <2>1, <2>2, <2>3, <2>4, <1>1, <1>4 DEF VaultOK, GraphGrows
<1>10. AcceptedIsStored'
    BY <1>6 DEF VaultCommit, AcceptedIsStored, IInv
<1>11. LockOK' /\ \A c \in Clients : PushedOK(c)' /\ TransactionOK(c)'
    BY <1>4, <1>6, AllUndisturbed DEF VaultCommit
<1> QED BY <1>4, <1>8, <1>9, <1>10, <1>11 DEF IInv, GraphInv

-----------------------------------------------------------------------------
(* Steps of the server for one connection. *)

\* A step of one connection that leaves the vault alone, and keeps its own
\* part of the invariant, keeps the whole.
LEMMA OwnStep ==
  ASSUME IInv, TypeOK', GraphInv', GraphGrows, NEW c \in Clients,
         UNCHANGED <<clientVars, vaultVars>>, told' \subseteq versions,
         \A d \in Clients : d # c => UNCHANGED sessionOf(d),
         LockOK', PushedOK(c)', TransactionOK(c)'
  PROVE  IInv'
<1>1. /\ \A d \in Clients : repo'[d] \subseteq made'
      /\ \A d \in Clients : \A b \in known'[d] : origin'[b] # None
    BY BranchOfMade DEF clientVars, GraphGrows, IInv, VaultOK, TypeOK
<1>2. VaultOK'
    BY <1>1, VaultSame
<1>3. AcceptedIsStored'
    BY DEF AcceptedIsStored, vaultVars
<1>4. ASSUME NEW d \in Clients PROVE PushedOK(d)' /\ TransactionOK(d)'
    BY <1>4, OthersUndisturbed DEF vaultVars
<1> QED BY <1>2, <1>3, <1>4 DEF IInv, GraphInv

\* The push begins: only its tip is to be asked about.
LEMMA StartPushKeeps ==
  ASSUME IInv, TypeOK', NEW c \in Clients, NEW v \in AllVersions, StartPush(c, v)
  PROVE  IInv'
<1> USE DEF StartPush, Goto
<1>1. TypeOK /\ GraphInv /\ PushedOK(c) /\ TransactionOK(c) /\ LockOK
    BY DEF IInv, GraphInv
<1>2. /\ pc'[c] = "query" /\ tip'[c] = v /\ frontier'[c] = {v}
      /\ UNCHANGED <<pushed, newBranches, headInfo, acceptVars, vaultVars, graphVars, lock>>
      /\ \A d \in Clients : d # c => UNCHANGED sessionOf(d)
    BY <1>1 DEF TypeOK, sessionOf, acceptVars
<1>3. GraphInv' /\ GraphGrows /\ \A b \in Branches : OnBranch(b)' = OnBranch(b)
    BY <1>1, <1>2, GraphSame
<1>4. LockOK'
    BY <1>1, <1>2 DEF LockOK, InPushHead, sessionOf
<1>5. v \in made /\ v # None
    BY BranchOfMade, NoneAssumption
<1>6. PushedOK(c)'
    BY <1>1, <1>2, <1>3, <1>5 DEF PushedOK, acceptVars, vaultVars, graphVars
<1>7. TransactionOK(c)'
    BY <1>1, <1>2 DEF TransactionOK, acceptVars
<1>8. told' \subseteq versions
    BY DEF IInv, AcceptedIsStored
<1> QED BY <1>2, <1>3, <1>4, <1>6, <1>7, <1>8, OwnStep

\* A chunk of the query: the walk stops only at what the vault has.
LEMMA QueryChunkKeeps ==
  ASSUME IInv, TypeOK', NEW c \in Clients, QueryChunk(c)
  PROVE  IInv'
<1> USE DEF QueryChunk
<1>1. TypeOK /\ GraphInv /\ PushedOK(c) /\ TransactionOK(c) /\ LockOK
    BY DEF IInv, GraphInv
<1>2. /\ pc'[c] = "query" /\ tip' = tip
      /\ UNCHANGED <<pc, newBranches, headInfo, acceptVars, vaultVars, graphVars, lock>>
      /\ \A d \in Clients : d # c => UNCHANGED sessionOf(d)
    BY <1>1 DEF TypeOK, sessionOf, acceptVars
<1>3. GraphInv' /\ GraphGrows /\ \A b \in Branches : OnBranch(b)' = OnBranch(b)
    BY <1>1, <1>2, GraphSame
<1>4. LockOK'
    BY <1>1, <1>2 DEF LockOK, InPushHead
<1> DEFINE missing == frontier[c] \ versions
<1>5. /\ pushed'[c] = pushed[c] \cup missing
      /\ frontier'[c] = (UNION {up[v] : v \in missing}) \ (pushed[c] \cup missing)
    BY <1>1 DEF TypeOK
<1>6. missing \subseteq made /\ \A v \in missing : up[v] \subseteq made
    BY <1>1 DEF PushedOK, GraphInv, GraphOK
<1>7. \A v \in pushed'[c] : up[v] \subseteq pushed'[c] \cup versions \cup frontier'[c]
    BY <1>1, <1>5 DEF PushedOK
<1>8. PushedOK(c)'
    BY <1>1, <1>2, <1>3, <1>5, <1>6, <1>7 DEF PushedOK, acceptVars, vaultVars, graphVars
<1>9. TransactionOK(c)'
    BY <1>1, <1>2 DEF TransactionOK, acceptVars
<1>10. told' \subseteq versions
    BY DEF IInv, AcceptedIsStored
<1> QED BY <1>2, <1>3, <1>4, <1>8, <1>9, <1>10, OwnStep

\* The versions are sent: the walk is finished, and the heads sent with the
\* branches are on them.
LEMMA SendVersionsKeeps ==
  ASSUME IInv, TypeOK', NEW c \in Clients, SendVersions(c)
  PROVE  IInv'
<1> USE DEF SendVersions, Goto
<1>1. TypeOK /\ GraphInv /\ PushedOK(c) /\ TransactionOK(c) /\ LockOK
    BY DEF IInv, GraphInv
<1>2. /\ pc'[c] = "sent" /\ frontier[c] = {}
      /\ UNCHANGED <<tip, frontier, pushed, acceptVars, vaultVars, graphVars, lock>>
      /\ \A d \in Clients : d # c => UNCHANGED sessionOf(d)
    BY <1>1 DEF TypeOK, sessionOf, acceptVars
<1>3. GraphInv' /\ GraphGrows /\ \A b \in Branches : OnBranch(b)' = OnBranch(b)
    BY <1>1, <1>2, GraphSame
<1>4. LockOK'
    BY <1>1, <1>2 DEF LockOK, InPushHead, sessionOf
<1>5. \A b \in newBranches'[c] : origin[b] # None
  <2>1. \A v \in pushed[c] \cup {tip[c]} : v \in made
      BY <1>1, BranchOfMade DEF PushedOK
  <2>2. newBranches'[c] \subseteq {branchOf[v] : v \in pushed[c] \cup {tip[c]}}
      BY <1>1 DEF TypeOK
  <2> QED BY <2>1, <2>2, BranchOfMade
<1>6. ASSUME NEW b \in Branches, headInfo'[c][b] # None PROVE headInfo'[c][b] \in OnBranch(b)
  <2>1. headInfo'[c][b] \in ClientHeads(c, b)
      BY <1>1, <1>6 DEF TypeOK
  <2>2. origin[b] # None => origin[b] \in made
      BY <1>1 DEF GraphInv, BranchesRooted
  <2> QED BY <2>1, <2>2, <1>6, BranchOfMade DEF ClientHeads, OnBranch
<1>7. PushedOK(c)'
    BY <1>1, <1>2, <1>3, <1>5, <1>6 DEF PushedOK, acceptVars, vaultVars, graphVars
<1>8. TransactionOK(c)'
    BY <1>1, <1>2 DEF TransactionOK, acceptVars
<1>9. told' \subseteq versions
    BY DEF IInv, AcceptedIsStored
<1> QED BY <1>2, <1>3, <1>4, <1>7, <1>8, <1>9, OwnStep

\* PushHead begins, with nothing considered yet.
LEMMA BeginPushHeadKeeps ==
  ASSUME IInv, TypeOK', NEW c \in Clients, BeginPushHead(c)
  PROVE  IInv'
<1> USE DEF BeginPushHead, Goto
<1>1. TypeOK /\ GraphInv /\ PushedOK(c) /\ TransactionOK(c) /\ LockOK
    BY DEF IInv, GraphInv
<1>2. /\ pc'[c] = IF pushed[c] = {} THEN "import" ELSE "accept"
      /\ todo'[c] = pushed[c] /\ lock = None /\ lock' = c
      /\ UNCHANGED <<tip, frontier, pushed, newBranches, headInfo, temp, result, merged,
                     vaultVars, graphVars>>
      /\ \A d \in Clients : d # c => UNCHANGED sessionOf(d)
    BY <1>1 DEF TypeOK, sessionOf, sentVars
<1>3. GraphInv' /\ GraphGrows /\ \A b \in Branches : OnBranch(b)' = OnBranch(b)
    BY <1>1, <1>2, GraphSame
<1>4. LockOK'
    BY <1>1, <1>2, NoneAssumption DEF LockOK, InPushHead, sessionOf
<1>5. PushedOK(c)'
    BY <1>1, <1>2, <1>3 DEF PushedOK, vaultVars, graphVars
<1>6. temp'[c] = NoTemp /\ result'[c] = NoHeads /\ merged'[c] = {}
    BY <1>1, <1>2 DEF TransactionOK
<1>7. MergedOK(c)'
    BY <1>6 DEF MergedOK
<1>8. ASSUME NEW b \in Branches PROVE TempOK(c, b)' /\ ResultOK(c, b)'
  <2>1. temp'[c][b] = <<>> /\ result'[c][b] = None
      BY <1>6 DEF NoTemp, NoHeads
  <2>2. TempOK(c, b)'
      BY <2>1, <1>2 DEF TempOK
  <2>3. ResultOK(c, b)'
      BY <2>1 DEF ResultOK
  <2> QED BY <2>2, <2>3
<1>9. TransactionOK(c)'
    BY <1>2, <1>6, <1>7, <1>8 DEF TransactionOK
<1>10. told' \subseteq versions
    BY DEF IInv, AcceptedIsStored
<1> QED BY <1>2, <1>3, <1>4, <1>5, <1>9, <1>10, OwnStep

\* The list AcceptHeads starts from covers the heads of the branch and what
\* was considered before.
LEMMA StartHeadsOK ==
  ASSUME IInv, NEW c \in Clients, NEW v \in todo[c], pc[c] = "accept",
         ~PendingMerge(c, branchOf[v])
  PROVE  LET b == branchOf[v]  hs == StartHeads(c, b, v) IN
         /\ \A i \in 1 .. Len(hs) : hs[i] \in (pushed[c] \cup versions) \cap OnBranch(b)
         /\ Len(hs) > 1 => \A i \in 1 .. Len(hs) : branchOf[hs[i]] = b
         /\ \A h \in heads[b] : \E i \in 1 .. Len(hs) : h \in anc[hs[i]]
         /\ \A u \in pushed[c] \ todo[c] :
              branchOf[u] = b => \E i \in 1 .. Len(hs) : u \in anc[hs[i]]
      /\ AtMostOneHead(b)
         /\ AtMostOneHead(b)
<1> DEFINE b == branchOf[v]
           hs == StartHeads(c, b, v)
<1>1. TypeOK /\ GraphOK /\ PushedOK(c) /\ TransactionOK(c)
    BY DEF IInv
<1>2. v \in pushed[c] /\ v \in made /\ b \in Branches
    BY <1>1, BranchOfMade DEF PushedOK
<1>3. TempOK(c, b) /\ temp[c][b] \in Seq(AllVersions)
    BY <1>1, <1>2 DEF TransactionOK, TypeOK
<1>4. CASE temp[c][b] # <<>>
  <2>1. hs = temp[c][b] /\ DOMAIN hs = 1 .. Len(hs)
      BY <1>3, <1>4 DEF StartHeads
  <2> QED BY <1>3, <1>4, <2>1 DEF TempOK
<1>5. CASE temp[c][b] = <<>>
  <2>1. \A g, h \in heads[b] : g = h
      BY <1>5 DEF PendingMerge
  <2>0. AtMostOneHead(b)
      BY <2>1 DEF AtMostOneHead
  <2>2. \A u \in pushed[c] \ todo[c] : branchOf[u] # b
      BY <1>3, <1>5 DEF TempOK
  <2>3. CASE heads[b] = {}
    <3>1. Len(hs) = 1 /\ hs[1] = v
        BY <1>5, <2>3 DEF StartHeads
    <3> QED BY <1>2, <2>0, <2>2, <2>3, <3>1 DEF OnBranch
  <2>4. CASE heads[b] # {}
    <3>1. PICK h \in heads[b] : Len(hs) = 1 /\ hs[1] = h
        BY <1>5, <2>4 DEF StartHeads
    <3>2. h \in versions \cap OnBranch(b) /\ h \in anc[h]
        BY <1>1, <1>2, BranchOfMade DEF IInv, VaultOK, GraphOK
    <3> QED BY <2>0, <2>1, <2>2, <3>1, <3>2
  <2> QED BY <2>3, <2>4
<1> QED BY <1>4, <1>5

\* A turn of AcceptHeads: the list still covers what it covered, and the
\* version considered.
LEMMA ConsiderKeeps ==
  ASSUME IInv, TypeOK', NEW c \in Clients, NEW v \in AllVersions, Consider(c, v)
  PROVE  IInv'
<1> DEFINE b == branchOf[v]
           hs == StartHeads(c, b, v)
           new == temp'[c][b]
<1>1. TypeOK /\ GraphInv /\ PushedOK(c) /\ TransactionOK(c) /\ LockOK
    BY DEF IInv, GraphInv
<1>2. /\ pc[c] = "accept" /\ pc'[c] = IF todo[c] = {v} THEN "merge" ELSE "accept"
      /\ v \in todo[c] /\ todo'[c] = todo[c] \ {v}
      /\ UNCHANGED <<tip, frontier, pushed, newBranches, headInfo, result, merged,
                     vaultVars, graphVars, lock>>
      /\ \A d \in Clients : d # c => UNCHANGED sessionOf(d)
  <2>1. \A d \in Clients : d # c => temp'[d] = temp[d]
      BY <1>1 DEF Consider, TypeOK
  <2> QED BY <1>1, <2>1 DEF Consider, Goto, TypeOK, sessionOf, sentVars
<1>3. GraphInv' /\ GraphGrows /\ \A d \in Branches : OnBranch(d)' = OnBranch(d)
    BY <1>1, <1>2, GraphSame
<1>4. LockOK'
    BY <1>1, <1>2 DEF LockOK, InPushHead, sessionOf
<1>5. PushedOK(c)'
    BY <1>1, <1>2, <1>3 DEF PushedOK, vaultVars, graphVars
<1>6. v \in pushed[c] /\ v \in made /\ b \in Branches /\ v \in OnBranch(b)
    BY <1>1, <1>2, BranchOfMade DEF PushedOK, OnBranch
<1>7. /\ \A i \in 1 .. Len(hs) : hs[i] \in (pushed[c] \cup versions) \cap OnBranch(b)
      /\ Len(hs) > 1 => \A i \in 1 .. Len(hs) : branchOf[hs[i]] = b
      /\ \A h \in heads[b] : \E i \in 1 .. Len(hs) : h \in anc[hs[i]]
      /\ \A u \in pushed[c] \ todo[c] :
              branchOf[u] = b => \E i \in 1 .. Len(hs) : u \in anc[hs[i]]
      /\ AtMostOneHead(b)
    BY <1>2, StartHeadsOK DEF Consider
<1>8. /\ temp' = [temp EXCEPT ![c][b] = new]
      /\ new \in Seq(AllVersions) /\ new # <<>>
      /\ \/ new = hs /\ \E i \in 1 .. Len(hs) : v \in anc[hs[i]]
         \/ \E i \in 1 .. Len(hs) :
              /\ hs[i] \in anc[v]
              /\ Len(new) = Len(hs) /\ new[i] = v
              /\ \A j \in 1 .. Len(hs) : j # i => new[j] = hs[j]
         \/ /\ \A i \in 1 .. Len(hs) : hs[i] \notin anc[v]
            /\ Len(new) = Len(hs) + 1 /\ new[Len(new)] = v
            /\ \A j \in 1 .. Len(hs) : new[j] = hs[j]
    BY <1>1, <1>6, ConsiderCases
<1>9. DOMAIN new = 1 .. Len(new) /\ Len(new) \in Nat /\ hs \in Seq(AllVersions)
      /\ Len(hs) \in Nat
  <2>1. hs \in Seq(AllVersions)
      BY <1>1, <1>6, StartHeadsType
  <2> QED BY <1>8, <2>1
<1> HIDE DEF new, hs
<1>10. /\ \A i \in 1 .. Len(new) : new[i] \in (pushed[c] \cup versions) \cap OnBranch(b)
       /\ Len(new) > 1 => \A i \in 1 .. Len(new) : branchOf[new[i]] = b
       /\ \A i \in 1 .. Len(hs) : \E j \in 1 .. Len(new) : anc[hs[i]] \subseteq anc[new[j]]
       /\ \E j \in 1 .. Len(new) : v \in anc[new[j]]
  <2>0. v \in anc[v] /\ \A u \in anc[v] : anc[u] \subseteq anc[v]
      BY <1>1, <1>6 DEF GraphInv, GraphOK
  <2>1. CASE new = hs /\ \E i \in 1 .. Len(hs) : v \in anc[hs[i]]
      BY <2>1, <1>7
  <2>2. CASE \E i \in 1 .. Len(hs) :
              /\ hs[i] \in anc[v]
              /\ Len(new) = Len(hs) /\ new[i] = v
              /\ \A j \in 1 .. Len(hs) : j # i => new[j] = hs[j]
    <3> PICK i \in 1 .. Len(hs) :
              /\ hs[i] \in anc[v]
              /\ Len(new) = Len(hs) /\ new[i] = v
              /\ \A j \in 1 .. Len(hs) : j # i => new[j] = hs[j]
        BY <2>2
    <3>1. \A j \in 1 .. Len(hs) : anc[hs[j]] \subseteq anc[new[j]]
        BY <2>0
    <3> QED BY <2>0, <3>1, <1>6, <1>7
  <2>3. CASE /\ \A i \in 1 .. Len(hs) : hs[i] \notin anc[v]
             /\ Len(new) = Len(hs) + 1 /\ new[Len(new)] = v
             /\ \A j \in 1 .. Len(hs) : new[j] = hs[j]
    <3>1. 1 .. Len(new) = 1 .. Len(hs) \cup {Len(new)} /\ Len(new) \in 1 .. Len(new)
        BY <2>3, <1>9
    <3>2. \A i \in 1 .. Len(hs) : branchOf[hs[i]] = b
      <4>1. origin[b] \in anc[v]
          BY <1>1, <1>6 DEF GraphInv, BranchesRooted
      <4> QED BY <2>3, <4>1, <1>7 DEF OnBranch
    <3>3. \A i \in 1 .. Len(new) : new[i] \in (pushed[c] \cup versions) \cap OnBranch(b)
        BY <2>3, <3>1, <1>6, <1>7
    <3>4. \A i \in 1 .. Len(new) : branchOf[new[i]] = b
        BY <2>3, <3>1, <3>2
    <3>5. \A i \in 1 .. Len(hs) : i \in 1 .. Len(new) /\ anc[hs[i]] \subseteq anc[new[i]]
        BY <2>3, <3>1
    <3> QED BY <2>3, <2>0, <3>1, <3>3, <3>4, <3>5
  <2> QED BY <1>8, <2>1, <2>2, <2>3
<1>11. ASSUME NEW d \in Branches, d = b PROVE TempOK(c, d)'
  <2>1. \A h \in heads[b] : \E i \in 1 .. Len(new) : h \in anc[new[i]]
      BY <1>7, <1>10
  <2>2. \A u \in pushed[c] \ todo'[c] : branchOf[u] = b => \E i \in 1 .. Len(new) : u \in anc[new[i]]
      BY <1>2, <1>7, <1>10
  <2>3. AtMostOneHead(b)' /\ temp'[c][d] = new
      BY <1>2, <1>7, <1>11 DEF AtMostOneHead, new, vaultVars, graphVars
  <2> QED BY <1>2, <1>3, <1>6, <1>9, <1>10, <1>11, <2>1, <2>2, <2>3 DEF TempOK, AtMostOneHead, vaultVars, graphVars
<1>12. ASSUME NEW d \in Branches, d # b PROVE TempOK(c, d)'
  <2>1. temp'[c][d] = temp[c][d]
      BY <1>1, <1>8, <1>12 DEF TypeOK
  <2>2. TempOK(c, d)
      BY <1>1, <1>2 DEF TransactionOK
  <2> QED BY <1>2, <1>3, <1>12, <2>1, <2>2 DEF TempOK, AtMostOneHead, vaultVars, graphVars
<1>13. result'[c] = NoHeads /\ merged'[c] = {}
    BY <1>1, <1>2 DEF TransactionOK
<1>14. TransactionOK(c)'
  <2>1. MergedOK(c)'
      BY <1>13 DEF MergedOK
  <2>2. \A d \in Branches : ResultOK(c, d)'
      BY <1>2, <1>13 DEF ResultOK, NoHeads
  <2> QED BY <1>2, <1>11, <1>12, <1>13, <2>1, <2>2 DEF TransactionOK
<1>15. told' \subseteq versions
    BY DEF IInv, AcceptedIsStored, Consider
<1> QED BY <1>2, <1>3, <1>4, <1>5, <1>14, <1>15, OwnStep DEF Consider

\* A branch with one head keeps it.
LEMMA SingleHeadKeeps ==
  ASSUME IInv, TypeOK', NEW c \in Clients, NEW b \in Branches, SingleHead(c, b)
  PROVE  IInv'
<1>1. TypeOK /\ GraphInv /\ PushedOK(c) /\ TransactionOK(c) /\ LockOK
    BY DEF IInv, GraphInv
<1>2. /\ pc[c] = "merge" /\ pc' = pc
      /\ result' = [result EXCEPT ![c][b] = temp[c][b][1]]
      /\ UNCHANGED <<tip, frontier, pushed, newBranches, headInfo, todo, temp, merged,
                     vaultVars, graphVars, lock>>
      /\ \A d \in Clients : d # c => UNCHANGED sessionOf(d)
  <2>1. \A d \in Clients : d # c => result'[d] = result[d]
      BY <1>1 DEF SingleHead, TypeOK
  <2> QED BY <2>1 DEF SingleHead, sessionOf, sentVars
<1>3. GraphInv' /\ GraphGrows /\ \A d \in Branches : OnBranch(d)' = OnBranch(d)
    BY <1>1, <1>2, GraphSame
<1>4. LockOK'
    BY <1>1, <1>2 DEF LockOK, InPushHead
<1>5. PushedOK(c)'
    BY <1>1, <1>2, <1>3 DEF PushedOK, vaultVars, graphVars
<1>6. \A d \in Branches : result'[c][d] = IF d = b THEN temp[c][b][1] ELSE result[c][d]
    BY <1>1, <1>2 DEF TypeOK
<1>7. MergedOK(c) /\ \A d \in Branches : TempOK(c, d) /\ ResultOK(c, d)
    BY <1>1, <1>2 DEF TransactionOK
<1>8. MergedOK(c)'
  <2>1. \A m \in merged[c] : m # None /\ branchOf[m] \in Branches
      BY <1>1, <1>7, BranchOfMade, NoneAssumption DEF MergedOK, TypeOK
  <2> QED BY <1>2, <1>6, <1>7, <2>1 DEF MergedOK, graphVars, vaultVars, SingleHead, Open
<1>9. \A d \in Branches : TempOK(c, d)'
    BY <1>2, <1>3, <1>7 DEF TempOK, AtMostOneHead, graphVars, vaultVars
<1>10. ResultOK(c, b)'
  <2>1. temp[c][b] # <<>> /\ DOMAIN temp[c][b] = {1}
      BY <1>1 DEF SingleHead, Open, TypeOK
  <2>2. temp[c][b][1] \in (pushed[c] \cup versions) \cap OnBranch(b)
      BY <1>7, <2>1 DEF TempOK
  <2>3. temp[c][b][1] \in anc[temp[c][b][1]]
      BY <1>1, <2>2, BranchOfMade DEF GraphInv, GraphOK
  <2> QED BY <1>2, <1>3, <1>6, <2>1, <2>2, <2>3 DEF ResultOK, graphVars, vaultVars
<1>11. \A d \in Branches : d # b => ResultOK(c, d)'
    BY <1>2, <1>3, <1>6, <1>7 DEF ResultOK, graphVars, vaultVars
<1>12. TransactionOK(c)'
    BY <1>2, <1>8, <1>9, <1>10, <1>11 DEF TransactionOK
<1>13. told' \subseteq versions
    BY DEF IInv, AcceptedIsStored, SingleHead
<1> QED BY <1>2, <1>3, <1>4, <1>5, <1>12, <1>13, OwnStep DEF SingleHead

\* An automerge: the new version descends from the two heads it replaces.
LEMMA AutomergeKeeps ==
  ASSUME IInv, TypeOK', NEW c \in Clients, NEW b \in Branches, NEW m \in MergeIds,
         Automerge(c, b, m)
  PROVE  IInv'
<1> DEFINE local == temp[c][b][1]
           remote == temp[c][b][2]
<1>1. TypeOK /\ GraphInv /\ PushedOK(c) /\ TransactionOK(c) /\ LockOK
    BY DEF IInv, GraphInv
<1>2. /\ pc[c] = "merge" /\ pc' = pc
      /\ result' = [result EXCEPT ![c][b] = m]
      /\ merged'[c] = merged[c] \cup {m}
      /\ UNCHANGED <<tip, frontier, pushed, newBranches, headInfo, todo, temp, vaultVars,
                     lock, told, clientVars>>
      /\ \A d \in Clients : d # c => UNCHANGED sessionOf(d)
  <2>1. \A d \in Clients : d # c => result'[d] = result[d] /\ merged'[d] = merged[d]
      BY <1>1 DEF Automerge, TypeOK
  <2> QED BY <2>1, <1>1 DEF Automerge, sessionOf, sentVars, TypeOK
<1>3. MergedOK(c) /\ \A d \in Branches : TempOK(c, d) /\ ResultOK(c, d)
    BY <1>1, <1>2 DEF TransactionOK
<1>4. /\ temp[c][b] # <<>> /\ DOMAIN temp[c][b] = {1, 2} /\ Len(temp[c][b]) > 1
      /\ result[c][b] = None
    BY <1>1 DEF Automerge, Open, TypeOK
<1>5. /\ {local, remote} \subseteq (pushed[c] \cup versions) \cap OnBranch(b)
      /\ branchOf[local] = b
    BY <1>3, <1>4 DEF TempOK
<1>6. {local, remote} \in SUBSET made /\ origin[b] # None /\ m \in AllVersions \ made
    BY <1>5, BranchOfMade DEF Automerge, AllVersions
<1>7. /\ GraphInv' /\ GraphGrows /\ made' = made \cup {m}
      /\ up'[m] = {local, remote} /\ branchOf'[m] = b
      /\ m \in anc'[m] /\ anc[local] \subseteq anc'[m] /\ anc[remote] \subseteq anc'[m]
      /\ m \in OnBranch(b)'
  <2>1. NewVersion(m, b, {local, remote})
      BY <1>5 DEF Automerge
  <2> HIDE DEF local, remote
  <2> QED BY <1>1, <1>5, <1>6, <2>1, NewVersionKeepsGraph
<1>8. LockOK'
    BY <1>1, <1>2 DEF LockOK, InPushHead
<1>9. PushedOK(c)'
  <2>1. \A d \in Branches : OnBranch(d) \subseteq OnBranch(d)'
      BY <1>1, <1>7, OnBranchGrows
  <2>2. newBranches[c] \subseteq Branches
      BY <1>1 DEF TypeOK
  <2>3. \A v \in pushed[c] : up'[v] = up[v]
      BY <1>7, BranchOfMade DEF GraphGrows
  <2> QED BY <1>1, <1>2, <1>7, <2>1, <2>2, <2>3 DEF PushedOK, vaultVars, GraphGrows
<1>10. \A d \in Branches : result'[c][d] = IF d = b THEN m ELSE result[c][d]
    BY <1>1, <1>2 DEF TypeOK
<1>11. MergedOK(c)'
  <2>1. \A n \in merged[c] : n \in made /\ n # None /\ branchOf[n] \in Branches
      BY <1>1, <1>3, BranchOfMade, NoneAssumption DEF MergedOK, TypeOK
  <2>2. \A n \in merged[c] : branchOf[n] # b /\ branchOf'[n] = branchOf[n] /\ up'[n] = up[n]
      BY <2>1, <1>3, <1>4, <1>7 DEF MergedOK, GraphGrows
  <2> QED BY <1>2, <1>3, <1>5, <1>7, <1>10, <2>1, <2>2 DEF MergedOK, vaultVars
<1>12. ASSUME NEW d \in Branches PROVE TempOK(c, d)'
  <2>1. \A i \in DOMAIN temp[c][d] : temp[c][d][i] \in made
      BY <1>3, BranchOfMade DEF TempOK
  <2>2. \A h \in heads[d] : h \in made
      BY BranchOfMade
  <2>3. \A u \in pushed[c] : u \in made
      BY BranchOfMade
  <2>4. OnBranch(d) \subseteq OnBranch(d)'
      BY <1>1, <1>7, OnBranchGrows
  <2>5. TempOK(c, d)
      BY <1>3
  <2> QED BY <1>2, <1>7, <2>1, <2>2, <2>3, <2>4, <2>5 DEF TempOK, AtMostOneHead, vaultVars, GraphGrows
<1>13. ASSUME NEW d \in Branches PROVE ResultOK(c, d)'
  <2>1. CASE d = b
    <3>1. local \in anc[local] /\ remote \in anc[remote]
        BY <1>1, <1>6 DEF GraphInv, GraphOK
    <3>2. \A i \in DOMAIN temp[c][b] : temp[c][b][i] \in anc'[m]
        BY <3>1, <1>4, <1>7
    <3>3. result'[c][b] = m /\ m \in merged'[c]
        BY <1>2, <1>10
    <3> QED BY <2>1, <3>2, <3>3, <1>2, <1>4, <1>7 DEF ResultOK
  <2>2. CASE d # b
    <3>1. ResultOK(c, d) /\ result'[c][d] = result[c][d]
        BY <2>2, <1>3, <1>10
    <3>2. result[c][d] # None => result[c][d] \in OnBranch(d)' /\ anc'[result[c][d]] = anc[result[c][d]]
      <4>1. result[c][d] # None => result[c][d] \in OnBranch(d) /\ result[c][d] \in made
          BY <3>1 DEF ResultOK, OnBranch
      <4> QED BY <4>1, <1>1, <1>7, OnBranchGrows DEF GraphGrows
    <3> QED BY <1>2, <3>1, <3>2 DEF ResultOK, vaultVars
  <2> QED BY <2>1, <2>2
<1>14. TransactionOK(c)'
    BY <1>2, <1>11, <1>12, <1>13 DEF TransactionOK
<1>15. told' \subseteq versions
    BY <1>2 DEF IInv, AcceptedIsStored
<1> QED BY <1>2, <1>7, <1>8, <1>9, <1>14, <1>15, OwnStep

\* Every branch the push touched has its resulting head.
LEMMA HeadsResolvedKeeps ==
  ASSUME IInv, TypeOK', NEW c \in Clients, HeadsResolved(c)
  PROVE  IInv'
<1>1. TypeOK /\ GraphInv /\ PushedOK(c) /\ TransactionOK(c) /\ LockOK
    BY DEF IInv, GraphInv
<1>2. /\ pc[c] = "merge" /\ pc'[c] = "hook"
      /\ \A b \in Branches : ~Open(c, b)
      /\ UNCHANGED <<tip, frontier, pushed, newBranches, headInfo, todo, temp, result, merged,
                     vaultVars, graphVars, lock>>
      /\ \A d \in Clients : d # c => UNCHANGED sessionOf(d)
    BY <1>1 DEF HeadsResolved, Goto, TypeOK, sessionOf, sentVars, acceptVars
<1>3. GraphInv' /\ GraphGrows /\ \A d \in Branches : OnBranch(d)' = OnBranch(d)
    BY <1>1, <1>2, GraphSame
<1>4. LockOK'
    BY <1>1, <1>2 DEF LockOK, InPushHead, sessionOf
<1>5. PushedOK(c)'
    BY <1>1, <1>2, <1>3 DEF PushedOK, vaultVars, graphVars
<1>6. MergedOK(c) /\ \A d \in Branches : TempOK(c, d) /\ ResultOK(c, d)
    BY <1>1, <1>2 DEF TransactionOK
<1>7. MergedOK(c)'
    BY <1>2, <1>6 DEF MergedOK, graphVars, vaultVars
<1>8. \A d \in Branches : TempOK(c, d)'
    BY <1>2, <1>3, <1>6 DEF TempOK, AtMostOneHead, graphVars, vaultVars
<1>9. \A d \in Branches : ResultOK(c, d)'
    BY <1>2, <1>3, <1>6 DEF ResultOK, Open, graphVars, vaultVars
<1>10. TransactionOK(c)'
    BY <1>2, <1>7, <1>8, <1>9 DEF TransactionOK
<1>11. told' \subseteq versions
    BY DEF IInv, AcceptedIsStored, HeadsResolved
<1> QED BY <1>2, <1>3, <1>4, <1>5, <1>10, <1>11, OwnStep DEF HeadsResolved

\* The commit of a push: what it sent and merged completes the vault, and each
\* resulting head descends from the heads it replaces.
LEMMA CommitPushKeeps ==
  ASSUME IInv, TypeOK', NEW c \in Clients, CommitPush(c)
  PROVE  /\ IInv'
         /\ \A b \in Branches : \A h \in heads[b] : \E g \in heads'[b] : h \in anc'[g]
<1>1. TypeOK /\ GraphInv /\ VaultOK /\ PushedOK(c) /\ TransactionOK(c) /\ LockOK
    BY DEF IInv, GraphInv
<1>2. /\ pc[c] = "import" /\ pc'[c] = "reply"
      /\ versions' = versions \cup pushed[c] \cup merged[c]
      /\ branches' = branches \cup newBranches[c]
      /\ UNCHANGED <<tip, frontier, pushed, newBranches, headInfo, todo, temp, result, merged,
                     graphVars, clientVars, lock, told>>
      /\ \A d \in Clients : d # c => UNCHANGED sessionOf(d)
    BY <1>1 DEF CommitPush, Goto, TypeOK, sessionOf, sentVars, acceptVars
<1>3. \A b \in Branches :
        heads'[b] = IF result[c][b] # None THEN {result[c][b]}
                    ELSE IF heads[b] = {} /\ headInfo[c][b] \in versions' THEN {headInfo[c][b]}
                    ELSE heads[b]
    BY DEF CommitPush
<1>4. GraphInv' /\ GraphGrows /\ \A d \in Branches : OnBranch(d)' = OnBranch(d)
    BY <1>1, <1>2, GraphSame
<1>5. MergedOK(c) /\ \A d \in Branches : TempOK(c, d) /\ ResultOK(c, d)
    BY <1>1, <1>2 DEF TransactionOK
<1>6. \A m \in merged[c] : m \in made /\ branchOf[m] \in Branches /\ m # None
    BY <1>1, <1>5, BranchOfMade, NoneAssumption DEF MergedOK, TypeOK
<1>7. frontier[c] = {} /\ todo[c] = {} /\ pushed[c] \subseteq made
    BY <1>1, <1>2 DEF PushedOK
\* What a temporary head covers, the new head covers.
<1>8. ASSUME NEW b \in Branches, NEW i \in DOMAIN temp[c][b], NEW u \in anc[temp[c][b][i]]
      PROVE  \E g \in heads'[b] : u \in anc[g]
  <2>1. temp[c][b] # <<>>
      OBVIOUS
  <2>2. /\ result[c][b] # None /\ result[c][b] \in made
        /\ temp[c][b][i] \in anc[result[c][b]]
      BY <2>1, <1>2, <1>5 DEF ResultOK, OnBranch
  <2>3. u \in anc[result[c][b]]
      BY <2>2, <1>1 DEF GraphInv, GraphOK
  <2> QED BY <2>2, <2>3, <1>3
<1>9. ASSUME NEW b \in Branches, NEW h \in heads[b], NEW u \in anc[h]
      PROVE  \E g \in heads'[b] : u \in anc[g]
  <2>1. CASE result[c][b] # None
    <3>1. temp[c][b] # <<>>
        BY <2>1, <1>5 DEF ResultOK
    <3>2. PICK i \in DOMAIN temp[c][b] : h \in anc[temp[c][b][i]]
        BY <3>1, <1>5 DEF TempOK
    <3>3. temp[c][b][i] \in made
        BY <1>5, BranchOfMade DEF TempOK
    <3> QED BY <3>2, <3>3, <1>1, <1>8 DEF GraphInv, GraphOK
  <2>2. CASE result[c][b] = None
      BY <2>2, <1>3
  <2> QED BY <2>1, <2>2
<1>10. \A b \in Branches : \A h \in heads[b] : \E g \in heads'[b] : h \in anc'[g]
    BY <1>1, <1>2, <1>9, BranchOfMade DEF GraphInv, GraphOK, graphVars
<1>11. VaultOK'
  <2>1. versions' \subseteq made'
      BY <1>1, <1>2, <1>6, <1>7 DEF VaultOK, graphVars
  <2>2. HistoryComplete'
      BY <1>1, <1>2, <1>5, <1>7 DEF VaultOK, HistoryComplete, PushedOK, MergedOK, graphVars
  <2>3. NothingLost'
    <3> SUFFICES ASSUME NEW u \in versions' PROVE \E g \in heads'[branchOf[u]] : u \in anc[g]
        BY <1>2 DEF NothingLost, graphVars
    <3>1. CASE u \in versions
      <4>1. PICK h \in heads[branchOf[u]] : u \in anc[h]
          BY <3>1, <1>1 DEF VaultOK, NothingLost
      <4> QED BY <3>1, <4>1, <1>9, BranchOfMade
    <3>2. CASE u \in pushed[c]
      <4>1. branchOf[u] \in Branches
          BY <3>2, BranchOfMade
      <4>2. PICK i \in DOMAIN temp[c][branchOf[u]] : u \in anc[temp[c][branchOf[u]][i]]
          BY <3>2, <4>1, <1>5, <1>7 DEF TempOK
      <4> QED BY <4>1, <4>2, <1>8
    <3>3. CASE u \in merged[c]
      <4>1. result[c][branchOf[u]] = u /\ u \in anc[u]
          BY <3>3, <1>1, <1>5, <1>6 DEF MergedOK, GraphInv, GraphOK
      <4> QED BY <3>3, <4>1, <1>3, <1>6
    <3> QED BY <3>1, <3>2, <3>3, <1>2
  <2>4. ASSUME NEW b \in Branches PROVE heads'[b] \subseteq versions' \cap OnBranch(b)'
    <3>1. CASE result[c][b] # None
      <4>1. ResultOK(c, b)
          BY <1>5
      <4>2. result[c][b] \in versions' /\ result[c][b] \in OnBranch(b)
          BY <3>1, <4>1, <1>2 DEF ResultOK
      <4>3. heads'[b] = {result[c][b]}
          BY <3>1, <1>3
      <4>4. OnBranch(b)' = OnBranch(b)
          BY <1>4
      <4> QED BY <4>2, <4>3, <4>4
    <3>2. CASE result[c][b] = None /\ heads[b] = {} /\ headInfo[c][b] \in versions'
      <4>1. headInfo[c][b] \in made
          BY <3>2, <2>1, <1>2 DEF graphVars
      <4>2. headInfo[c][b] # None
          BY <4>1, <1>1, NoneAssumption DEF TypeOK
      <4>3. headInfo[c][b] \in OnBranch(b)
          BY <4>2, <1>1 DEF PushedOK
      <4>4. heads'[b] = {headInfo[c][b]}
          BY <3>2, <1>3
      <4> QED BY <3>2, <4>3, <4>4, <1>4
    <3>3. CASE result[c][b] = None /\ ~(heads[b] = {} /\ headInfo[c][b] \in versions')
        BY <3>3, <1>1, <1>2, <1>3, <1>4 DEF VaultOK
    <3> QED BY <3>1, <3>2, <3>3
  <2>5. \A b \in branches' : origin'[b] # None
      BY <1>1, <1>2 DEF VaultOK, PushedOK, graphVars
  <2> QED BY <2>1, <2>2, <2>3, <2>4, <2>5, <1>1, <1>2 DEF VaultOK, clientVars, graphVars
<1>12. AcceptedIsStored'
    BY <1>2 DEF IInv, AcceptedIsStored
<1>13. LockOK'
    BY <1>1, <1>2 DEF LockOK, InPushHead, sessionOf
<1>14. PushedOK(c)' /\ TransactionOK(c)'
  <2>1. PushedOK(c)'
      BY <1>1, <1>2, <1>4 DEF PushedOK, graphVars
  <2>2. TransactionOK(c)'
      BY <1>2 DEF TransactionOK
  <2> QED BY <2>1, <2>2
<1>15. ASSUME NEW d \in Clients, d # c PROVE PushedOK(d)' /\ TransactionOK(d)'
  <2>1. ~InPushHead(d)
      BY <1>1, <1>2, <1>15 DEF LockOK, InPushHead
  <2> QED BY <2>1, <1>2, <1>4, <1>15, OthersUndisturbed
<1> QED BY <1>4, <1>10, <1>11, <1>12, <1>13, <1>14, <1>15 DEF IInv, GraphInv

\* The end of a push: the connection holds nothing, and the lock is free.
LEMMA EndKeeps ==
  ASSUME IInv, TypeOK', NEW c \in Clients, EndSession(c),
         UNCHANGED <<graphVars, clientVars, vaultVars>>, told' \subseteq versions
  PROVE  IInv'
<1>1. TypeOK /\ GraphInv /\ LockOK
    BY DEF IInv, GraphInv
<1>2. /\ pc'[c] = "idle" /\ tip'[c] = None /\ frontier'[c] = {} /\ pushed'[c] = {}
      /\ newBranches'[c] = {} /\ headInfo'[c] = NoHeads /\ todo'[c] = {}
      /\ temp'[c] = NoTemp /\ result'[c] = NoHeads /\ merged'[c] = {}
      /\ lock' = IF lock = c THEN None ELSE lock
      /\ \A d \in Clients : d # c => UNCHANGED sessionOf(d)
    BY <1>1 DEF EndSession, Goto, TypeOK, sessionOf
<1>3. GraphInv' /\ GraphGrows
    BY <1>1, GraphSame
<1>4. LockOK'
    BY <1>1, <1>2, NoneAssumption DEF LockOK, InPushHead, sessionOf
<1>5. PushedOK(c)'
    BY <1>2 DEF PushedOK, NoHeads
<1>6. TransactionOK(c)'
    BY <1>2 DEF TransactionOK
<1> QED BY <1>2, <1>3, <1>4, <1>5, <1>6, OwnStep

LEMMA EndOfPushKeeps ==
  ASSUME IInv, TypeOK', NEW c \in Clients, Reply(c) \/ Reject(c) \/ Abort(c)
  PROVE  IInv' /\ UNCHANGED <<anc, heads>>
<1>1. CASE Reply(c)
  <2>1. told' \subseteq versions
      BY <1>1 DEF Reply, IInv, AcceptedIsStored, PushedOK
  <2> QED BY <1>1, <2>1, EndKeeps DEF Reply, graphVars, vaultVars
<1>2. CASE Reject(c) \/ Abort(c)
  <2>1. told' \subseteq versions
      BY <1>2 DEF Reject, Abort, IInv, AcceptedIsStored
  <2> QED BY <1>2, <2>1, EndKeeps DEF Reject, Abort, graphVars, vaultVars
<1> QED BY <1>1, <1>2

\* The hooks refuse the push, which ends it, or let it go on as it is.
LEMMA RunHooksKeeps ==
  ASSUME IInv, TypeOK', NEW c \in Clients, RunHooks(c)
  PROVE  IInv' /\ UNCHANGED <<anc, heads>>
<1>1. TypeOK /\ GraphInv /\ PushedOK(c) /\ TransactionOK(c) /\ LockOK
    BY DEF IInv, GraphInv
<1>2. /\ pc[c] = "hook" /\ UNCHANGED <<graphVars, clientVars, vaultVars, told>>
      /\ told' \subseteq versions
    BY DEF RunHooks, IInv, AcceptedIsStored
<1>3. UNCHANGED <<anc, heads>>
    BY <1>2 DEF graphVars, vaultVars
<1>4. CASE EndSession(c)
    BY <1>2, <1>3, <1>4, EndKeeps
<1>5. CASE Goto(c, "import") /\ UNCHANGED <<lock, stale, sentVars, acceptVars>>
  <2>1. /\ pc'[c] = "import" /\ UNCHANGED <<sentVars, acceptVars, lock>>
        /\ \A d \in Clients : d # c => UNCHANGED sessionOf(d)
      BY <1>1, <1>5 DEF Goto, TypeOK, sessionOf, sentVars, acceptVars
  <2>2. GraphInv' /\ GraphGrows /\ \A d \in Branches : OnBranch(d)' = OnBranch(d)
      BY <1>1, <1>2, GraphSame
  <2>3. LockOK'
      BY <1>1, <1>2, <2>1 DEF LockOK, InPushHead, sessionOf
  <2>4. PushedOK(c)'
      BY <1>1, <1>2, <2>1, <2>2 DEF PushedOK, vaultVars, graphVars, sentVars, acceptVars
  <2>5. MergedOK(c) /\ \A d \in Branches : TempOK(c, d) /\ ResultOK(c, d)
      BY <1>1, <1>2 DEF TransactionOK
  <2>6. MergedOK(c)'
      BY <1>2, <2>1, <2>5 DEF MergedOK, graphVars, vaultVars, sentVars, acceptVars
  <2>7. \A d \in Branches : TempOK(c, d)'
      BY <1>2, <2>1, <2>2, <2>5 DEF TempOK, AtMostOneHead, graphVars, vaultVars, sentVars,
         acceptVars
  <2>8. \A d \in Branches : ResultOK(c, d)'
      BY <1>2, <2>1, <2>2, <2>5 DEF ResultOK, graphVars, vaultVars, sentVars, acceptVars
  <2>9. TransactionOK(c)'
      BY <2>1, <2>6, <2>7, <2>8 DEF TransactionOK
  <2> QED BY <1>2, <1>3, <2>1, <2>2, <2>3, <2>4, <2>9, OwnStep
<1> QED BY <1>4, <1>5 DEF RunHooks

\* A lost snapshot is no part of what the connection and the vault hold.
LEMMA DisturbKeeps ==
  ASSUME IInv, TypeOK', NEW c \in Clients, Disturb(c)
  PROVE  IInv' /\ UNCHANGED <<anc, heads>>
<1>1. /\ GraphInv /\ PushedOK(c) /\ TransactionOK(c) /\ LockOK
      /\ UNCHANGED <<graphVars, clientVars, vaultVars, lock, pc, sentVars, acceptVars, told>>
    BY DEF IInv, GraphInv, Disturb
<1>2. GraphInv' /\ GraphGrows
    BY <1>1, GraphSame
<1>3. LockOK' /\ \A d \in Clients : PushedOK(d)' /\ TransactionOK(d)'
    BY <1>1, <1>2, AllUndisturbed DEF vaultVars
<1>4. \A d \in Clients : UNCHANGED sessionOf(d)
    BY <1>1 DEF sessionOf, sentVars, acceptVars
<1>5. told' \subseteq versions
    BY <1>1 DEF IInv, AcceptedIsStored
<1>6. UNCHANGED <<anc, heads>>
    BY <1>1 DEF graphVars, vaultVars
<1> QED BY <1>1, <1>2, <1>3, <1>4, <1>5, <1>6, OwnStep

-----------------------------------------------------------------------------
(* The theorems. *)

LEMMA InitIInv == Init => IInv
<1> SUFFICES ASSUME Init PROVE IInv
    OBVIOUS
<1> USE NoneAssumption, TrunkAssumption, IdsAssumption DEF Init
<1>1. TypeOK
  <2>1. NoTemp \in [Branches -> Seq(AllVersions)] /\ NoHeads \in [Branches -> AllVersions \cup {None}]
      BY DEF NoTemp, NoHeads
  <2> QED BY <2>1 DEF TypeOK, Places, AllVersions
<1>2. GraphOK /\ AncestryIsLeast /\ BranchesRooted
    BY DEF GraphOK, AncestryIsLeast, BranchesRooted, Closed, AllVersions
<1>3. VaultOK
    BY DEF VaultOK, HistoryComplete, NothingLost, OnBranch, AllVersions
<1>4. AcceptedIsStored /\ LockOK
    BY DEF AcceptedIsStored, LockOK, InPushHead
<1>5. ASSUME NEW c \in Clients PROVE PushedOK(c) /\ TransactionOK(c)
    BY DEF PushedOK, TransactionOK, NoHeads
<1> QED BY <1>1, <1>2, <1>3, <1>4, <1>5 DEF IInv

\* Every step keeps the invariant, and the heads move forward.
LEMMA NextKeeps ==
  ASSUME IInv, [Next]_vars
  PROVE  /\ IInv'
         /\ \A b \in Branches : \A h \in heads[b] : \E g \in heads'[b] : h \in anc'[g]
<1> DEFINE Forward == \A b \in Branches : \A h \in heads[b] : \E g \in heads'[b] : h \in anc'[g]
<1>0. UNCHANGED heads /\ GraphGrows => Forward
    BY BranchOfMade DEF IInv, GraphOK, GraphGrows
<1>1. TypeOK /\ GraphInv
    BY DEF IInv, GraphInv
<1>2. UNCHANGED <<graphVars, heads>> => Forward
    BY <1>0, <1>1, GraphSame
<1>3. CASE VaultWork
  <2>1. TypeOK'
    <3>1. CASE Clients # {}
        BY <1>3, <3>1, TypeOfWork
    <3>2. CASE Clients = {}
        BY <1>1, <1>3, <3>2 DEF VaultWork, VaultCommit, NewVersion, AllVersions, TypeOK,
             clientVars, sentVars, acceptVars
    <3> QED BY <3>1, <3>2
  <2> QED BY <1>3, <2>1, VaultCommitKeeps DEF VaultWork
<1>4. ASSUME NEW c \in Clients, Work(c) PROVE IInv' /\ Forward
  <2>1. TypeOK'
      BY <1>4, TypeOfWork
  <2>2. CASE \E b \in Branches, v \in AllVersions : CreateBranch(c, b, v)
    <3> PICK b \in Branches, v \in AllVersions : CreateBranch(c, b, v)
        BY <2>2
    <3>1. UNCHANGED heads /\ GraphGrows
        BY <1>1 DEF CreateBranch, vaultVars, GraphGrows, TypeOK
    <3> QED BY <2>1, <3>1, <1>0, CreateBranchKeeps
  <2>3. CASE \E b \in Branches, v \in AllVersions : ClientPull(c, b, v)
    <3> PICK b \in Branches, v \in AllVersions : ClientPull(c, b, v)
        BY <2>3
    <3> QED BY <2>1, <1>2, ClientPullKeeps DEF ClientPull, vaultVars
  <2>4. CASE \E v \in Versions, b \in Branches, p, s \in AllVersions : ClientCommit(c, v, b, p, s)
    <3> PICK v \in Versions, b \in Branches, p \in AllVersions, s \in AllVersions :
               ClientCommit(c, v, b, p, s)
        BY <2>4
    <3>1. UNCHANGED heads /\ GraphGrows
        BY <1>1 DEF ClientCommit, NewVersion, vaultVars, GraphGrows, TypeOK
    <3> QED BY <2>1, <3>1, <1>0, ClientCommitKeeps
  <2>5. CASE \E v \in AllVersions : StartPush(c, v)
    <3> PICK v \in AllVersions : StartPush(c, v)
        BY <2>5
    <3> QED BY <2>1, <1>2, StartPushKeeps DEF StartPush, vaultVars
  <2> QED BY <1>4, <2>2, <2>3, <2>4, <2>5 DEF Work
<1>5. ASSUME NEW c \in Clients, Serve(c) \/ Disturb(c) \/ Abort(c) PROVE IInv' /\ Forward
  <2>1. TypeOK'
      BY <1>5, TypeOfServe
  <2>2. CASE QueryChunk(c)
      BY <2>1, <2>2, <1>2, QueryChunkKeeps DEF QueryChunk, vaultVars
  <2>3. CASE SendVersions(c)
      BY <2>1, <2>3, <1>2, SendVersionsKeeps DEF SendVersions, vaultVars
  <2>4. CASE \E v \in AllVersions : Consider(c, v)
      BY <2>1, <2>4, <1>2, ConsiderKeeps DEF Consider, vaultVars
  <2>5. CASE \E b \in Branches : SingleHead(c, b)
      BY <2>1, <2>5, <1>2, SingleHeadKeeps DEF SingleHead, vaultVars
  <2>6. CASE \E b \in Branches, m \in MergeIds : Automerge(c, b, m)
    <3> PICK b \in Branches, m \in MergeIds : Automerge(c, b, m)
        BY <2>6
    <3>1. UNCHANGED heads /\ GraphGrows
        BY <1>1 DEF Automerge, NewVersion, vaultVars, GraphGrows, TypeOK
    <3> QED BY <2>1, <3>1, <1>0, AutomergeKeeps
  <2>7. CASE HeadsResolved(c)
      BY <2>1, <2>7, <1>2, HeadsResolvedKeeps DEF HeadsResolved, vaultVars
  <2>8. CASE CommitPush(c)
      BY <2>1, <2>8, CommitPushKeeps
  <2>9. CASE Reply(c) \/ Reject(c) \/ Abort(c)
    <3>1. UNCHANGED <<graphVars, heads>>
        BY <2>9 DEF Reply, Reject, Abort, vaultVars
    <3> QED BY <2>1, <2>9, <3>1, <1>2, EndOfPushKeeps
  <2>10. CASE BeginPushHead(c)
      BY <2>1, <2>10, <1>2, BeginPushHeadKeeps DEF BeginPushHead, vaultVars
  <2>11. CASE RunHooks(c) \/ Disturb(c)
    <3>1. UNCHANGED <<graphVars, heads>>
        BY <2>11 DEF RunHooks, Disturb, vaultVars
    <3> QED BY <2>1, <2>11, <3>1, <1>2, RunHooksKeeps, DisturbKeeps
  <2> QED BY <1>5, <2>2, <2>3, <2>4, <2>5, <2>6, <2>7, <2>8, <2>9, <2>10, <2>11
          DEF Serve, Handle
<1>6. CASE UNCHANGED vars
  <2> USE <1>6 DEF vars, vaultVars, clientVars, sentVars, acceptVars
  <2>1. GraphInv' /\ GraphGrows
      BY <1>1, GraphSame
  <2>2. TypeOK'
      BY <1>1 DEF TypeOK, graphVars
  <2>3. VaultOK'
    <3>1. \A d \in Clients : repo'[d] \subseteq made'
        BY BranchOfMade DEF graphVars
    <3>2. \A d \in Clients : \A b \in known'[d] : origin'[b] # None
        BY DEF IInv, VaultOK, graphVars
    <3> QED BY <2>1, <2>2, <3>1, <3>2, VaultSame
  <2>4. LockOK' /\ \A c \in Clients : PushedOK(c)' /\ TransactionOK(c)'
      BY <2>1, AllUndisturbed
  <2>5. AcceptedIsStored'
      BY DEF IInv, AcceptedIsStored
  <2>6. Forward
      BY <1>2
  <2> QED BY <2>1, <2>2, <2>3, <2>4, <2>5, <2>6 DEF IInv, GraphInv
<1> QED BY <1>3, <1>4, <1>5, <1>6 DEF Next

THEOREM InductiveInvariant == Spec => []IInv
<1>1. IInv /\ [Next]_vars => IInv'
    BY NextKeeps
<1> QED BY InitIInv, <1>1, PTL DEF Spec

\* Every variable holds a value of its kind, for any sets of clients, versions
\* and branches.
THEOREM TypeCorrect == Spec => []TypeOK
<1>1. IInv => TypeOK
    BY DEF IInv
<1> QED BY InductiveInvariant, <1>1, PTL

\* The vault's history is complete, although each push leaves out what the
\* vault answered, at different moments, it already had.
THEOREM VaultHistoryComplete == Spec => []HistoryComplete
<1>1. IInv => HistoryComplete
    BY DEF IInv, VaultOK
<1> QED BY InductiveInvariant, <1>1, PTL

\* No stored version is lost: it stays an ancestor of a head of its branch.
THEOREM NoVersionLost == Spec => []NothingLost
<1>1. IInv => NothingLost
    BY DEF IInv, VaultOK
<1> QED BY InductiveInvariant, <1>1, PTL

\* A push that the client saw accepted is stored for good.
THEOREM AcceptedStored == Spec => []AcceptedIsStored
<1>1. IInv => AcceptedIsStored
    BY DEF IInv
<1> QED BY InductiveInvariant, <1>1, PTL

\* No step of a push, of an automerge or of the vault's user rewinds a head.
THEOREM HeadsForward == Spec => HeadsMoveForward
<1>1. IInv /\ [Next]_vars =>
        [\A b \in Branches : \A h \in heads[b] : \E g \in heads'[b] : h \in anc'[g]]_vars
    BY NextKeeps
<1> QED BY InductiveInvariant, <1>1, PTL DEF Spec, HeadsMoveForward

\* When a push stores its heads, the branches still have one head at most.
THEOREM ImportFindsOneHead == Spec => []OneHeadAtImport
<1>1. IInv => OneHeadAtImport
    BY DEF IInv, OneHeadAtImport, TransactionOK, TempOK, ResultOK
<1> QED BY InductiveInvariant, <1>1, PTL

-----------------------------------------------------------------------------
(* The vault implements VersionStore. *)

\* A step writes at most one version, on top of existing ones, and the
\* versions in the vault only grow; when they and the heads do not change, the
\* store stutters.
LEMMA StepsOfTheStore ==
  ASSUME IInv, [Next]_vars
  PROVE  /\ \/ UNCHANGED Vault!graph
            \/ \E v \in AllVersions, b \in Branches, p, s \in AllVersions :
                 Vault!Write(v, b, {p, s})
         /\ versions \subseteq versions'
<1> USE DEF Vault!graph
<1>1. TypeOK
    BY DEF IInv
<1>2. CASE VaultWork
  <2> PICK v \in Versions, b \in Branches, p \in AllVersions, s \in AllVersions :
             VaultCommit(v, b, p, s)
      BY <1>2 DEF VaultWork
  <2>1. v \in AllVersions \ made /\ {p, s} \subseteq made /\ {p, s} # {}
      BY BranchOfMade DEF VaultCommit, AllVersions
  <2>2. Vault!Write(v, b, {p, s})
      BY <2>1 DEF VaultCommit, NewVersion, Vault!Write
  <2> QED BY <2>1, <2>2 DEF VaultCommit
<1>3. ASSUME NEW c \in Clients, NEW v \in Versions, NEW b \in Branches,
             NEW p \in AllVersions, NEW s \in AllVersions, ClientCommit(c, v, b, p, s)
      PROVE  Vault!Write(v, b, {p, s}) /\ v \in AllVersions /\ versions' = versions
  <2>1. v \in AllVersions \ made /\ {p, s} \subseteq made /\ {p, s} # {}
      BY <1>3, BranchOfMade DEF ClientCommit, AllVersions
  <2> QED BY <1>3, <2>1 DEF ClientCommit, NewVersion, Vault!Write, vaultVars
<1>4. ASSUME NEW c \in Clients, NEW b \in Branches, NEW m \in MergeIds, Automerge(c, b, m)
      PROVE  /\ \E v \in AllVersions, d \in Branches, p, s \in AllVersions :
                  Vault!Write(v, d, {p, s})
             /\ versions' = versions
  <2> DEFINE local == temp[c][b][1]
             remote == temp[c][b][2]
  <2>1. TempOK(c, b)
      BY <1>4 DEF Automerge, IInv, TransactionOK
  <2>0. temp[c][b] \in Seq(AllVersions) /\ DOMAIN temp[c][b] = {1, 2}
      BY <1>1, <1>4 DEF Automerge, TypeOK
  <2>2. {local, remote} \subseteq made
    <3>1. {local, remote} \subseteq pushed[c] \cup versions
        BY <2>0, <2>1 DEF TempOK
    <3> QED BY <3>1, BranchOfMade
  <2>3. m \in AllVersions \ made /\ branchOf[local] \in Branches
      BY <1>4, <2>2, BranchOfMade DEF Automerge, AllVersions
  <2>4. Vault!Write(m, branchOf[local], {local, remote})
      BY <1>4, <2>2, <2>3 DEF Automerge, NewVersion, Vault!Write
  <2>5. local \in AllVersions /\ remote \in AllVersions
      BY <1>1, <2>2 DEF TypeOK
  <2> HIDE DEF local, remote
  <2> QED BY <1>4, <2>3, <2>4, <2>5 DEF Automerge, vaultVars
<1>5. ASSUME NEW c \in Clients, Work(c) \/ Serve(c) \/ Disturb(c) \/ Abort(c),
             ~ \E v \in Versions, b \in Branches, p, s \in AllVersions : ClientCommit(c, v, b, p, s),
             ~ \E b \in Branches, m \in MergeIds : Automerge(c, b, m)
      PROVE  UNCHANGED Vault!graph /\ versions \subseteq versions'
    BY <1>5 DEF Work, Serve, Handle, RunHooks, Disturb, CreateBranch, ClientPull, StartPush, QueryChunk, SendVersions,
         Consider, SingleHead, HeadsResolved, CommitPush, Reply, Reject, BeginPushHead, Abort,
         graphVars, vaultVars
<1>6. CASE UNCHANGED vars
    BY <1>6 DEF vars, graphVars, vaultVars
<1>7. ASSUME NEW c \in Clients, Work(c) \/ Serve(c) \/ Disturb(c) \/ Abort(c)
      PROVE  /\ \/ UNCHANGED Vault!graph
                \/ \E v \in AllVersions, b \in Branches, p, s \in AllVersions :
                     Vault!Write(v, b, {p, s})
             /\ versions \subseteq versions'
  <2> HIDE DEF Vault!graph
  <2>1. CASE \E v \in Versions, b \in Branches, p, s \in AllVersions : ClientCommit(c, v, b, p, s)
    <3> PICK v \in Versions, b \in Branches, p \in AllVersions, s \in AllVersions :
               ClientCommit(c, v, b, p, s)
        BY <2>1
    <3> QED BY <1>3
  <2>2. CASE \E b \in Branches, m \in MergeIds : Automerge(c, b, m)
      BY <2>2, <1>4
  <2> QED BY <2>1, <2>2, <1>5, <1>7
<1> HIDE DEF Vault!graph
<1> QED BY <1>2, <1>6, <1>7 DEF Next

\* A step that adds versions to the vault, or moves its heads, takes them in
\* as the store does.
LEMMA TakesIn ==
  ASSUME IInv, [Next]_vars
  PROVE  \E new \in SUBSET AllVersions : Vault!Store(new)
<1> DEFINE new == versions' \ versions
<1>1. IInv' /\ \A b \in Branches : \A h \in heads[b] : \E g \in heads'[b] : h \in anc'[g]
    BY NextKeeps
<1>2. versions \subseteq versions'
    BY StepsOfTheStore
<1>3. TypeOK' /\ VaultOK'
    BY <1>1 DEF IInv
<1>4. new \in SUBSET AllVersions /\ versions' = versions \cup new
    BY <1>2, <1>3 DEF TypeOK
<1>5. /\ new \subseteq made'
      /\ \A v \in new : up'[v] \subseteq versions'
      /\ \A v \in new : \E g \in heads'[branchOf'[v]] : v \in anc'[g]
    BY <1>3 DEF VaultOK, HistoryComplete, NothingLost
<1>6. heads' \in [Branches -> SUBSET versions']
  <2>1. heads' \in [Branches -> SUBSET AllVersions]
      BY <1>3 DEF TypeOK
  <2>2. \A b \in Branches : heads'[b] \subseteq versions'
      BY <1>3 DEF VaultOK
  <2> QED BY <2>1, <2>2
<1>7. Vault!Store(new)
    BY <1>1, <1>4, <1>5, <1>6 DEF Vault!Store
<1> QED BY <1>4, <1>7

\* The vault implements VersionStore: every interleaving of pushes, automerges
\* and commits is, seen from outside, a sequence of atomic steps that take in
\* complete histories and move heads forward.
THEOREM VaultImplementsStore == Spec => VaultKeepsPromise
<1>1. Init => Vault!Init
    BY DEF Init, Vault!Init
<1>2. ASSUME IInv, [Next]_vars
      PROVE  Vault!Next
  <2>1. ASSUME NEW v \in AllVersions, NEW b \in Branches,
               NEW p \in AllVersions, NEW s \in AllVersions, Vault!Write(v, b, {p, s})
        PROVE  \E d \in Branches, sources \in SUBSET AllVersions : Vault!Write(v, d, sources)
    <3>1. {p, s} \in SUBSET AllVersions
        OBVIOUS
    <3> QED BY <2>1, <3>1
  <2> QED BY <1>2, <2>1, StepsOfTheStore, TakesIn DEF Vault!Next
<1> QED BY <1>1, <1>2, InductiveInvariant, PTL DEF Spec, VaultKeepsPromise, Vault!Spec
=============================================================================
