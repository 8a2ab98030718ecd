---------------------------- MODULE Workspace_proof ----------------------------
(***************************************************************************)
(* Theorems about Workspace, for any sets of processes, versions and       *)
(* branches.  IInv says what the four stores and the processes know of     *)
(* each other; HeadsOK, which adds what Commit has read of the branch's    *)
(* heads, holds where no rebase can run beside a commit (Calm); ContentOK  *)
(* says where what the files and the versions contain comes from.          *)
(***************************************************************************)
EXTENDS Workspace, FiniteSetTheorems, TLAPS

(* The graph of the versions. *)
GraphOK ==
  /\ Root \in versions
  /\ \A v \in versions : /\ v \in anc[v] /\ anc[v] \subseteq versions
                         /\ up[v] \subseteq versions
                         /\ line[v] \subseteq anc[v]
                         /\ branchOf[v] \in Branches
  /\ \A v \in versions : \A u \in anc[v] : anc[u] \subseteq anc[v]

HeadsStored == \A b \in Branches : heads[b] \subseteq versions /\ IsFiniteSet(heads[b])

(* The processes.  An id chosen for a version is no version yet and no other *)
(* process has chosen it.                                                   *)
Choosing(p) == pc[p] \in {"locked", "stored", "rebased"}

ProcessOK(p) ==
  /\ lock = p <=> pc[p] \in {"locked", "stored", "saved"}
  /\ Choosing(p) => target[p] \in Ids \ versions /\ cachedTip[p] \in versions
  /\ pc[p] = "stored" => target[p] \in stored
  /\ pc[p] \in {"saved", "merging", "merged", "staged", "updating", "updated"} =>
       target[p] \in versions /\ cachedTip[p] \in versions
  /\ mergeIDs[p] \subseteq versions

ProcessesOK ==
  /\ \A p \in Procs : ProcessOK(p)
  /\ \A p, q \in Procs : p # q /\ Choosing(p) /\ Choosing(q) => target[p] # target[q]
  /\ stage.merges \subseteq versions

IInv == TypeOK /\ GraphOK /\ HeadsStored /\ ProcessesOK /\ DataStored /\ TipStored

(* What a commit knows of the heads. *)
NothingLost == \A v \in versions : \E h \in heads[branchOf[v]] : v \in anc[h]

HeadModeOK(p) ==
  pc[p] \in {"locked", "stored"} =>
    /\ headMode[p] = "move" => cachedTip[p] \in heads[Trunk]
    /\ headMode[p] = "add" => heads[Trunk] = {}

HeadsOK ==
  /\ NothingLost
  /\ \A p \in Procs : HeadModeOK(p) /\ (pc[p] = "rebased" => "rebase" \in Commands)

(* What the versions and the files contain.  Accounted is what the stage    *)
(* remembers, the merges and updates under way have brought, or torn has.   *)
Staged == stage.changes \cap UNION {anc[m] : m \in stage.merges}
Accounted == {Edit} \cup Staged \cup torn \cup Underway

VersionsOK ==
  /\ \A v \in versions : v \in content[v] /\ content[v] \subseteq anc[v] \cup torn
  /\ \A v \in AllVersions \ versions : content[v] = {}

Named == versions \cup lost \cup {target[p] : p \in {q \in Procs : pc[q] = "rebased"}}

CommandOK(p) ==
  /\ cachedTip[p] \in Named
  /\ pc[p] \in {"locked", "stored", "saved"} =>
       tip # target[p] /\ \A q \in Procs : cachedTip[q] # target[p]
  /\ pc[p] = "staged" => content[target[p]] \subseteq stage.changes \cup torn
  /\ pc[p] = "updated" /\ cachedTip[p] = tip => files \subseteq Accounted
  /\ pc[p] = "rebased" => tip = target[p] \/ content[cachedTip[p]] \subseteq torn
  /\ pc[p] = "saved" =>
       /\ files \subseteq {Edit} \cup content[target[p]] \cup torn \cup Underway
       /\ \A q \in Procs : /\ pc[q] # "rebased"
                           /\ pc[q] = "staged" => content[target[q]] \subseteq torn

ContentOK ==
  /\ VersionsOK
  /\ files \subseteq Accounted \cup AtTip
  /\ \A p \in Procs : CommandOK(p)

-----------------------------------------------------------------------------
(* Versions. *)

\* The versions that existed keep their ancestry, branch and content.
GraphGrows ==
  /\ versions \subseteq versions'
  /\ \A u \in versions : /\ anc'[u] = anc[u] /\ up'[u] = up[u] /\ line'[u] = line[u]
                         /\ branchOf'[u] = branchOf[u] /\ content'[u] = content[u]

\* A version on top of existing ones keeps the graph sound.
LEMMA InsertKeepsGraph ==
  ASSUME TypeOK, GraphOK,
         NEW v \in AllVersions \ versions, NEW b \in Branches, NEW parent \in versions,
         NEW merges \in SUBSET versions, NEW data \in SUBSET AllVersions,
         InsertVersion(v, b, parent, merges, data)
  PROVE  /\ GraphOK' /\ GraphGrows /\ versions' = versions \cup {v}
         /\ anc'[v] = {v} \cup anc[parent] \cup UNION {anc[u] : u \in merges}
         /\ up'[v] = {parent} \cup merges
         /\ branchOf'[v] = b /\ content'[v] = {v} \cup data
         /\ up' \in [AllVersions -> SUBSET AllVersions]
         /\ anc' \in [AllVersions -> SUBSET AllVersions]
         /\ line' \in [AllVersions -> SUBSET AllVersions]
         /\ branchOf' \in [AllVersions -> Branches \cup {None}]
         /\ content' \in [AllVersions -> SUBSET AllVersions]
<1>1. /\ versions' = versions \cup {v}
      /\ \A u \in AllVersions : u # v =>
           /\ anc'[u] = anc[u] /\ up'[u] = up[u] /\ line'[u] = line[u]
           /\ branchOf'[u] = branchOf[u] /\ content'[u] = content[u]
      /\ anc'[v] = {v} \cup anc[parent] \cup UNION {anc[u] : u \in merges}
      /\ up'[v] = {parent} \cup merges /\ line'[v] = {v} \cup line[parent]
      /\ branchOf'[v] = b /\ content'[v] = {v} \cup data
    BY DEF InsertVersion, TypeOK
<1>2. versions \subseteq AllVersions
    BY DEF TypeOK
<1>3. GraphGrows
    BY <1>1, <1>2 DEF GraphGrows
<1>4. \A u \in versions' : /\ u \in anc'[u] /\ anc'[u] \subseteq versions'
                           /\ up'[u] \subseteq versions'
                           /\ line'[u] \subseteq anc'[u] /\ branchOf'[u] \in Branches
  <2>1. ASSUME NEW u \in versions
        PROVE  /\ u \in anc'[u] /\ anc'[u] \subseteq versions'
               /\ up'[u] \subseteq versions'
               /\ line'[u] \subseteq anc'[u] /\ branchOf'[u] \in Branches
      BY <1>1, <1>3 DEF GraphOK, GraphGrows
  <2>2. /\ v \in anc'[v] /\ anc'[v] \subseteq versions' /\ up'[v] \subseteq versions'
        /\ line'[v] \subseteq anc'[v] /\ branchOf'[v] \in Branches
      BY <1>1 DEF GraphOK
  <2> QED BY <2>1, <2>2, <1>1
<1>5. ASSUME NEW w \in versions', NEW u \in anc'[w] PROVE anc'[u] \subseteq anc'[w]
  <2>1. CASE w = v
    <3>1. CASE u = v
        BY <2>1, <3>1
    <3>2. CASE u # v
      <4>1. PICK q \in {parent} \cup merges : u \in anc[q]
          BY <2>1, <3>2, <1>1, <1>5
      <4>2. u \in versions /\ anc[u] \subseteq anc[q] /\ anc'[u] = anc[u]
          BY <4>1, <1>3 DEF GraphOK, GraphGrows
      <4> QED BY <2>1, <4>1, <4>2, <1>1
    <3> QED BY <3>1, <3>2
  <2>2. CASE w # v
    <3>1. w \in versions /\ u \in anc[w] /\ u \in versions
        BY <2>2, <1>1, <1>2, <1>5 DEF GraphOK
    <3> QED BY <3>1, <1>3 DEF GraphOK, GraphGrows
  <2> QED BY <2>1, <2>2
<1>6. GraphOK'
    BY <1>1, <1>4, <1>5 DEF GraphOK
<1>7. /\ up' \in [AllVersions -> SUBSET AllVersions]
      /\ anc' \in [AllVersions -> SUBSET AllVersions]
      /\ line' \in [AllVersions -> SUBSET AllVersions]
      /\ branchOf' \in [AllVersions -> Branches \cup {None}]
      /\ content' \in [AllVersions -> SUBSET AllVersions]
    BY <1>2 DEF InsertVersion, TypeOK
<1> QED BY <1>1, <1>3, <1>6, <1>7

\* A step that leaves the versions alone.
LEMMA GraphSame ==
  ASSUME UNCHANGED <<versions, up, anc, line, branchOf, content>>, GraphOK
  PROVE  GraphOK' /\ GraphGrows
  BY DEF GraphOK, GraphGrows

-----------------------------------------------------------------------------
(* Steps of one process. *)

OthersStill(p) ==
  \A q \in Procs : q # p =>
    /\ pc'[q] = pc[q] /\ cachedTip'[q] = cachedTip[q] /\ mergeIDs'[q] = mergeIDs[q]
    /\ headMode'[q] = headMode[q] /\ target'[q] = target[q] /\ (lock' = q <=> lock = q)

\* The id the process has chosen is the one it had, or a fresh one.
ChosenFresh(p) ==
  Choosing(p)' => (Choosing(p) /\ target'[p] = target[p]) \/ target'[p] \in Unused

\* A process's own step does not disturb the others, as long as the ids they
\* have chosen are not used.
LEMMA OthersUndisturbed ==
  ASSUME IInv, NEW p \in Procs,
         versions \subseteq versions', stored \subseteq stored',
         stage'.merges \subseteq versions', OthersStill(p),
         \A q \in Procs : q # p /\ Choosing(q) => target[q] \notin versions',
         ProcessOK(p)',
         ChosenFresh(p)
  PROVE  ProcessesOK'
<1>1. ProcessesOK
    BY DEF IInv
<1>2. ASSUME NEW q \in Procs PROVE ProcessOK(q)'
  <2>1. CASE q # p
      BY <1>1, <2>1 DEF ProcessesOK, ProcessOK, Choosing, OthersStill
  <2> QED BY <2>1
<1>3. ASSUME NEW q \in Procs, NEW r \in Procs, q # r, Choosing(q)', Choosing(r)'
      PROVE  target'[q] # target'[r]
    BY <1>1, <1>3 DEF ProcessesOK, Choosing, ChosenFresh, Unused, OthersStill
<1> QED BY <1>2, <1>3 DEF ProcessesOK

\* The step of a process that leaves the version database alone.
LEMMA QuietStep ==
  ASSUME IInv, NEW p \in Procs, TypeOK', UNCHANGED versionVars,
         stored \subseteq stored', stage'.merges \subseteq versions, TipStored', OthersStill(p),
         ProcessOK(p)',
         ChosenFresh(p)
  PROVE  IInv'
<1> USE DEF versionVars
<1>1. GraphOK' /\ HeadsStored' /\ DataStored'
    BY GraphSame DEF IInv, HeadsStored, DataStored
<1>2. \A q \in Procs : Choosing(q) => target[q] \notin versions'
    BY DEF IInv, ProcessesOK, ProcessOK
<1>3. ProcessesOK'
    BY <1>2, OthersUndisturbed
<1> QED BY <1>1, <1>3 DEF IInv

\* The Tip still names what it named, if the process is not inside a rebase.
LEMMA TipSame ==
  ASSUME IInv, NEW p \in Procs, OthersStill(p), pc[p] # "rebased",
         versions \subseteq versions', lost \subseteq lost', tip' = tip \/ tip' \in versions'
  PROVE  TipStored'
<1>1. TipStored
    BY DEF IInv
<1>2. CASE tip \in versions \cup lost \/ tip' \in versions'
    BY <1>2 DEF TipStored
<1>3. CASE tip' = tip /\ tip \in {target[q] : q \in {r \in Procs : pc[r] = "rebased"}}
  <2>1. PICK q \in Procs : pc[q] = "rebased" /\ tip = target[q]
      BY <1>3
  <2>2. pc'[q] = "rebased" /\ target'[q] = tip
      BY <2>1 DEF OthersStill
  <2> QED BY <1>3, <2>1, <2>2 DEF TipStored
<1> QED BY <1>1, <1>2, <1>3 DEF TipStored

\* The process leaves its command.
LEMMA LeaveOK ==
  ASSUME TypeOK, NEW p \in Procs, Leave(p), cachedTip' = cachedTip
  PROVE  /\ pc'[p] = "idle" /\ lock' # p /\ mergeIDs'[p] = {}
         /\ lock' \in Procs \cup {None}
         /\ pc' \in [Procs -> Places] /\ mergeIDs' \in [Procs -> SUBSET AllVersions]
         /\ headMode' \in [Procs -> {"move", "add", "force"}]
         /\ target' \in [Procs -> AllVersions \cup {None}]
         /\ OthersStill(p)
  BY NamesAssumption DEF TypeOK, Leave, Goto, Places, OthersStill

\* What torn can take in are contents of versions.
LEMMA TornTyped ==
  ASSUME IInv
  PROVE  /\ \A q \in Procs : Running(q) => target[q] \in versions
         /\ Underway \subseteq AllVersions /\ AtTip \subseteq AllVersions
         /\ \A p \in Procs : Passed(p) \subseteq AllVersions /\ Unaware(p) \subseteq AllVersions
<1>1. TypeOK /\ ProcessesOK
    BY DEF IInv
<1>2. ASSUME NEW S \in SUBSET AllVersions PROVE Contents(S) \subseteq AllVersions
    BY <1>1, <1>2 DEF Contents, TypeOK
<1>3. \A q \in Procs : Running(q) => target[q] \in versions
    BY <1>1 DEF ProcessesOK, ProcessOK, Running
<1>4. versions \subseteq AllVersions /\ tip \in AllVersions /\ cachedTip \in [Procs -> AllVersions]
    BY <1>1 DEF TypeOK
<1>5. Underway \subseteq AllVersions
  <2>1. {target[q] : q \in {r \in Procs : Running(r)}} \in SUBSET AllVersions
      BY <1>3, <1>4
  <2> QED BY <1>2, <2>1 DEF Underway
<1>6. AtTip \subseteq AllVersions
  <2>1. {cachedTip[q] : q \in {r \in Procs : pc[r] = "rebased"}} \in SUBSET AllVersions
      BY <1>4
  <2>2. content[tip] \subseteq AllVersions
      BY <1>1 DEF TypeOK
  <2> QED BY <1>2, <2>1, <2>2 DEF AtTip
<1>7. ASSUME NEW p \in Procs
      PROVE  Passed(p) \subseteq AllVersions /\ Unaware(p) \subseteq AllVersions
  <2>1. Passed(p) \subseteq AllVersions
      BY <1>6 DEF Passed
  <2>2. \A m \in stage.merges : anc[m] \subseteq AllVersions
      BY <1>1 DEF TypeOK
  <2> DEFINE unseen == UNION {anc[m] : m \in stage.merges \ mergeIDs[p]}
  <2>3. unseen \subseteq AllVersions
      BY <2>2
  <2>4. Unaware(p) = Underway \cup Passed(p) \cup unseen
      BY DEF Unaware
  <2> HIDE DEF unseen
  <2> QED BY <1>5, <2>1, <2>3, <2>4
<1> QED BY <1>3, <1>5, <1>6, <1>7

\* Loading, recording, resolving, recovering the Tip, giving up.
LEMMA ShortCommandsKeep ==
  ASSUME IInv, NEW p \in Procs,
         Load(p) \/ Record(p) \/ Resolve(p) \/ RecoverTip(p) \/ Quit(p)
  PROVE  IInv'
<1>1. TypeOK /\ ProcessesOK /\ ProcessOK(p)
    BY DEF IInv, ProcessesOK
<1>2. stage.merges \subseteq versions /\ versions \subseteq AllVersions
    BY <1>1 DEF ProcessesOK, TypeOK
<1> USE NamesAssumption, TrunkAssumption DEF databaseVars, versionVars, localVars, processVars
<1>3. CASE Load(p)
  <2>1. TypeOK' /\ OthersStill(p)
      BY <1>1, <1>2, <1>3 DEF Load, Goto, TypeOK, Places, ProcessOK, Choosing,
                                  OthersStill, AllVersions
  <2>2. TipStored'
      BY <1>1, <1>3, <2>1, TipSame DEF Load, IInv, GraphOK
  <2>3. ProcessOK(p)' /\ ChosenFresh(p)
      BY <1>1, <1>2, <1>3 DEF Load, Goto, TypeOK, Places, ProcessOK, Choosing,
                                  ChosenFresh, Unused, AllVersions
  <2> QED BY <1>1, <1>2, <1>3, <2>1, <2>2, <2>3, QuietStep DEF Load
<1>4. CASE Record(p)
  <2>1. stage' \in [changes : SUBSET (AllVersions \cup {Edit}), merges : SUBSET AllVersions,
                    conflict : BOOLEAN]
      BY <1>1, <1>2, <1>4 DEF Record, TypeOK
  <2>2. TypeOK' /\ OthersStill(p)
      BY <1>1, <1>2, <1>4, <2>1 DEF Record, Goto, TypeOK, Places, ProcessOK, Choosing,
                                  OthersStill, AllVersions
  <2>3. TipStored'
      BY <1>1, <1>4, <2>2, TipSame DEF Record, IInv, GraphOK
  <2>4. ProcessOK(p)' /\ ChosenFresh(p)
      BY <1>1, <1>2, <1>4 DEF Record, Goto, TypeOK, Places, ProcessOK, Choosing,
                                  ChosenFresh, Unused, AllVersions
  <2> QED BY <1>1, <1>2, <1>4, <2>2, <2>3, <2>4, QuietStep DEF Record
<1>5. CASE Resolve(p)
  <2>1. stage' \in [changes : SUBSET (AllVersions \cup {Edit}), merges : SUBSET AllVersions,
                    conflict : BOOLEAN]
      BY <1>1, <1>2, <1>5 DEF Resolve, TypeOK
  <2>2. TypeOK' /\ OthersStill(p)
      BY <1>1, <1>2, <1>5, <2>1 DEF Resolve, Goto, TypeOK, Places, ProcessOK, Choosing,
                                  OthersStill, AllVersions
  <2>3. TipStored'
      BY <1>1, <1>5, <2>2, TipSame DEF Resolve, IInv, GraphOK
  <2>4. ProcessOK(p)' /\ ChosenFresh(p)
      BY <1>1, <1>2, <1>5 DEF Resolve, Goto, TypeOK, Places, ProcessOK, Choosing,
                                  ChosenFresh, Unused, AllVersions
  <2> QED BY <1>1, <1>2, <1>5, <2>2, <2>3, <2>4, QuietStep DEF Resolve
<1>6. CASE RecoverTip(p)
  <2>1. TypeOK' /\ OthersStill(p)
      BY <1>1, <1>2, <1>6 DEF RecoverTip, Goto, TypeOK, Places, ProcessOK, Choosing,
                                  OthersStill, AllVersions
  <2>2. TipStored'
      BY <1>1, <1>6, <2>1, TipSame DEF RecoverTip, IInv, GraphOK
  <2>3. ProcessOK(p)' /\ ChosenFresh(p)
      BY <1>1, <1>2, <1>6 DEF RecoverTip, Goto, TypeOK, Places, ProcessOK, Choosing,
                                  ChosenFresh, Unused, AllVersions
  <2> QED BY <1>1, <1>2, <1>6, <2>1, <2>2, <2>3, QuietStep DEF RecoverTip
<1>7. CASE Quit(p)
  <2>1. Leave(p) /\ cachedTip' = cachedTip
      BY <1>7 DEF Quit
  <2>2. TypeOK' /\ OthersStill(p)
      BY <1>1, <1>2, <1>7, <2>1, LeaveOK DEF Quit, TypeOK, ProcessOK
  <2>3. TipStored'
      BY <1>1, <1>7, <2>2, TipSame DEF Quit, ProcessOK
  <2>4. ProcessOK(p)' /\ ~Choosing(p)'
      BY <1>1, <2>1, LeaveOK DEF ProcessOK, Choosing
  <2> QED BY <1>1, <1>2, <1>7, <2>2, <2>3, <2>4, QuietStep DEF Quit, ProcessOK, ChosenFresh
<1> QED BY <1>3, <1>4, <1>5, <1>6, <1>7

\* The steps of Commit before and after its WorkspaceDB transaction.
LEMMA CommitKeeps ==
  ASSUME IInv, NEW p \in Procs,
         \/ BeginCommit(p) \/ InsertTags(p) \/ StoreData(p)
         \/ \E v \in Ids, force \in BOOLEAN : EnterCommit(p, v, force)
         \/ FinishCommit(p) \/ CommitFails(p)
  PROVE  IInv'
<1>1. TypeOK /\ ProcessesOK /\ ProcessOK(p)
    BY DEF IInv, ProcessesOK
<1>2. stage.merges \subseteq versions /\ versions \subseteq AllVersions
    BY <1>1 DEF ProcessesOK, TypeOK
<1> USE NamesAssumption, TrunkAssumption DEF databaseVars, versionVars, localVars, processVars
<1>3. CASE BeginCommit(p)
  <2>1. TypeOK' /\ OthersStill(p)
      BY <1>1, <1>2, <1>3 DEF BeginCommit, Goto, TypeOK, Places, ProcessOK, Choosing,
                                  OthersStill, AllVersions
  <2>2. TipStored'
      BY <1>1, <1>3, <2>1, TipSame DEF BeginCommit, IInv, GraphOK
  <2>3. ProcessOK(p)' /\ ChosenFresh(p)
      BY <1>1, <1>2, <1>3 DEF BeginCommit, Goto, TypeOK, Places, ProcessOK, Choosing,
                                  ChosenFresh, Unused, AllVersions
  <2> QED BY <1>1, <1>2, <1>3, <2>1, <2>2, <2>3, QuietStep DEF BeginCommit
<1>4. ASSUME NEW v \in Ids, NEW force \in BOOLEAN, EnterCommit(p, v, force) PROVE IInv'
  <2>1. TypeOK' /\ OthersStill(p)
      BY <1>1, <1>2, <1>4 DEF EnterCommit, Goto, TypeOK, Places, ProcessOK, Choosing,
                                  OthersStill, AllVersions
  <2>2. TipStored'
      BY <1>1, <1>4, <2>1, TipSame DEF EnterCommit, IInv, GraphOK
  <2>3. ProcessOK(p)' /\ ChosenFresh(p)
      BY <1>1, <1>2, <1>4 DEF EnterCommit, Goto, TypeOK, Places, ProcessOK, Choosing,
                                  ChosenFresh, Unused, AllVersions
  <2> QED BY <1>1, <1>2, <1>4, <2>1, <2>2, <2>3, QuietStep DEF EnterCommit
<1>5. CASE InsertTags(p)
  <2>1. TypeOK' /\ OthersStill(p)
      BY <1>1, <1>2, <1>5 DEF InsertTags, Goto, TypeOK, Places, ProcessOK, Choosing,
                                  OthersStill, AllVersions
  <2>2. TipStored'
      BY <1>1, <1>5, <2>1, TipSame DEF InsertTags, IInv, GraphOK
  <2>3. ProcessOK(p)' /\ ChosenFresh(p)
      BY <1>1, <1>2, <1>5 DEF InsertTags, Goto, TypeOK, Places, ProcessOK, Choosing,
                                  ChosenFresh, Unused, AllVersions
  <2> QED BY <1>1, <1>2, <1>5, <2>1, <2>2, <2>3, QuietStep DEF InsertTags
<1>6. CASE StoreData(p)
  <2>1. TypeOK' /\ OthersStill(p)
      BY <1>1, <1>2, <1>6 DEF StoreData, Goto, TypeOK, Places, ProcessOK, Choosing,
                                  OthersStill, AllVersions
  <2>2. TipStored'
      BY <1>1, <1>6, <2>1, TipSame DEF StoreData, IInv, GraphOK
  <2>3. ProcessOK(p)' /\ ChosenFresh(p)
      BY <1>1, <1>2, <1>6 DEF StoreData, Goto, TypeOK, Places, ProcessOK, Choosing,
                                  ChosenFresh, Unused, AllVersions
  <2> QED BY <1>1, <1>2, <1>6, <2>1, <2>2, <2>3, QuietStep DEF StoreData
<1>7. CASE FinishCommit(p)
  <2>1. Leave(p) /\ cachedTip' = cachedTip
      BY <1>7 DEF FinishCommit
  <2>2. stage' \in [changes : SUBSET (AllVersions \cup {Edit}), merges : SUBSET AllVersions,
                    conflict : BOOLEAN]
      BY <1>1, <1>2, <1>7 DEF FinishCommit, EmptyStage, TypeOK
  <2>3. TypeOK' /\ OthersStill(p)
      BY <1>1, <1>2, <1>7, <2>1, LeaveOK, <2>2 DEF FinishCommit, TypeOK, ProcessOK
  <2>4. TipStored'
      BY <1>1, <1>7, <2>3, TipSame DEF FinishCommit, ProcessOK
  <2>5. ProcessOK(p)' /\ ~Choosing(p)'
      BY <1>1, <2>1, LeaveOK DEF ProcessOK, Choosing
  <2> QED BY <1>1, <1>2, <1>7, <2>3, <2>4, <2>5, QuietStep
       DEF FinishCommit, EmptyStage, ProcessOK, ChosenFresh
<1>8. CASE CommitFails(p)
  <2>1. Leave(p) /\ cachedTip' = cachedTip
      BY <1>8 DEF CommitFails
  <2>2. TypeOK' /\ OthersStill(p)
      BY <1>1, <1>2, <1>8, <2>1, LeaveOK DEF CommitFails, TypeOK, ProcessOK
  <2>3. TipStored'
      BY <1>1, <1>8, <2>2, TipSame DEF CommitFails, ProcessOK
  <2>4. ProcessOK(p)' /\ ~Choosing(p)'
      BY <1>1, <2>1, LeaveOK DEF ProcessOK, Choosing
  <2> QED BY <1>1, <1>2, <1>8, <2>2, <2>3, <2>4, QuietStep DEF CommitFails, ProcessOK, ChosenFresh
<1> QED BY <1>3, <1>4, <1>5, <1>6, <1>7, <1>8

\* Merge and update.
LEMMA MergeKeeps ==
  ASSUME IInv, NEW p \in Procs,
         \/ \E v \in AllVersions : BeginMerge(p, v) \/ BeginUpdate(p, v)
         \/ MergeFiles(p)
         \/ StageFiles(p) \/ StageMerge(p) \/ MoveTip(p)
  PROVE  IInv'
<1>1. TypeOK /\ ProcessesOK /\ ProcessOK(p)
    BY DEF IInv, ProcessesOK
<1>2. stage.merges \subseteq versions /\ versions \subseteq AllVersions
    BY <1>1 DEF ProcessesOK, TypeOK
<1> USE NamesAssumption, TrunkAssumption DEF databaseVars, versionVars, localVars, processVars
<1>3. ASSUME NEW v \in AllVersions, BeginMerge(p, v) PROVE IInv'
  <2>1. TypeOK' /\ OthersStill(p)
      BY <1>1, <1>2, <1>3 DEF BeginMerge, Goto, TypeOK, Places, ProcessOK, Choosing,
                                  OthersStill, AllVersions
  <2>2. TipStored'
      BY <1>1, <1>3, <2>1, TipSame DEF BeginMerge, IInv, GraphOK
  <2>3. ProcessOK(p)' /\ ChosenFresh(p)
      BY <1>1, <1>2, <1>3 DEF BeginMerge, Goto, TypeOK, Places, ProcessOK, Choosing,
                                  ChosenFresh, Unused, AllVersions
  <2> QED BY <1>1, <1>2, <1>3, <2>1, <2>2, <2>3, QuietStep DEF BeginMerge
<1>4. ASSUME NEW v \in AllVersions, BeginUpdate(p, v) PROVE IInv'
  <2>1. TypeOK' /\ OthersStill(p)
      BY <1>1, <1>2, <1>4 DEF BeginUpdate, Goto, TypeOK, Places, ProcessOK, Choosing,
                                  OthersStill, AllVersions
  <2>2. TipStored'
      BY <1>1, <1>4, <2>1, TipSame DEF BeginUpdate, IInv, GraphOK
  <2>3. ProcessOK(p)' /\ ChosenFresh(p)
      BY <1>1, <1>2, <1>4 DEF BeginUpdate, Goto, IInv, HeadsStored, TypeOK, Places,
                                  ProcessOK, Choosing,
                                  ChosenFresh, Unused, AllVersions
  <2> QED BY <1>1, <1>2, <1>4, <2>1, <2>2, <2>3, QuietStep DEF BeginUpdate
<1>5. CASE MergeFiles(p)
  <2>1. /\ stage' \in [changes : SUBSET (AllVersions \cup {Edit}), merges : SUBSET AllVersions,
                       conflict : BOOLEAN]
        /\ stage'.merges = stage.merges
      BY <1>1, <1>2, <1>5 DEF MergeFiles, TypeOK
  <2>2. TypeOK' /\ OthersStill(p)
      BY <1>1, <1>2, <1>5, <2>1 DEF MergeFiles, Goto, TypeOK, Places, ProcessOK, Choosing,
                                  OthersStill, AllVersions
  <2>3. TipStored'
      BY <1>1, <1>5, <2>2, TipSame DEF MergeFiles, IInv, GraphOK
  <2>4. ProcessOK(p)' /\ ChosenFresh(p)
      BY <1>1, <1>2, <1>5 DEF MergeFiles, Goto, TypeOK, Places, ProcessOK, Choosing,
                                  ChosenFresh, Unused, AllVersions
  <2> QED BY <1>1, <1>2, <1>5, <2>1, <2>2, <2>3, <2>4, QuietStep DEF MergeFiles
<1>6. CASE StageFiles(p)
  <2>1. stage' \in [changes : SUBSET (AllVersions \cup {Edit}), merges : SUBSET AllVersions,
                    conflict : BOOLEAN]
      BY <1>1, <1>2, <1>6 DEF StageFiles, TypeOK, ProcessOK
  <2>2. TypeOK' /\ OthersStill(p)
      BY <1>1, <1>2, <1>6, <2>1 DEF StageFiles, Goto, TypeOK, Places, ProcessOK, Choosing,
                                  OthersStill, AllVersions
  <2>3. TipStored'
      BY <1>1, <1>6, <2>2, TipSame DEF StageFiles, IInv, GraphOK
  <2>4. ProcessOK(p)' /\ ChosenFresh(p)
      BY <1>1, <1>2, <1>6 DEF StageFiles, Goto, TypeOK, Places, ProcessOK, Choosing,
                                  ChosenFresh, Unused, AllVersions
  <2> QED BY <1>1, <1>2, <1>6, <2>2, <2>3, <2>4, QuietStep DEF StageFiles
<1>7. CASE StageMerge(p)
  <2>1. Leave(p) /\ cachedTip' = cachedTip
      BY <1>7 DEF StageMerge
  <2>2. stage' \in [changes : SUBSET (AllVersions \cup {Edit}), merges : SUBSET AllVersions,
                    conflict : BOOLEAN]
      BY <1>1, <1>2, <1>7 DEF StageMerge, TypeOK, ProcessOK
  <2>3. TypeOK' /\ OthersStill(p)
      BY <1>1, <1>2, <1>7, <2>1, LeaveOK, <2>2 DEF StageMerge, TypeOK, ProcessOK
  <2>4. TipStored'
      BY <1>1, <1>7, <2>3, TipSame DEF StageMerge, ProcessOK
  <2>5. ProcessOK(p)' /\ ~Choosing(p)'
      BY <1>1, <2>1, LeaveOK DEF ProcessOK, Choosing
  <2> QED BY <1>1, <1>2, <1>7, <2>3, <2>4, <2>5, QuietStep DEF StageMerge, ProcessOK, ChosenFresh
<1>8. CASE MoveTip(p)
  <2>1. Leave(p) /\ cachedTip' = cachedTip
      BY <1>8 DEF MoveTip
  <2>2. TypeOK' /\ OthersStill(p)
    <3>1. Passed(p) \subseteq AllVersions /\ content[target[p]] \subseteq AllVersions
        BY <1>1, <1>2, <1>8, TornTyped DEF MoveTip, ProcessOK, TypeOK
    <3>2. torn' \subseteq AllVersions
        BY <1>1, <1>8, <3>1 DEF MoveTip, TypeOK
    <3> QED BY <1>1, <1>2, <1>8, <2>1, <3>2, LeaveOK DEF MoveTip, TypeOK, ProcessOK
  <2>3. TipStored'
      BY <1>1, <1>8, <2>2, TipSame DEF MoveTip, ProcessOK
  <2>4. ProcessOK(p)' /\ ~Choosing(p)'
      BY <1>1, <2>1, LeaveOK DEF ProcessOK, Choosing
  <2> QED BY <1>1, <1>2, <1>8, <2>2, <2>3, <2>4, QuietStep DEF MoveTip, ProcessOK, ChosenFresh
<1> QED BY <1>3, <1>4, <1>5, <1>6, <1>7, <1>8

\* A rebase moves the Tip; a process dies.
LEMMA TipMovesOrLost ==
  ASSUME IInv, NEW p \in Procs,
         (\E v \in Ids : RebaseTip(p, v)) \/ Die(p)
  PROVE  IInv'
<1>1. TypeOK /\ ProcessesOK /\ ProcessOK(p)
    BY DEF IInv, ProcessesOK
<1>2. stage.merges \subseteq versions /\ versions \subseteq AllVersions
    BY <1>1 DEF ProcessesOK, TypeOK
<1> USE NamesAssumption, TrunkAssumption DEF databaseVars, versionVars, localVars, processVars
<1>3. ASSUME NEW v \in Ids, RebaseTip(p, v) PROVE IInv'
  <2>0. torn' \subseteq AllVersions
      BY <1>1, <1>3, TornTyped DEF RebaseTip, TypeOK
  <2>1. TypeOK' /\ OthersStill(p)
      BY <1>1, <1>2, <1>3, <2>0 DEF RebaseTip, Goto, TypeOK, Places, ProcessOK, Choosing,
                                  OthersStill, AllVersions
  <2>2. TipStored'
      BY <1>1, <1>3, <2>1 DEF RebaseTip, Goto, TipStored, TypeOK, Places
  <2>3. ProcessOK(p)' /\ ChosenFresh(p)
      BY <1>1, <1>2, <1>3 DEF RebaseTip, Goto, TypeOK, Places, ProcessOK, Choosing,
                                  ChosenFresh, Unused, AllVersions
  <2> QED BY <1>1, <1>2, <1>3, <2>1, <2>2, <2>3, QuietStep DEF RebaseTip
<1>4. CASE Die(p)
  <2>1. /\ Leave(p) /\ cachedTip' = cachedTip /\ lost \subseteq lost'
        /\ pc[p] = "rebased" => lost' = lost \cup {target[p]}
        /\ pc[p] # "rebased" => lost' = lost
      BY <1>4 DEF Die, CommandOf
  <2>2. lost' \subseteq Ids
      BY <1>1, <2>1 DEF ProcessOK, Choosing, TypeOK
  <2>3. TypeOK' /\ OthersStill(p)
    <3>1. Running(p) => content[target[p]] \subseteq AllVersions
        BY <1>1, <1>2, TornTyped DEF TypeOK
    <3>2. content[cachedTip[p]] \subseteq AllVersions
        BY <1>1 DEF TypeOK
    <3>3. torn' \subseteq AllVersions
        BY <1>1, <1>4, <3>1, <3>2 DEF Die, TypeOK
    <3> QED BY <1>1, <1>2, <1>4, <2>1, <2>2, <3>3, LeaveOK DEF Die, TypeOK
  <2>4. TipStored'
    <3>1. CASE pc[p] # "rebased"
        BY <1>1, <1>4, <2>1, <2>3, <3>1, TipSame DEF Die
    <3>2. CASE pc[p] = "rebased"
      <4>1. TipStored
          BY DEF IInv
      <4>2. CASE tip \in versions \cup lost \cup {target[p]}
          BY <1>4, <2>1, <3>2, <4>2 DEF Die, TipStored
      <4>3. CASE \E q \in Procs : q # p /\ pc[q] = "rebased" /\ tip = target[q]
          BY <1>4, <2>3, <4>3 DEF Die, TipStored, OthersStill
      <4> QED BY <4>1, <4>2, <4>3 DEF TipStored
    <3> QED BY <3>1, <3>2
  <2>5. ProcessOK(p)' /\ ~Choosing(p)'
      BY <1>1, <2>1, LeaveOK DEF ProcessOK, Choosing
  <2> QED BY <1>1, <1>2, <1>4, <2>3, <2>4, <2>5, QuietStep DEF Die, ProcessOK, ChosenFresh
<1> QED BY <1>3, <1>4

-----------------------------------------------------------------------------
(* Steps that insert a version. *)

\* Whatever the step, a version is inserted with a fresh id on top of existing
\* ones, becomes a head at most, and has its data stored or none of its own.
LEMMA InsertStep ==
  ASSUME IInv, NEW p \in Procs,
         NEW v \in Ids \ versions, NEW b \in Branches, NEW parent \in versions,
         NEW merges \in SUBSET versions, NEW data \in SUBSET AllVersions,
         InsertVersion(v, b, parent, merges, data),
         NEW H \in SUBSET (versions \cup {v}), IsFiniteSet(H),
         heads' = [heads EXCEPT ![b] = H],
         torn' \subseteq AllVersions,
         NEW D \in SUBSET {v}, dataless' = dataless \cup D, v \in D \/ v \in stored,
         UNCHANGED <<tags, stored, localVars, cachedTip>>,
         lock' \in Procs \cup {None}, pc' \in [Procs -> Places],
         mergeIDs' \in [Procs -> SUBSET AllVersions],
         headMode' \in [Procs -> {"move", "add", "force"}],
         target' \in [Procs -> AllVersions \cup {None}],
         OthersStill(p), ProcessOK(p)', ~Choosing(p)',
         pc[p] = "rebased" => target[p] = v,
         \A q \in Procs : q # p /\ Choosing(q) => target[q] # v
  PROVE  IInv'
<1> USE DEF localVars
<1>1. TypeOK /\ GraphOK /\ HeadsStored /\ ProcessesOK /\ DataStored /\ TipStored
    BY DEF IInv
<1>2. v \in AllVersions
    BY DEF AllVersions
<1>3. /\ GraphOK' /\ GraphGrows /\ versions' = versions \cup {v}
      /\ up' \in [AllVersions -> SUBSET AllVersions]
      /\ anc' \in [AllVersions -> SUBSET AllVersions]
      /\ line' \in [AllVersions -> SUBSET AllVersions]
      /\ branchOf' \in [AllVersions -> Branches \cup {None}]
      /\ content' \in [AllVersions -> SUBSET AllVersions]
    BY <1>1, <1>2, InsertKeepsGraph
<1>4. versions' \subseteq AllVersions /\ heads' \in [Branches -> SUBSET AllVersions]
    BY <1>1, <1>2, <1>3 DEF TypeOK
<1>5. TypeOK'
  <2>1. dataless' \subseteq Ids /\ lost' = lost
      BY <1>1 DEF TypeOK, InsertVersion
  <2> QED BY <1>1, <1>3, <1>4, <2>1 DEF TypeOK
<1>6. HeadsStored'
  <2>1. ASSUME NEW c \in Branches PROVE heads'[c] \subseteq versions' /\ IsFiniteSet(heads'[c])
    <3>1. CASE c = b
        BY <1>1, <1>3, <3>1 DEF TypeOK
    <3>2. CASE c # b
        BY <1>1, <1>3, <3>2 DEF TypeOK, HeadsStored
    <3> QED BY <3>1, <3>2
  <2> QED BY <2>1 DEF HeadsStored
<1>7. DataStored'
    BY <1>1, <1>3 DEF DataStored
<1>8. TipStored'
  <2>1. CASE tip \in versions \cup lost
      BY <1>3, <2>1 DEF TipStored, InsertVersion
  <2>2. CASE tip \in {target[q] : q \in {r \in Procs : pc[r] = "rebased"}}
    <3>1. PICK q \in Procs : pc[q] = "rebased" /\ tip = target[q]
        BY <2>2
    <3>2. CASE q = p
        BY <1>3, <3>1, <3>2 DEF TipStored
    <3>3. CASE q # p
        BY <3>1, <3>3 DEF TipStored, OthersStill
    <3> QED BY <3>2, <3>3
  <2> QED BY <1>1, <2>1, <2>2 DEF TipStored
<1>9. ProcessesOK'
  <2>1. \A q \in Procs : q # p /\ Choosing(q) => target[q] \notin versions'
      BY <1>1, <1>3 DEF ProcessesOK, ProcessOK
  <2>2. stage'.merges \subseteq versions'
      BY <1>1, <1>3 DEF ProcessesOK
  <2>3. versions \subseteq versions' /\ stored \subseteq stored'
      BY <1>3
  <2> QED BY <2>1, <2>2, <2>3, OthersUndisturbed DEF ChosenFresh
<1> QED BY <1>3, <1>5, <1>6, <1>7, <1>8, <1>9 DEF IInv

\* A pull.
LEMMA PullKeeps ==
  ASSUME IInv, NEW p \in Procs, NEW v \in Ids, NEW b \in Branches, NEW parent \in AllVersions,
         Pull(p, v, b, parent)
  PROVE  IInv'
<1>1. TypeOK /\ HeadsStored /\ GraphOK /\ ProcessOK(p)
    BY DEF IInv, ProcessesOK
<1>2. /\ v \in Ids \ versions /\ parent \in versions
      /\ InsertVersion(v, b, parent, {}, content[parent])
      /\ heads' = [heads EXCEPT ![b] = (heads[b] \ {parent}) \cup {v}]
      /\ dataless' = dataless \cup {v}
      /\ UNCHANGED <<tags, stored, localVars, lock, cachedTip, mergeIDs, headMode, target>>
      /\ pc[p] = "loaded" /\ pc' = [pc EXCEPT ![p] = "idle"]
      /\ \A q \in Procs : target[q] # v
      /\ torn' \subseteq AllVersions
    BY <1>1 DEF Pull, Unused, Goto, TypeOK
<1>3. (heads[b] \ {parent}) \cup {v} \in SUBSET (versions \cup {v})
    BY <1>1 DEF HeadsStored
<1>4. IsFiniteSet((heads[b] \ {parent}) \cup {v})
    BY <1>1, FS_RemoveElement, FS_AddElement DEF HeadsStored
<1>5. content[parent] \in SUBSET AllVersions
    BY <1>1 DEF TypeOK
<1>6. pc' \in [Procs -> Places] /\ OthersStill(p)
    BY <1>1, <1>2 DEF TypeOK, Places, OthersStill
<1>7. versions' = versions \cup {v}
    BY <1>2 DEF InsertVersion
<1>8. ProcessOK(p)' /\ ~Choosing(p)'
    BY <1>1, <1>2, <1>7 DEF ProcessOK, Choosing, TypeOK
<1>9. pc[p] # "rebased"
    BY <1>2
<1>10. /\ lock' \in Procs \cup {None} /\ mergeIDs' \in [Procs -> SUBSET AllVersions]
       /\ headMode' \in [Procs -> {"move", "add", "force"}]
       /\ target' \in [Procs -> AllVersions \cup {None}]
    BY <1>1, <1>2 DEF TypeOK
<1>11. \A q \in Procs : q # p /\ Choosing(q) => target[q] # v
    BY <1>2
<1> DEFINE H == (heads[b] \ {parent}) \cup {v}
           data == content[parent]
           merges == {}
<1>12. InsertVersion(v, b, parent, merges, data) /\ heads' = [heads EXCEPT ![b] = H]
    BY <1>2
<1>13. /\ H \in SUBSET (versions \cup {v}) /\ IsFiniteSet(H) /\ data \in SUBSET AllVersions
       /\ merges \in SUBSET versions
    BY <1>3, <1>4, <1>5
<1>14. PICK D \in SUBSET {v} : dataless' = dataless \cup D /\ v \in D
    BY <1>2
<1> HIDE DEF H, data, merges
<1> QED BY <1>2, <1>6, <1>8, <1>9, <1>10, <1>11, <1>12, <1>13, <1>14, InsertStep

\* The heads after a commit.
LEMMA HeadsAfterOK ==
  ASSUME IInv, NEW p \in Procs, pc[p] = "stored"
  PROVE  /\ HeadsAfter(p) \in SUBSET (versions \cup {target[p]})
         /\ IsFiniteSet(HeadsAfter(p))
<1>1. heads[Trunk] \subseteq versions /\ IsFiniteSet(heads[Trunk])
    BY TrunkAssumption DEF IInv, HeadsStored
<1> DEFINE others == heads[Trunk] \ mergeIDs[p]
<1>2. IsFiniteSet(others) /\ IsFiniteSet(others \ {cachedTip[p]})
    BY <1>1, FS_Subset, FS_RemoveElement
<1>3. IsFiniteSet(others \cup {target[p]})
    BY <1>2, FS_AddElement
<1>4. IsFiniteSet((others \ {cachedTip[p]}) \cup {target[p]})
    BY <1>2, FS_AddElement
<1>5. HeadsAfter(p) \in {others, others \cup {target[p]},
                         (others \ {cachedTip[p]}) \cup {target[p]}}
    BY DEF HeadsAfter
<1> QED BY <1>1, <1>2, <1>3, <1>4, <1>5

\* The WorkspaceDB transaction of a commit.
LEMMA CommitDatabaseKeeps ==
  ASSUME IInv, NEW p \in Procs, CommitDatabase(p)
  PROVE  IInv'
<1> DEFINE data == content[cachedTip[p]] \cup (Recorded \ {Edit})
<1>1. TypeOK /\ ProcessesOK /\ ProcessOK(p) /\ GraphOK
    BY DEF IInv, ProcessesOK
<1>2. /\ pc[p] = "stored" /\ pc' = [pc EXCEPT ![p] = "saved"]
      /\ InsertVersion(target[p], Trunk, cachedTip[p], mergeIDs[p], data)
      /\ heads' = [heads EXCEPT ![Trunk] = HeadsAfter(p)]
      /\ UNCHANGED <<tags, stored, dataless, localVars, lock, cachedTip, mergeIDs, headMode,
                     target>>
    BY DEF CommitDatabase, Goto
<1>3. /\ target[p] \in Ids \ versions /\ cachedTip[p] \in versions /\ target[p] \in stored
      /\ mergeIDs[p] \in SUBSET versions
    BY <1>1, <1>2 DEF ProcessOK, Choosing
<1>4. data \in SUBSET AllVersions /\ torn' \subseteq AllVersions
  <2>1. data \in SUBSET AllVersions
      BY <1>1, <1>3 DEF TypeOK, Recorded
  <2>2. torn' = torn \cup Unaware(p) /\ torn \subseteq AllVersions
      BY <1>1 DEF CommitDatabase, TypeOK
  <2> HIDE DEF data
  <2> QED BY <2>1, <2>2, TornTyped
<1>5. pc' \in [Procs -> Places] /\ OthersStill(p)
    BY <1>1, <1>2 DEF TypeOK, Places, OthersStill
<1>6. versions' = versions \cup {target[p]}
    BY <1>2 DEF InsertVersion
<1>7. ProcessOK(p)' /\ ~Choosing(p)'
    BY <1>1, <1>2, <1>3, <1>6 DEF ProcessOK, Choosing, TypeOK
<1>8. \A q \in Procs : q # p /\ Choosing(q) => target[q] # target[p]
    BY <1>1, <1>2 DEF ProcessesOK, Choosing
<1>9. HeadsAfter(p) \in SUBSET (versions \cup {target[p]}) /\ IsFiniteSet(HeadsAfter(p))
    BY <1>2, HeadsAfterOK
<1>10. PICK D \in SUBSET {target[p]} : dataless' = dataless \cup D
  <2>1. {} \in SUBSET {target[p]} /\ dataless' = dataless \cup {}
      BY <1>2
  <2> QED BY <2>1
<1> HIDE DEF data
<1> QED BY <1>1, <1>2, <1>3, <1>4, <1>5, <1>7, <1>8, <1>9, <1>10, InsertStep, TrunkAssumption
        DEF TypeOK

\* The WorkspaceDB transaction of a rebase.
LEMMA RebaseCommitKeeps ==
  ASSUME IInv, NEW p \in Procs, NEW parent \in AllVersions, RebaseCommit(p, parent)
  PROVE  IInv'
<1> DEFINE v == target[p]
           H == (heads[Trunk] \ {cachedTip[p], parent}) \cup {v}
           merges == {cachedTip[p]}
<1>1. TypeOK /\ ProcessesOK /\ ProcessOK(p) /\ GraphOK
    BY DEF IInv, ProcessesOK
<1>2. /\ pc[p] = "rebased" /\ parent \in line[cachedTip[p]]
      /\ InsertVersion(v, Trunk, parent, merges, content[cachedTip[p]])
      /\ heads' = [heads EXCEPT ![Trunk] = H]
      /\ dataless' = dataless \cup {v}
      /\ UNCHANGED <<tags, stored, localVars, cachedTip>>
      /\ Leave(p)
    BY DEF RebaseCommit
<1>3. v \in Ids \ versions /\ cachedTip[p] \in versions
    BY <1>1, <1>2 DEF ProcessOK, Choosing
<1>4. parent \in versions /\ merges \in SUBSET versions
    BY <1>1, <1>2, <1>3 DEF GraphOK
<1>5. content[cachedTip[p]] \in SUBSET AllVersions /\ torn' \subseteq AllVersions
    BY <1>1, <1>3 DEF TypeOK, RebaseCommit
<1>6. H \in SUBSET (versions \cup {v}) /\ IsFiniteSet(H)
  <2>1. heads[Trunk] \subseteq versions /\ IsFiniteSet(heads[Trunk])
      BY TrunkAssumption DEF IInv, HeadsStored
  <2>2. IsFiniteSet(heads[Trunk] \ {cachedTip[p], parent})
      BY <2>1, FS_Subset
  <2> QED BY <2>1, <2>2, FS_AddElement
<1>7. /\ lock' \in Procs \cup {None} /\ pc' \in [Procs -> Places]
      /\ mergeIDs' \in [Procs -> SUBSET AllVersions]
      /\ headMode' \in [Procs -> {"move", "add", "force"}]
      /\ target' \in [Procs -> AllVersions \cup {None}]
      /\ OthersStill(p) /\ pc'[p] = "idle" /\ lock' # p /\ mergeIDs'[p] = {}
    BY <1>1, <1>2, LeaveOK
<1>8. ProcessOK(p)' /\ ~Choosing(p)'
    BY <1>7 DEF ProcessOK, Choosing
<1>9. \A q \in Procs : q # p /\ Choosing(q) => target[q] # v
    BY <1>1, <1>2 DEF ProcessesOK, Choosing
<1>10. pc[p] = "rebased" => target[p] = v
    OBVIOUS
<1>11. PICK D \in SUBSET {v} : dataless' = dataless \cup D /\ v \in D
    BY <1>2
<1> HIDE DEF H, merges
<1> QED BY <1>1, <1>2, <1>3, <1>4, <1>5, <1>6, <1>7, <1>8, <1>9, <1>10, <1>11,
          InsertStep, TrunkAssumption

-----------------------------------------------------------------------------
(* The invariant. *)

\* The initial state.
LEMMA InitIInv == Init => IInv
<1> SUFFICES ASSUME Init PROVE IInv
    OBVIOUS
<1> USE NamesAssumption, TrunkAssumption DEF Init
<1>1. TypeOK
    BY DEF TypeOK, AllVersions, Places, EmptyStage
<1>2. GraphOK
    BY DEF GraphOK, AllVersions
<1>3. HeadsStored
    BY FS_EmptySet, FS_Singleton DEF HeadsStored
<1>4. ProcessesOK
    BY DEF ProcessesOK, ProcessOK, Choosing, EmptyStage
<1>5. DataStored /\ TipStored
    BY DEF DataStored, TipStored
<1> QED BY <1>1, <1>2, <1>3, <1>4, <1>5 DEF IInv

\* Every step keeps the invariant.
LEMMA NextKeeps == IInv /\ [Next]_vars => IInv'
<1> SUFFICES ASSUME IInv, [Next]_vars PROVE IInv'
    OBVIOUS
<1>1. CASE UserEdits
  <2>1. TypeOK'
      BY <1>1 DEF UserEdits, IInv, TypeOK, databaseVars, versionVars, processVars
  <2> QED BY <1>1, <2>1 DEF UserEdits, IInv, GraphOK, HeadsStored, ProcessesOK, ProcessOK, Choosing,
             DataStored, TipStored, databaseVars, versionVars, processVars
<1>2. CASE UNCHANGED vars
    BY <1>2 DEF vars, IInv, TypeOK, GraphOK, HeadsStored, ProcessesOK, ProcessOK, Choosing,
             DataStored, TipStored, databaseVars, versionVars, localVars, processVars
<1>3. ASSUME NEW p \in Procs, Commit(p) PROVE IInv'
  <2>1. CASE CommitDatabase(p)
      BY <2>1, CommitDatabaseKeeps
  <2>2. CASE \E v \in Ids, force \in BOOLEAN : EnterCommit(p, v, force)
      BY <2>2, CommitKeeps
  <2>3. CASE BeginCommit(p) \/ InsertTags(p) \/ StoreData(p) \/ FinishCommit(p) \/ CommitFails(p)
      BY <2>3, CommitKeeps
  <2> QED BY <1>3, <2>1, <2>2, <2>3 DEF Commit
<1>4. ASSUME NEW p \in Procs, Merge(p) PROVE IInv'
  <2>1. CASE \E v \in AllVersions : BeginMerge(p, v) \/ BeginUpdate(p, v)
      BY <2>1, MergeKeeps
  <2>2. CASE MergeFiles(p) \/ StageFiles(p) \/ StageMerge(p) \/ MoveTip(p)
      BY <2>2, MergeKeeps DEF AllVersions
  <2> QED BY <1>4, <2>1, <2>2 DEF Merge
<1>5. ASSUME NEW p \in Procs, Rebase(p) PROVE IInv'
    BY <1>5, TipMovesOrLost, RebaseCommitKeeps DEF Rebase
<1>6. ASSUME NEW p \in Procs, Other(p) PROVE IInv'
    BY <1>6, ShortCommandsKeep, PullKeeps, TipMovesOrLost DEF Other
<1> QED BY <1>1, <1>2, <1>3, <1>4, <1>5, <1>6 DEF Next

\* IInv is an invariant of the workspace.
THEOREM InductiveInvariant == Spec => []IInv
<1> QED BY InitIInv, NextKeeps, PTL DEF Spec

\* Every variable keeps the kind of its values.
THEOREM TypeCorrect == Spec => []TypeOK
<1>1. IInv => TypeOK
    BY DEF IInv
<1> QED BY <1>1, InductiveInvariant, PTL

\* Whatever commands run at the same time and wherever they die, the data of a
\* version committed here is in the object store.
THEOREM DataIsStored == Spec => []DataStored
<1>1. IInv => DataStored
    BY DEF IInv
<1> QED BY <1>1, InductiveInvariant, PTL

\* The Tip never runs ahead of the version database, but for a rebase.
THEOREM TipIsStored == Spec => []TipStored
<1>1. IInv => TipStored
    BY DEF IInv
<1> QED BY <1>1, InductiveInvariant, PTL

-----------------------------------------------------------------------------
(* The heads, when no rebase runs beside a commit. *)

Calm == "rebase" \notin Commands \/ \A p, q \in Procs : p = q

Step(p) == Commit(p) \/ Merge(p) \/ Rebase(p) \/ Other(p)

\* A step changes the state of the process that takes it, and of no other.
LEMMA StepsAreOwn ==
  ASSUME TypeOK, NEW p \in Procs, Step(p)
  PROVE  OthersStill(p)
<1> USE NamesAssumption DEF OthersStill, TypeOK
<1>1. CASE Leave(p) /\ cachedTip' = cachedTip
    BY <1>1, LeaveOK
<1>2. CASE \/ Load(p) \/ Record(p) \/ Resolve(p) \/ RecoverTip(p)
           \/ \E v \in Ids, b \in Branches, parent \in AllVersions : Pull(p, v, b, parent)
    BY <1>2 DEF Load, Record, Resolve, RecoverTip, Pull, Goto
<1>3. CASE BeginCommit(p) \/ InsertTags(p) \/ StoreData(p) \/ CommitDatabase(p)
    BY <1>3 DEF BeginCommit, InsertTags, StoreData, CommitDatabase, Goto, processVars
<1>4. CASE \E v \in Ids, force \in BOOLEAN : EnterCommit(p, v, force)
    BY <1>4 DEF EnterCommit, Goto
<1>5. CASE \/ \E v \in AllVersions : BeginMerge(p, v) \/ BeginUpdate(p, v)
           \/ MergeFiles(p) \/ StageFiles(p)
    BY <1>5 DEF BeginMerge, BeginUpdate, MergeFiles, StageFiles, Goto
<1>6. CASE \E v \in Ids : RebaseTip(p, v)
    BY <1>6 DEF RebaseTip, Goto
<1>7. CASE \/ FinishCommit(p) \/ CommitFails(p) \/ StageMerge(p) \/ MoveTip(p)
           \/ (\E parent \in AllVersions : RebaseCommit(p, parent)) \/ Die(p) \/ Quit(p)
    BY <1>1, <1>7 DEF FinishCommit, CommitFails, StageMerge, MoveTip, RebaseCommit, Die, Quit
<1> HIDE DEF OthersStill, TypeOK
<1> QED BY <1>2, <1>3, <1>4, <1>5, <1>6, <1>7 DEF Step, Commit, Merge, Rebase, Other

\* No head is rewound.
HeadsForward == \A c \in Branches : \A h \in heads[c] : \E g \in heads'[c] : h \in anc'[g]

\* A new version that becomes a head, in the place of heads it contains, moves
\* the heads forward and leaves no version without one.
LEMMA HeadsAdvance ==
  ASSUME IInv, NothingLost,
         NEW v \in Ids \ versions, NEW b \in Branches, NEW parent \in versions,
         NEW merges \in SUBSET versions, NEW data \in SUBSET AllVersions,
         InsertVersion(v, b, parent, merges, data),
         NEW H \in SUBSET (versions \cup {v}), v \in H,
         heads' = [heads EXCEPT ![b] = H],
         \A h \in heads[b] \ H : h \in anc'[v]
  PROVE  NothingLost' /\ HeadsForward /\ Repository!Write(v, b, {parent} \cup merges)
<1>1. TypeOK /\ GraphOK /\ HeadsStored
    BY DEF IInv
<1>2. v \in AllVersions \ versions
    BY DEF AllVersions
<1>3. GraphOK' /\ GraphGrows /\ versions' = versions \cup {v} /\ branchOf'[v] = b
    BY <1>1, <1>2, InsertKeepsGraph
<1>4. heads'[b] = H /\ \A c \in Branches \ {b} : heads'[c] = heads[c]
    BY <1>1 DEF TypeOK
<1>5. HeadsForward
  <2>1. ASSUME NEW c \in Branches, NEW h \in heads[c] PROVE \E g \in heads'[c] : h \in anc'[g]
    <3>1. h \in versions /\ h \in anc'[h]
        BY <1>1, <1>3 DEF HeadsStored, GraphOK, GraphGrows
    <3>2. CASE h \in heads'[c]
        BY <3>1, <3>2
    <3>3. CASE h \notin heads'[c]
        BY <1>4, <3>3
    <3> QED BY <3>2, <3>3
  <2> QED BY <2>1 DEF HeadsForward
<1>6. NothingLost'
  <2>1. ASSUME NEW w \in versions PROVE \E g \in heads'[branchOf'[w]] : w \in anc'[g]
    <3>1. branchOf'[w] = branchOf[w] /\ branchOf[w] \in Branches
        BY <1>1, <1>3 DEF GraphGrows, GraphOK
    <3>2. PICK h \in heads[branchOf[w]] : w \in anc[h]
        BY DEF NothingLost
    <3>3. h \in versions /\ w \in anc'[h]
        BY <1>1, <1>3, <3>1, <3>2 DEF HeadsStored, GraphGrows
    <3>4. PICK g \in heads'[branchOf[w]] : h \in anc'[g]
        BY <1>5, <3>1 DEF HeadsForward
    <3>5. g \in versions'
        BY <1>1, <1>3, <1>4, <3>1, <3>4 DEF HeadsStored
    <3>6. w \in anc'[g]
        BY <1>3, <3>3, <3>4, <3>5 DEF GraphOK
    <3> QED BY <3>1, <3>4, <3>6
  <2>2. v \in heads'[branchOf'[v]] /\ v \in anc'[v]
      BY <1>3, <1>4 DEF GraphOK
  <2> QED BY <1>3, <2>1, <2>2 DEF NothingLost
<1>7. Repository!Write(v, b, {parent} \cup merges)
  <2>1. anc' = [anc EXCEPT ![v] = {v} \cup UNION {anc[u] : u \in {parent} \cup merges}]
    <3>1. {v} \cup anc[parent] \cup UNION {anc[u] : u \in merges}
            = {v} \cup UNION {anc[u] : u \in {parent} \cup merges}
        OBVIOUS
    <3> QED BY <3>1 DEF InsertVersion
  <2> QED BY <1>2, <2>1 DEF InsertVersion, Repository!Write
<1> QED BY <1>5, <1>6, <1>7

\* The versions stay as they are, and the process enters Commit with the heads
\* as they are.
LEMMA HeadsUndisturbed ==
  ASSUME IInv, HeadsOK, NEW p \in Procs, UNCHANGED versionVars, OthersStill(p),
         HeadModeOK(p)', pc'[p] = "rebased" => "rebase" \in Commands
  PROVE  HeadsOK' /\ HeadsForward
<1> USE DEF versionVars
<1>1. HeadsForward
    BY DEF HeadsForward, IInv, HeadsStored, GraphOK
<1>2. NothingLost'
    BY DEF HeadsOK, NothingLost
<1>3. ASSUME NEW q \in Procs, q # p
      PROVE  HeadModeOK(q)' /\ (pc'[q] = "rebased" => "rebase" \in Commands)
    BY <1>3 DEF HeadsOK, HeadModeOK, OthersStill
<1> QED BY <1>1, <1>2, <1>3 DEF HeadsOK

\* What a step does to the graph and the heads, as the store sees it.
StoreStep ==
  /\ HeadsForward
  /\ \/ UNCHANGED Repository!graph
     \/ \E v \in AllVersions, b \in Branches, sources \in SUBSET AllVersions :
          Repository!Write(v, b, sources)

\* A pull moves the heads forward.
LEMMA PullAdvances ==
  ASSUME IInv, HeadsOK, NEW p \in Procs,
         NEW v \in Ids, NEW b \in Branches, NEW parent \in AllVersions, Pull(p, v, b, parent)
  PROVE  NothingLost' /\ StoreStep
<1> DEFINE H == (heads[b] \ {parent}) \cup {v}
           data == content[parent]
           merges == {}
<1>1. TypeOK /\ GraphOK /\ HeadsStored /\ NothingLost
    BY DEF IInv, HeadsOK
<1>2. /\ v \in Ids \ versions /\ parent \in versions
      /\ InsertVersion(v, b, parent, merges, data) /\ heads' = [heads EXCEPT ![b] = H]
    BY DEF Pull, Unused
<1>3. /\ H \in SUBSET (versions \cup {v}) /\ v \in H /\ data \in SUBSET AllVersions
      /\ merges \in SUBSET versions
    BY <1>1 DEF HeadsStored, TypeOK
<1>4. v \in AllVersions /\ {parent} \cup merges \in SUBSET AllVersions
    BY DEF AllVersions
<1>5. \A h \in heads[b] \ H : h \in anc'[v]
  <2>1. parent \in anc[parent]
      BY <1>1, <1>2 DEF GraphOK
  <2>2. parent \in anc'[v]
      BY <1>1, <1>2, <1>4, <2>1 DEF InsertVersion, TypeOK
  <2> QED BY <2>2
<1> HIDE DEF H, data, merges
<1>6. NothingLost' /\ HeadsForward /\ Repository!Write(v, b, {parent} \cup merges)
    BY <1>1, <1>2, <1>3, <1>5, HeadsAdvance
<1> QED BY <1>4, <1>6 DEF StoreStep

\* A commit moves the heads forward, to the version it makes.
LEMMA CommitAdvances ==
  ASSUME IInv, HeadsOK, NEW p \in Procs, CommitDatabase(p)
  PROVE  NothingLost' /\ StoreStep /\ target[p] \in heads'[Trunk]
<1> DEFINE data == content[cachedTip[p]] \cup (Recorded \ {Edit})
           H == HeadsAfter(p)
           merges == mergeIDs[p]
           parent == cachedTip[p]
           v == target[p]
<1>1. TypeOK /\ GraphOK /\ HeadsStored /\ NothingLost /\ ProcessOK(p) /\ HeadModeOK(p)
    BY DEF IInv, ProcessesOK, HeadsOK
<1>2. /\ pc[p] = "stored"
      /\ InsertVersion(v, Trunk, parent, merges, data) /\ heads' = [heads EXCEPT ![Trunk] = H]
    BY DEF CommitDatabase
<1>3. v \in Ids \ versions /\ parent \in versions /\ merges \in SUBSET versions
    BY <1>1, <1>2 DEF ProcessOK, Choosing
<1>4. v \in AllVersions /\ {parent} \cup merges \in SUBSET AllVersions
  <2>1. versions \subseteq AllVersions
      BY <1>1 DEF TypeOK
  <2> QED BY <1>3, <2>1 DEF AllVersions
<1>5. data \in SUBSET AllVersions
    BY <1>1, <1>3 DEF TypeOK, Recorded
<1>6. v \in H /\ \A h \in heads[Trunk] \ H : h = parent \/ h \in merges
    BY <1>1, <1>2 DEF HeadModeOK, HeadsAfter
<1>7. H \in SUBSET (versions \cup {v})
    BY <1>2, HeadsAfterOK
<1> HIDE DEF data, H
<1>8. \A h \in heads[Trunk] \ H : h \in anc'[v]
  <2>1. \A u \in {parent} \cup merges : u \in anc[u]
      BY <1>1, <1>3 DEF GraphOK
  <2>2. anc'[v] = {v} \cup anc[parent] \cup UNION {anc[u] : u \in merges}
      BY <1>1, <1>2, <1>4 DEF InsertVersion, TypeOK
  <2> QED BY <1>6, <2>1, <2>2
<1>9. NothingLost' /\ HeadsForward /\ Repository!Write(v, Trunk, {parent} \cup merges)
  <2> HIDE DEF v, parent, merges
  <2> QED BY <1>1, <1>2, <1>3, <1>5, <1>6, <1>7, <1>8, HeadsAdvance, TrunkAssumption
<1>10. v \in heads'[Trunk]
    BY <1>1, <1>2, <1>6, TrunkAssumption DEF TypeOK
<1> HIDE DEF merges
<1> QED BY <1>4, <1>9, <1>10, TrunkAssumption DEF StoreStep

\* So does a rebase.
LEMMA RebaseAdvances ==
  ASSUME IInv, HeadsOK, NEW p \in Procs, NEW parent \in AllVersions, RebaseCommit(p, parent)
  PROVE  NothingLost' /\ StoreStep
<1> DEFINE current == cachedTip[p]
           v == target[p]
           H == (heads[Trunk] \ {current, parent}) \cup {v}
           merges == {current}
           data == content[current]
<1>1. TypeOK /\ GraphOK /\ HeadsStored /\ NothingLost /\ ProcessOK(p)
    BY DEF IInv, ProcessesOK, HeadsOK
<1>2. /\ pc[p] = "rebased" /\ parent \in line[current]
      /\ InsertVersion(v, Trunk, parent, merges, data) /\ heads' = [heads EXCEPT ![Trunk] = H]
    BY DEF RebaseCommit
<1>3. v \in Ids \ versions /\ current \in versions
    BY <1>1, <1>2 DEF ProcessOK, Choosing
<1>4. parent \in versions /\ merges \in SUBSET versions
    BY <1>1, <1>2, <1>3 DEF GraphOK
<1>5. /\ v \in AllVersions /\ {parent} \cup merges \in SUBSET AllVersions
      /\ data \in SUBSET AllVersions
  <2>1. versions \subseteq AllVersions /\ v \in AllVersions
      BY <1>1, <1>3 DEF TypeOK, AllVersions
  <2>2. data \in SUBSET AllVersions
      BY <1>1, <1>3, <2>1 DEF TypeOK
  <2> QED BY <1>3, <1>4, <2>1, <2>2
<1>6. v \in H /\ H \in SUBSET (versions \cup {v})
    BY <1>1, TrunkAssumption DEF HeadsStored
<1>7. \A h \in heads[Trunk] \ H : h \in anc'[v]
  <2>1. \A u \in {parent, current} : u \in anc[u]
      BY <1>1, <1>3, <1>4 DEF GraphOK
  <2>2. anc'[v] = {v} \cup anc[parent] \cup UNION {anc[u] : u \in merges}
      BY <1>1, <1>2, <1>5 DEF InsertVersion, TypeOK
  <2>3. \A h \in heads[Trunk] \ H : h = current \/ h = parent
      OBVIOUS
  <2> QED BY <2>1, <2>2, <2>3
<1> HIDE DEF H, merges, data, v
<1>8. NothingLost' /\ HeadsForward /\ Repository!Write(v, Trunk, {parent} \cup merges)
    BY <1>1, <1>2, <1>3, <1>4, <1>5, <1>6, <1>7, HeadsAdvance, TrunkAssumption
<1> QED BY <1>5, <1>8, TrunkAssumption DEF StoreStep

\* A commit that has read the heads is not disturbed by other processes: they
\* do not get the lock, and there is no rebase.
LEMMA CommitUndisturbed ==
  ASSUME Calm, IInv, HeadsOK, NEW p \in Procs, OthersStill(p),
         pc[p] \in {"stored", "rebased"} \/ lock = None,
         pc'[p] \notin {"locked", "stored", "rebased"}
  PROVE  \A q \in Procs : HeadModeOK(q)' /\ (pc'[q] = "rebased" => "rebase" \in Commands)
<1> SUFFICES ASSUME NEW q \in Procs
             PROVE  HeadModeOK(q)' /\ (pc'[q] = "rebased" => "rebase" \in Commands)
    OBVIOUS
<1>1. CASE q = p
    BY <1>1 DEF HeadModeOK
<1>2. CASE q # p
  <2>1. \A r \in Procs : (lock = r) <=> pc[r] \in {"locked", "stored", "saved"}
      BY DEF IInv, ProcessesOK, ProcessOK
  <2>2. pc[p] # "rebased"
      BY <1>2 DEF Calm, HeadsOK
  <2>3. pc[q] \notin {"locked", "stored"}
      BY <1>2, <2>1, <2>2, NamesAssumption
  <2> QED BY <1>2, <2>3 DEF HeadModeOK, HeadsOK, OthersStill
<1> QED BY <1>1, <1>2

\* Every step keeps what commits know of the heads, and moves heads forward.
LEMMA HeadsKept ==
  ASSUME Calm, IInv, HeadsOK, [Next]_vars
  PROVE  HeadsOK' /\ StoreStep
<1>1. CASE UserEdits \/ UNCHANGED vars
  <2>1. UNCHANGED <<versionVars, lock, processVars>>
      BY <1>1 DEF UserEdits, vars, databaseVars
  <2>2. HeadsOK' /\ UNCHANGED Repository!graph
      BY <2>1 DEF HeadsOK, NothingLost, HeadModeOK, Repository!graph, versionVars, processVars
  <2>3. HeadsForward
      BY <2>1 DEF HeadsForward, IInv, HeadsStored, GraphOK, versionVars
  <2> QED BY <2>2, <2>3 DEF StoreStep
<1>2. ASSUME NEW p \in Procs, Step(p) PROVE HeadsOK' /\ StoreStep
  <2>1. OthersStill(p) /\ TypeOK /\ ProcessOK(p)
      BY <1>2, StepsAreOwn DEF IInv, ProcessesOK
  <2>2. ASSUME NEW v \in Ids, NEW b \in Branches, NEW parent \in AllVersions, Pull(p, v, b, parent)
        PROVE  HeadsOK' /\ StoreStep
    <3>1. lock = None /\ pc'[p] = "idle"
        BY <2>1, <2>2 DEF Pull, Goto, TypeOK
    <3> QED BY <2>1, <2>2, <3>1, PullAdvances, CommitUndisturbed DEF HeadsOK
  <2>3. CASE CommitDatabase(p)
    <3>1. pc[p] = "stored" /\ pc'[p] = "saved"
        BY <2>1, <2>3 DEF CommitDatabase, Goto, TypeOK
    <3> QED BY <2>1, <2>3, <3>1, CommitAdvances, CommitUndisturbed DEF HeadsOK
  <2>4. ASSUME NEW parent \in AllVersions, RebaseCommit(p, parent) PROVE HeadsOK' /\ StoreStep
    <3>1. pc[p] = "rebased" /\ pc'[p] = "idle"
        BY <2>1, <2>4, LeaveOK DEF RebaseCommit
    <3> QED BY <2>1, <2>4, <3>1, RebaseAdvances, CommitUndisturbed DEF HeadsOK
  <2>5. ASSUME UNCHANGED versionVars, HeadModeOK(p)', pc'[p] = "rebased" => "rebase" \in Commands
        PROVE  HeadsOK' /\ StoreStep
      BY <2>1, <2>5, HeadsUndisturbed DEF StoreStep, Repository!graph, versionVars
  <2>6. CASE Leave(p) /\ cachedTip' = cachedTip /\ UNCHANGED versionVars
      BY <2>1, <2>5, <2>6, LeaveOK DEF HeadModeOK
  <2>7. CASE FinishCommit(p) \/ CommitFails(p) \/ StageMerge(p) \/ MoveTip(p) \/ Die(p) \/ Quit(p)
      BY <2>6, <2>7 DEF FinishCommit, CommitFails, StageMerge, MoveTip, Die, Quit, databaseVars
  <2>8. CASE Load(p) \/ Record(p) \/ Resolve(p) \/ RecoverTip(p) \/ BeginCommit(p)
    <3>1. UNCHANGED versionVars /\ pc'[p] \in {"idle", "loaded", "waiting"}
        BY <2>1, <2>8 DEF Load, Record, Resolve, RecoverTip, BeginCommit, Goto, TypeOK, databaseVars
    <3> QED BY <2>5, <3>1 DEF HeadModeOK
  <2>9. ASSUME NEW v \in Ids, NEW force \in BOOLEAN, EnterCommit(p, v, force)
        PROVE  HeadsOK' /\ StoreStep
    <3>1. UNCHANGED versionVars /\ pc'[p] = "locked"
        BY <2>1, <2>9 DEF EnterCommit, Goto, TypeOK, databaseVars
    <3>2. HeadModeOK(p)'
        BY <2>1, <2>9, <3>1 DEF EnterCommit, HeadModeOK, TypeOK, versionVars
    <3> QED BY <2>5, <3>1, <3>2
  <2>10. CASE InsertTags(p) \/ StoreData(p)
    <3>1. UNCHANGED versionVars /\ pc[p] = "locked" /\ pc'[p] \in {"locked", "stored"}
        BY <2>1, <2>10 DEF InsertTags, StoreData, Goto, TypeOK, databaseVars, processVars
    <3>2. UNCHANGED <<headMode, cachedTip>>
        BY <2>10 DEF InsertTags, StoreData, processVars
    <3>3. HeadModeOK(p)'
        BY <3>1, <3>2 DEF HeadsOK, HeadModeOK, versionVars
    <3> QED BY <2>5, <3>1, <3>3
  <2>11. CASE \/ \E v \in AllVersions : BeginMerge(p, v) \/ BeginUpdate(p, v)
              \/ MergeFiles(p) \/ StageFiles(p)
    <3>1. /\ UNCHANGED versionVars
          /\ pc'[p] \in {"merging", "updating", "merged", "updated", "staged"}
        BY <2>1, <2>11 DEF BeginMerge, BeginUpdate, MergeFiles, StageFiles, Goto, TypeOK,
             databaseVars
    <3> QED BY <2>5, <3>1 DEF HeadModeOK
  <2>12. ASSUME NEW v \in Ids, RebaseTip(p, v) PROVE HeadsOK' /\ StoreStep
    <3>1. UNCHANGED versionVars /\ pc'[p] = "rebased" /\ "rebase" \in Commands
        BY <2>1, <2>12 DEF RebaseTip, Goto, TypeOK, databaseVars
    <3> QED BY <2>5, <3>1 DEF HeadModeOK
  <2> QED BY <1>2, <2>2, <2>3, <2>4, <2>7, <2>8, <2>9, <2>10, <2>11, <2>12
          DEF Step, Commit, Merge, Rebase, Other
<1> QED BY <1>1, <1>2 DEF Next, Step

\* Where no rebase can run beside a commit, Commit knows the heads.
THEOREM HeadsKnown == ASSUME Calm PROVE Spec => [](IInv /\ HeadsOK)
<1>1. Init => HeadsOK
  <2> SUFFICES ASSUME Init PROVE HeadsOK
      OBVIOUS
  <2>1. branchOf[Root] = Trunk /\ heads[Trunk] = {Root} /\ anc[Root] = {Root}
      BY TrunkAssumption DEF Init, AllVersions
  <2>2. NothingLost
      BY <2>1 DEF Init, NothingLost
  <2> QED BY <2>2 DEF Init, HeadsOK, HeadModeOK
<1>2. IInv /\ HeadsOK /\ [Next]_vars => (IInv /\ HeadsOK)'
    BY Calm, HeadsKept, NextKeeps
<1> QED BY <1>1, <1>2, InitIInv, PTL DEF Spec

\* Only the WorkspaceDB transaction ends the place "stored" in "saved".
LEMMA SavedByTransaction ==
  ASSUME TypeOK, NEW p \in Procs, [Next]_vars, pc[p] = "stored", pc'[p] = "saved"
  PROVE  CommitDatabase(p)
<1>1. ~(UserEdits \/ UNCHANGED vars)
    BY DEF UserEdits, vars, processVars
<1>2. PICK q \in Procs : Step(q)
    BY <1>1 DEF Next, Step
<1>3. q = p
    BY <1>2, StepsAreOwn DEF OthersStill
<1>4. ~(Leave(p) /\ cachedTip' = cachedTip)
    BY LeaveOK
<1>5. ~Other(p)
    BY <1>4 DEF Other, Load, Record, Resolve, RecoverTip, Pull, Die, Quit
<1>6. ~Rebase(p)
    BY <1>4 DEF Rebase, RebaseTip, RebaseCommit
<1>7. ~Merge(p)
    BY <1>4 DEF Merge, BeginMerge, BeginUpdate, MergeFiles, StageFiles, StageMerge, MoveTip
<1>8. ~(BeginCommit(p) \/ InsertTags(p) \/ StoreData(p) \/ FinishCommit(p) \/ CommitFails(p))
    BY <1>4 DEF BeginCommit, InsertTags, StoreData, FinishCommit, CommitFails
<1>9. ~ \E v \in Ids, force \in BOOLEAN : EnterCommit(p, v, force)
    BY DEF EnterCommit
<1> QED BY <1>2, <1>3, <1>5, <1>6, <1>7, <1>8, <1>9 DEF Step, Commit

\* A commit ends with the branch head on the version it made, although it read
\* the Tip, and the heads, long before.
THEOREM HeadOfTheBranch == ASSUME Calm PROVE Spec => CommitBecomesHead
<1>1. ASSUME IInv, HeadsOK, [Next]_vars
      PROVE  [\A p \in Procs :
                pc[p] = "stored" /\ pc'[p] = "saved" => target[p] \in heads'[Trunk]]_vars
    BY <1>1, SavedByTransaction, CommitAdvances DEF IInv
<1> QED BY <1>1, HeadsKnown, Calm, PTL DEF Spec, CommitBecomesHead

\* A set that loses an element and gains one is not larger.
LEMMA Exchange ==
  ASSUME NEW S, IsFiniteSet(S), NEW x \in S, NEW T \in SUBSET (S \ {x}), NEW y
  PROVE  Cardinality(T \cup {y}) <= Cardinality(S)
<1>1. IsFiniteSet(S \ {x}) /\ Cardinality(S \ {x}) = Cardinality(S) - 1
    BY FS_RemoveElement
<1>2. IsFiniteSet(T) /\ Cardinality(T) <= Cardinality(S \ {x})
    BY <1>1, FS_Subset
<1>3. Cardinality(T \cup {y}) <= Cardinality(T) + 1
  <2>1. Cardinality(T) \in Nat
      BY <1>2, FS_CardinalityType
  <2>2. Cardinality(T \cup {y}) = IF y \in T THEN Cardinality(T) ELSE Cardinality(T) + 1
      BY <1>2, FS_AddElement
  <2> QED BY <2>1, <2>2
<1>4. /\ Cardinality(S) \in Nat /\ Cardinality(T) \in Nat
      /\ Cardinality(T \cup {y}) \in Nat
  <2>1. IsFiniteSet(T \cup {y})
      BY <1>2, FS_AddElement
  <2> QED BY <1>2, <2>1, FS_CardinalityType
<1> QED BY <1>1, <1>2, <1>3, <1>4

\* A commit that is not forced never gives the branch one more head.
THEOREM HeadsNotAdded == ASSUME Calm PROVE Spec => UnforcedKeepsHeads
<1>1. ASSUME IInv, HeadsOK, [Next]_vars, NEW p \in Procs,
             pc[p] = "stored", pc'[p] = "saved", headMode[p] # "force", heads[Trunk] # {}
      PROVE  Cardinality(heads'[Trunk]) <= Cardinality(heads[Trunk])
  <2> DEFINE T == (heads[Trunk] \ mergeIDs[p]) \ {cachedTip[p]}
  <2>1. TypeOK /\ HeadModeOK(p) /\ IsFiniteSet(heads[Trunk])
      BY <1>1, TrunkAssumption DEF IInv, HeadsStored, HeadsOK
  <2>2. headMode[p] = "move" /\ cachedTip[p] \in heads[Trunk]
      BY <1>1, <2>1 DEF HeadModeOK, TypeOK
  <2>3. heads'[Trunk] = HeadsAfter(p)
      BY <1>1, <2>1, SavedByTransaction, TrunkAssumption DEF CommitDatabase, TypeOK
  <2>4. HeadsAfter(p) = T \cup {target[p]}
      BY <2>2 DEF HeadsAfter
  <2>5. T \in SUBSET (heads[Trunk] \ {cachedTip[p]})
      OBVIOUS
  <2> HIDE DEF T
  <2> QED BY <2>1, <2>2, <2>3, <2>4, <2>5, Exchange
<1>2. ASSUME IInv, HeadsOK, [Next]_vars
      PROVE  [\A p \in Procs :
                pc[p] = "stored" /\ pc'[p] = "saved" /\ headMode[p] # "force"
                  => heads[Trunk] = {}
                       \/ Cardinality(heads'[Trunk]) <= Cardinality(heads[Trunk])]_vars
    BY <1>1, <1>2
<1> QED BY <1>2, HeadsKnown, Calm, PTL DEF Spec, UnforcedKeepsHeads

\* The workspace keeps the promise of VersionStore: every version stays, with
\* its whole history, under a head of its branch.
THEOREM WorkspaceImplementsStore == ASSUME Calm PROVE Spec => RepositoryKeepsPromise
<1>1. Init => Repository!Init
    BY DEF Init, Repository!Init
<1>2. ASSUME IInv, HeadsOK, [Next]_vars PROVE Repository!Next
  <2>1. HeadsOK' /\ StoreStep
      BY <1>2, Calm, HeadsKept
  <2>2. TypeOK /\ TypeOK' /\ GraphOK' /\ HeadsStored' /\ NothingLost'
      BY <1>2, <2>1, NextKeeps DEF IInv, HeadsOK
  <2>3. CASE UNCHANGED <<versions, heads>>
      BY <2>1, <2>3 DEF StoreStep, Repository!Next, Repository!store
  <2>4. CASE ~UNCHANGED <<versions, heads>>
    <3> DEFINE new == versions' \ versions
    <3>1. versions \subseteq versions'
        BY <2>1 DEF StoreStep, Repository!graph, Repository!Write
    <3>2. new \in SUBSET AllVersions /\ versions' = versions \cup new
        BY <2>2, <3>1 DEF TypeOK
    <3>3. heads' \in [Branches -> SUBSET versions']
      <4>1. heads' \in [Branches -> SUBSET AllVersions]
          BY <2>2 DEF TypeOK
      <4> QED BY <2>2, <4>1 DEF HeadsStored
    <3>4. \A v \in new : up'[v] \subseteq versions' /\ \E g \in heads'[branchOf'[v]] : v \in anc'[g]
        BY <2>2 DEF GraphOK, NothingLost
    <3>5. Repository!Store(new)
        BY <2>1, <3>2, <3>3, <3>4 DEF Repository!Store, StoreStep, HeadsForward
    <3> HIDE DEF new
    <3> QED BY <2>1, <3>2, <3>5 DEF StoreStep, Repository!Next
  <2> QED BY <2>3, <2>4
<1> QED BY <1>1, <1>2, HeadsKnown, Calm, PTL DEF Spec, RepositoryKeepsPromise, Repository!Spec

-----------------------------------------------------------------------------
(* The contents of versions and files. *)

\* The sets that account for the files.
LEMMA UnderwayOf ==
  /\ \A q \in Procs : Running(q) => content[target[q]] \subseteq Underway
  /\ \A q \in Procs : pc[q] = "rebased" => content[cachedTip[q]] \subseteq AtTip
  /\ content[tip] \subseteq AtTip
  /\ \A f \in Underway : \E q \in Procs : Running(q) /\ f \in content[target[q]]
  /\ \A f \in AtTip : \/ f \in content[tip]
                      \/ \E q \in Procs : pc[q] = "rebased" /\ f \in content[cachedTip[q]]
  BY DEF Underway, AtTip, Contents

\* They grow with the contents of versions, as long as the processes that
\* contribute to them stay where they are.
LEMMA AccountsGrow ==
  ASSUME NEW p \in Procs, OthersStill(p), \A v \in AllVersions : content[v] \subseteq content'[v],
         IInv
  PROVE  /\ \A f \in Underway : f \in Underway' \/ (Running(p) /\ f \in content[target[p]])
         /\ (Running(p) => Running(p)' /\ target'[p] = target[p]) => Underway \subseteq Underway'
         /\ Underway' \subseteq UNION {content'[target'[q]] : q \in {r \in Procs : Running(r)'}}
         /\ \A f \in AtTip : tip' = tip =>
               f \in AtTip' \/ (pc[p] = "rebased" /\ f \in content[cachedTip[p]])
<1>1. \A q \in Procs : /\ cachedTip[q] \in AllVersions
                       /\ Running(q) => target[q] \in AllVersions
    BY TornTyped DEF IInv, TypeOK
<1>2. /\ \A q \in Procs : Running(q)' => content'[target'[q]] \subseteq Underway'
      /\ \A q \in Procs : pc'[q] = "rebased" => content'[cachedTip'[q]] \subseteq AtTip'
      /\ content'[tip'] \subseteq AtTip'
    BY DEF Underway, AtTip, Contents, Running
<1>3. ASSUME NEW f \in Underway
      PROVE  f \in Underway' \/ (Running(p) /\ f \in content[target[p]])
  <2>1. PICK q \in Procs : Running(q) /\ f \in content[target[q]]
      BY UnderwayOf
  <2>2. CASE q # p
    <3>1. Running(q)' /\ target'[q] = target[q]
        BY <2>1, <2>2 DEF OthersStill, Running
    <3> QED BY <1>1, <1>2, <2>1, <3>1
  <2> QED BY <2>1, <2>2
<1>4. ASSUME Running(p) => Running(p)' /\ target'[p] = target[p], NEW f \in Underway
      PROVE  f \in Underway'
    BY <1>1, <1>2, <1>3, <1>4
<1>5. ASSUME NEW f \in AtTip, tip' = tip
      PROVE  f \in AtTip' \/ (pc[p] = "rebased" /\ f \in content[cachedTip[p]])
  <2>1. CASE f \in content[tip]
      BY <1>2, <1>5, <2>1 DEF IInv, TypeOK
  <2>2. CASE \E q \in Procs : pc[q] = "rebased" /\ f \in content[cachedTip[q]]
    <3>1. PICK q \in Procs : pc[q] = "rebased" /\ f \in content[cachedTip[q]]
        BY <2>2
    <3>2. CASE q # p
      <4>1. pc'[q] = "rebased" /\ cachedTip'[q] = cachedTip[q]
          BY <3>1, <3>2 DEF OthersStill
      <4> QED BY <1>1, <1>2, <3>1, <4>1
    <3> QED BY <3>1, <3>2
  <2> QED BY <2>1, <2>2, UnderwayOf
<1> QED BY <1>3, <1>4, <1>5 DEF Underway, Contents, Running

\* The other commands, in a step that does not move the Tip.
LEMMA OthersKept ==
  ASSUME IInv, ContentOK, NEW p \in Procs, OthersStill(p), tip' = tip,
         \A v \in versions : content'[v] = content[v],
         cachedTip'[p] \in {cachedTip[p], tip},
         Named \subseteq Named', torn \subseteq torn', stage.changes \subseteq stage'.changes,
         Accounted \subseteq Accounted', lock = None \/ Underway \subseteq Underway' \cup torn',
         files' \subseteq files \cup Underway',
         pc'[p] \in {"staged", "rebased"} => pc[p] = pc'[p] \/ lock = None,
         pc'[p] = "staged" /\ pc[p] = "staged" => target'[p] = target[p]
  PROVE  \A q \in Procs : q # p => CommandOK(q)'
<1> TAKE q \in Procs
<1> SUFFICES ASSUME q # p PROVE CommandOK(q)'
    OBVIOUS
<1>1. CommandOK(q) /\ ProcessOK(q) /\ ProcessOK(p)
    BY DEF ContentOK, IInv, ProcessesOK
<1>2. pc'[q] = pc[q] /\ cachedTip'[q] = cachedTip[q] /\ target'[q] = target[q]
    BY DEF OthersStill
<1>3. cachedTip'[q] \in Named'
    BY <1>1, <1>2 DEF CommandOK
<1>4. pc'[q] \in {"locked", "stored", "saved"} =>
        tip' # target'[q] /\ \A r \in Procs : cachedTip'[r] # target'[q]
    BY <1>1, <1>2 DEF CommandOK, OthersStill
<1>5. pc'[q] = "staged" => content'[target'[q]] \subseteq stage'.changes \cup torn'
    BY <1>1, <1>2 DEF CommandOK, ProcessOK
<1>6. pc'[q] = "updated" /\ cachedTip'[q] = tip' => files' \subseteq Accounted'
  <2>1. Underway' \subseteq Accounted'
      BY DEF Accounted
  <2> QED BY <1>1, <1>2, <2>1 DEF CommandOK
<1>7. pc'[q] = "rebased" => tip' = target'[q] \/ content'[cachedTip'[q]] \subseteq torn'
    BY <1>1, <1>2 DEF CommandOK, ProcessOK, Choosing
<1>8. ASSUME pc'[q] = "saved"
      PROVE  /\ files' \subseteq {Edit} \cup content'[target'[q]] \cup torn' \cup Underway'
             /\ \A r \in Procs : /\ pc'[r] # "rebased"
                                 /\ pc'[r] = "staged" => content'[target'[r]] \subseteq torn'
  <2>1. pc[q] = "saved" /\ lock = q /\ lock # None /\ content'[target'[q]] = content[target[q]]
      BY <1>1, <1>2, <1>8, NamesAssumption DEF ProcessOK
  <2>2. files \subseteq {Edit} \cup content[target[q]] \cup torn \cup Underway
      BY <1>1, <2>1 DEF CommandOK
  <2>3. ASSUME NEW r \in Procs
        PROVE  /\ pc'[r] # "rebased"
               /\ pc'[r] = "staged" => content'[target'[r]] \subseteq torn'
    <3>1. /\ pc[r] # "rebased"
          /\ pc[r] = "staged" => content[target[r]] \subseteq torn
        BY <1>1, <2>1 DEF CommandOK
    <3>2. pc[r] = "staged" => target[r] \in versions
        BY DEF IInv, ProcessesOK, ProcessOK
    <3>3. pc'[r] \in {"staged", "rebased"} => pc'[r] = pc[r]
        BY <2>1 DEF OthersStill
    <3>4. pc'[r] = "staged" => target'[r] = target[r]
        BY <3>3 DEF OthersStill
    <3> QED BY <3>1, <3>2, <3>3, <3>4
  <2> QED BY <2>1, <2>2, <2>3
<1> QED BY <1>3, <1>4, <1>5, <1>6, <1>7, <1>8 DEF CommandOK

\* A step that leaves what versions and files contain alone, of a process that
\* has brought nothing into the files.
LEMMA ContentUndisturbed ==
  ASSUME IInv, ContentOK, NEW p \in Procs, OthersStill(p),
         UNCHANGED <<versions, anc, content, files, tip, torn, lost>>,
         stage'.merges = stage.merges, stage.changes \subseteq stage'.changes,
         ~Running(p), ~Running(p)', pc[p] # "rebased", pc'[p] \notin {"rebased", "saved"},
         cachedTip'[p] \in {cachedTip[p], tip},
         pc'[p] \in {"locked", "stored"} =>
           /\ cachedTip'[p] = cachedTip[p]
           /\ \/ pc[p] \in {"locked", "stored"} /\ target'[p] = target[p]
              \/ target'[p] \in Unused
  PROVE  ContentOK'
<1>1. VersionsOK' /\ files \subseteq Accounted \cup AtTip /\ CommandOK(p) /\ TipStored
    BY DEF ContentOK, VersionsOK, IInv
<1>2. Underway \subseteq Underway' /\ AtTip \subseteq AtTip'
    BY AccountsGrow
<1>3. Staged \subseteq Staged'
  <2>1. UNION {anc'[m] : m \in stage'.merges} = UNION {anc[m] : m \in stage.merges}
      OBVIOUS
  <2> QED BY <2>1 DEF Staged
<1>4. Accounted \subseteq Accounted'
    BY <1>2, <1>3 DEF Accounted
<1>5. Named \subseteq Named' /\ tip \in Named
  <2>1. \A q \in Procs : pc[q] = "rebased" => pc'[q] = "rebased" /\ target'[q] = target[q]
      BY DEF OthersStill
  <2> QED BY <1>1, <2>1 DEF Named, TipStored
<1>6. \A q \in Procs : q # p => CommandOK(q)'
    BY <1>2, <1>4, <1>5, OthersKept DEF Running
<1>7. CommandOK(p)'
  <2>1. cachedTip'[p] \in Named'
      BY <1>1, <1>5 DEF CommandOK
  <2>2. ASSUME pc'[p] \in {"locked", "stored"}
        PROVE  tip' # target'[p] /\ \A q \in Procs : cachedTip'[q] # target'[p]
    <3>1. \A q \in Procs : cachedTip'[q] = cachedTip[q]
        BY <2>2 DEF OthersStill
    <3>2. CASE pc[p] \in {"locked", "stored"} /\ target'[p] = target[p]
        BY <1>1, <3>1, <3>2 DEF CommandOK
    <3>3. CASE target'[p] \in Unused
      <4>1. target'[p] \notin Named
          BY <3>3 DEF Unused, Named
      <4>2. \A q \in Procs : cachedTip[q] \in Named
          BY DEF ContentOK, CommandOK
      <4> QED BY <1>5, <3>1, <4>1, <4>2
    <3> QED BY <2>2, <3>2, <3>3
  <2> QED BY <2>1, <2>2 DEF CommandOK, Running
<1> QED BY <1>1, <1>2, <1>4, <1>6, <1>7 DEF ContentOK

\* The steps that do not touch the files, of a process that has not merged.
LEMMA ShortStepsKeepContent ==
  ASSUME IInv, ContentOK, NEW p \in Procs,
         \/ Load(p) \/ Record(p) \/ Resolve(p) \/ Quit(p)
         \/ BeginCommit(p) \/ InsertTags(p) \/ StoreData(p) \/ CommitFails(p)
         \/ \E v \in Ids, force \in BOOLEAN : EnterCommit(p, v, force)
         \/ \E v \in AllVersions : BeginMerge(p, v) \/ BeginUpdate(p, v)
         \/ CommandOf(p) \notin {"none", "rebase"} /\ ~Running(p) /\ Die(p)
  PROVE  ContentOK'
<1> USE DEF databaseVars, versionVars, localVars, processVars
<1>1. TypeOK
    BY DEF IInv
<1>2. CASE Load(p)
  <2>1. OthersStill(p) /\ pc[p] = "idle" /\ pc'[p] = "loaded" /\ cachedTip'[p] = tip
      BY <1>1, <1>2 DEF Load, Goto, TypeOK, OthersStill
  <2> QED BY <1>2, <2>1, ContentUndisturbed DEF Load, Running
<1>3. CASE Record(p) \/ Resolve(p)
  <2>1. /\ OthersStill(p) /\ pc[p] = "loaded" /\ pc'[p] = "idle" /\ cachedTip' = cachedTip
        /\ UNCHANGED <<versions, anc, content, files, tip, torn, lost>>
        /\ stage'.merges = stage.merges /\ stage.changes \subseteq stage'.changes
      BY <1>1, <1>3 DEF Record, Resolve, Goto, TypeOK, OthersStill
  <2> QED BY <2>1, ContentUndisturbed DEF Running
<1>4. CASE \/ Quit(p) \/ CommitFails(p)
           \/ CommandOf(p) \notin {"none", "rebase"} /\ ~Running(p) /\ Die(p)
  <2>1. ~Running(p) /\ pc[p] # "rebased"
      BY <1>4 DEF Quit, CommitFails, CommandOf, Running
  <2>2. /\ OthersStill(p) /\ pc'[p] = "idle" /\ cachedTip' = cachedTip
        /\ UNCHANGED <<versions, anc, content, files, tip, torn, lost, stage>>
      BY <1>1, <1>4, <2>1, LeaveOK DEF Quit, CommitFails, Die
  <2> QED BY <2>1, <2>2, ContentUndisturbed DEF Running
<1>5. CASE \/ BeginCommit(p) \/ InsertTags(p) \/ StoreData(p)
           \/ \E v \in Ids, force \in BOOLEAN : EnterCommit(p, v, force)
           \/ \E v \in AllVersions : BeginMerge(p, v) \/ BeginUpdate(p, v)
  <2>1. /\ OthersStill(p) /\ cachedTip' = cachedTip
        /\ pc[p] \in {"loaded", "waiting", "locked"}
        /\ pc'[p] \in {"waiting", "locked", "stored", "merging", "updating"}
        /\ UNCHANGED <<versions, anc, content, files, tip, torn, lost, stage>>
        /\ pc'[p] \in {"locked", "stored"} =>
              \/ pc[p] \in {"locked", "stored"} /\ target'[p] = target[p]
              \/ target'[p] \in Unused
      BY <1>1, <1>5, NamesAssumption DEF BeginCommit, InsertTags, StoreData, EnterCommit,
           BeginMerge, BeginUpdate, Goto, TypeOK, OthersStill
  <2> QED BY <2>1, ContentUndisturbed DEF Running
<1> QED BY <1>2, <1>3, <1>4, <1>5

\* Merging, and staging what was merged.
LEMMA MergeKeepsContent ==
  ASSUME IInv, ContentOK, NEW p \in Procs, MergeFiles(p) \/ StageFiles(p)
  PROVE  ContentOK'
<1> USE DEF databaseVars, versionVars
<1> DEFINE v == target[p]
<1>1. TypeOK /\ ProcessOK(p) /\ CommandOK(p) /\ TipStored
    BY DEF IInv, ProcessesOK, ContentOK
<1>2. /\ UNCHANGED <<versions, anc, content, tip, cachedTip, target, torn, lost>>
      /\ stage'.merges = stage.merges /\ stage.changes \subseteq stage'.changes
      /\ OthersStill(p) /\ pc[p] # "rebased"
      /\ Running(p) => pc[p] = "merged"
      /\ pc'[p] \in {"merged", "updated", "staged"} /\ Running(p)'
      /\ pc'[p] = "staged" => pc[p] = "merged" /\ lock = None
      /\ files' \subseteq files \cup content[v]
      /\ pc'[p] \in {"merged", "updated"} => pc[p] \in {"merging", "updating"}
  <2>1. files' \subseteq files \cup content[v]
    <3>1. MergeFiles(p) => files' \subseteq files \cup content[v]
        BY DEF MergeFiles
    <3>2. StageFiles(p) => files' = files
        BY DEF StageFiles
    <3> QED BY <3>1, <3>2
  <2>2. CASE MergeFiles(p)
    <3>1. pc'[p] = IF pc[p] = "merging" THEN "merged" ELSE "updated"
        BY <1>1, <2>2 DEF MergeFiles, Goto, TypeOK
    <3>2. stage'.merges = stage.merges /\ stage'.changes = stage.changes
        BY <1>1, <2>2 DEF MergeFiles, TypeOK
    <3>3. pc[p] \in {"merging", "updating"} /\ OthersStill(p)
        BY <1>1, <2>2 DEF MergeFiles, Goto, TypeOK, OthersStill
    <3>4. UNCHANGED <<versions, anc, content, tip, cachedTip, target, torn, lost>>
        BY <2>2 DEF MergeFiles
    <3> QED BY <2>1, <3>1, <3>2, <3>3, <3>4 DEF Running
  <2>3. CASE StageFiles(p)
      BY <1>1, <2>1, <2>3 DEF StageFiles, Goto, TypeOK, OthersStill, Running
  <2> QED BY <2>2, <2>3
<1>3. Underway \subseteq Underway' /\ AtTip \subseteq AtTip'
    BY <1>2, AccountsGrow
<1>4. content[v] \subseteq Underway'
    BY <1>2 DEF Underway, Contents, Running
<1>5. Accounted \subseteq Accounted' /\ Underway' \subseteq Accounted'
  <2>1. UNION {anc'[m] : m \in stage'.merges} = UNION {anc[m] : m \in stage.merges}
      BY <1>2
  <2>2. Staged \subseteq Staged'
      BY <1>2, <2>1 DEF Staged
  <2> QED BY <1>2, <1>3, <2>2 DEF Accounted
<1>6. Named \subseteq Named'
  <2>1. \A q \in Procs : pc[q] = "rebased" => pc'[q] = "rebased" /\ target'[q] = target[q]
      BY <1>2 DEF OthersStill
  <2> QED BY <1>2, <2>1 DEF Named
<1>7. \A q \in Procs : q # p => CommandOK(q)'
    BY <1>2, <1>3, <1>4, <1>5, <1>6, OthersKept
<1>8. CommandOK(p)'
  <2>1. cachedTip'[p] \in Named'
      BY <1>1, <1>2, <1>6 DEF CommandOK
  <2>2. CASE pc'[p] = "merged"
      BY <2>1, <2>2 DEF CommandOK
  <2>3. CASE pc'[p] = "staged"
    <3>1. StageFiles(p)
        BY <2>3, <1>1 DEF MergeFiles, Goto, TypeOK
    <3>2. stage'.changes = stage.changes \cup content[v]
        BY <3>1, <1>1 DEF StageFiles, TypeOK
    <3>3. content'[target'[p]] \subseteq stage'.changes
        BY <1>2, <3>2
    <3> QED BY <2>1, <2>3, <3>3 DEF CommandOK
  <2>4. CASE pc'[p] = "updated"
    <3>1. MergeFiles(p) /\ pc[p] = "updating"
        BY <2>4, <1>1 DEF MergeFiles, StageFiles, Goto, TypeOK
    <3>2. ASSUME cachedTip[p] = tip PROVE files' \subseteq Accounted'
      <4>1. PICK base \in (SUBSET {tip}) \ {{}} :
              files' = (files \ UNION {content[a] : a \in base}) \cup content[v]
          BY <3>1, <3>2 DEF MergeFiles, Bases
      <4>2. base = {tip}
          BY <4>1
      <4>3. UNION {content[a] : a \in base} = content[tip]
          BY <4>2
      <4>4. files' \subseteq (files \ content[tip]) \cup content[v]
          BY <4>1, <4>3
      <4>5. tip \in versions
          BY <1>1, <3>1, <3>2 DEF ProcessOK
      <4>6. AtTip \subseteq content[tip] \cup torn
        <5>1. ASSUME NEW q \in Procs, pc[q] = "rebased" PROVE content[cachedTip[q]] \subseteq torn
          <6>1. target[q] # tip
              BY <4>5, <5>1 DEF IInv, ProcessesOK, ProcessOK, Choosing
          <6> QED BY <5>1, <6>1 DEF ContentOK, CommandOK
        <5> QED BY <5>1, UnderwayOf
      <4>7. files \subseteq Accounted \cup content[tip]
          BY <4>6 DEF ContentOK, Accounted
      <4> QED BY <1>4, <1>5, <4>4, <4>7
    <3> QED BY <1>2, <2>1, <2>4, <3>2 DEF CommandOK
  <2> QED BY <1>2, <2>2, <2>3, <2>4
<1>9. files' \subseteq Accounted' \cup AtTip'
    BY <1>2, <1>3, <1>4, <1>5 DEF ContentOK
<1>10. VersionsOK'
    BY <1>2 DEF ContentOK, VersionsOK
<1> QED BY <1>7, <1>8, <1>9, <1>10 DEF ContentOK

\* The end of a merge: what it brought is staged, with the merge.
LEMMA StageMergeKeepsContent ==
  ASSUME IInv, ContentOK, NEW p \in Procs, StageMerge(p)
  PROVE  ContentOK'
<1> USE DEF databaseVars, versionVars
<1> DEFINE v == target[p]
<1>1. TypeOK /\ ProcessOK(p) /\ CommandOK(p) /\ GraphOK /\ VersionsOK /\ ProcessesOK
    BY DEF IInv, ProcessesOK, ContentOK
<1>2. /\ UNCHANGED <<versions, anc, content, tip, files, cachedTip, torn, lost>>
      /\ stage'.merges = (stage.merges \ anc[v]) \cup {v} /\ stage'.changes = stage.changes
      /\ OthersStill(p) /\ pc[p] = "staged" /\ pc'[p] = "idle" /\ lock = None
    BY <1>1, LeaveOK DEF StageMerge, TypeOK
<1>3. v \in versions
    BY <1>1, <1>2 DEF ProcessOK
<1>4. Staged \subseteq Staged'
  <2>1. ASSUME NEW m \in stage.merges PROVE anc[m] \subseteq UNION {anc'[u] : u \in stage'.merges}
    <3>1. CASE m \in anc[v]
      <4>1. anc[m] \subseteq anc[v]
          BY <1>1, <1>3, <3>1 DEF GraphOK
      <4> QED BY <1>2, <4>1
    <3>2. CASE m \notin anc[v]
        BY <1>2, <3>2
    <3> QED BY <3>1, <3>2
  <2>2. UNION {anc[m] : m \in stage.merges} \subseteq UNION {anc'[u] : u \in stage'.merges}
      BY <2>1
  <2> QED BY <1>2, <2>2 DEF Staged
<1>5. content[v] \subseteq Staged' \cup torn
  <2>1. content[v] \subseteq stage.changes \cup torn /\ content[v] \subseteq anc[v] \cup torn
      BY <1>1, <1>2, <1>3 DEF CommandOK, VersionsOK
  <2>2. anc[v] \subseteq UNION {anc'[u] : u \in stage'.merges}
      BY <1>2
  <2> QED BY <1>2, <2>1, <2>2 DEF Staged
<1>6. Underway \subseteq Underway' \cup content[v] /\ AtTip \subseteq AtTip'
    BY <1>2, AccountsGrow
<1>7. Accounted \subseteq Accounted'
    BY <1>2, <1>4, <1>5, <1>6 DEF Accounted
<1>8. Named \subseteq Named'
  <2>1. \A q \in Procs : pc[q] = "rebased" => pc'[q] = "rebased" /\ target'[q] = target[q]
      BY <1>2 DEF OthersStill
  <2> QED BY <1>2, <2>1 DEF Named
<1>9. \A q \in Procs : q # p => CommandOK(q)'
    BY <1>2, <1>7, <1>8, OthersKept
<1>10. CommandOK(p)'
  <2>1. cachedTip'[p] \in Named'
      BY <1>1, <1>2, <1>8 DEF CommandOK
  <2> QED BY <1>2, <2>1 DEF CommandOK
<1>11. files' \subseteq Accounted' \cup AtTip' /\ VersionsOK'
    BY <1>2, <1>6, <1>7 DEF ContentOK, VersionsOK
<1> QED BY <1>9, <1>10, <1>11 DEF ContentOK

\* A merge, an update or a rebase dies: torn remembers what it brought.
LEMMA DieKeepsContent ==
  ASSUME IInv, ContentOK, NEW p \in Procs, Die(p), Running(p) \/ pc[p] = "rebased"
  PROVE  ContentOK'
<1> USE DEF databaseVars, versionVars, localVars
<1>1. TypeOK /\ CommandOK(p)
    BY DEF IInv, ContentOK
<1>2. /\ UNCHANGED <<versions, anc, content, tip, files, stage, cachedTip>> /\ torn \subseteq torn'
      /\ OthersStill(p) /\ pc'[p] = "idle"
      /\ Running(p) => content[target[p]] \subseteq torn'
      /\ pc[p] = "rebased" => content[cachedTip[p]] \subseteq torn' /\ target[p] \in lost'
      /\ lost \subseteq lost'
  <2>1. /\ Leave(p) /\ UNCHANGED <<versions, anc, content, tip, files, stage, cachedTip>>
        /\ torn \subseteq torn' /\ lost \subseteq lost'
        /\ Running(p) => content[target[p]] \subseteq torn'
        /\ pc[p] = "rebased" => target[p] \in lost'
      BY DEF Die, CommandOf, Running
  <2>2. pc[p] = "rebased" => content[cachedTip[p]] \subseteq torn'
      BY DEF Die, Running
  <2> QED BY <1>1, <2>1, <2>2, LeaveOK
<1>3. Underway \subseteq Underway' \cup torn' /\ AtTip \subseteq AtTip' \cup torn'
    BY <1>2, AccountsGrow
<1>4. Accounted \subseteq Accounted'
  <2>1. UNION {anc'[m] : m \in stage'.merges} = UNION {anc[m] : m \in stage.merges}
      BY <1>2
  <2>2. Staged \subseteq Staged'
      BY <1>2, <2>1 DEF Staged
  <2> QED BY <1>2, <1>3, <2>2 DEF Accounted
<1>5. Named \subseteq Named'
  <2>1. \A q \in Procs : pc[q] = "rebased" =>
          target[q] \in lost' \/ (pc'[q] = "rebased" /\ target'[q] = target[q])
      BY <1>2 DEF OthersStill
  <2> QED BY <1>2, <2>1 DEF Named
<1>6. \A q \in Procs : q # p => CommandOK(q)'
    BY <1>2, <1>3, <1>4, <1>5, OthersKept
<1>7. CommandOK(p)'
  <2>1. cachedTip'[p] \in Named'
      BY <1>1, <1>2, <1>5 DEF CommandOK
  <2> QED BY <1>2, <2>1 DEF CommandOK
<1>8. files' \subseteq Accounted' \cup AtTip'
  <2>1. torn' \subseteq Accounted'
      BY DEF Accounted
  <2> QED BY <1>2, <1>3, <1>4, <2>1 DEF ContentOK
<1>9. VersionsOK'
    BY <1>2 DEF ContentOK, VersionsOK
<1> QED BY <1>6, <1>7, <1>8, <1>9 DEF ContentOK

\* The Tip moves, while no commit is inside RunLocked but one that ends: the
\* other commands, and with what their Tip stands for.
LEMMA OthersKeptTipMoves ==
  ASSUME IInv, ContentOK, NEW p \in Procs, OthersStill(p), lock \in {None, p},
         UNCHANGED <<versions, anc, content>>,
         Named \subseteq Named', torn \subseteq torn',
         \A q \in Procs : q # p /\ pc[q] = "staged" =>
           content[target[q]] \subseteq stage'.changes \cup torn',
         \A q \in Procs : q # p /\ pc[q] = "updated" /\ cachedTip[q] = tip' =>
           files' \subseteq Accounted',
         \A q \in Procs : q # p /\ pc[q] = "rebased" => content[cachedTip[q]] \subseteq torn'
  PROVE  \A q \in Procs : q # p => CommandOK(q)'
<1> TAKE q \in Procs
<1> SUFFICES ASSUME q # p PROVE CommandOK(q)'
    OBVIOUS
<1>1. CommandOK(q) /\ ProcessOK(q)
    BY DEF ContentOK, IInv, ProcessesOK
<1>2. pc'[q] = pc[q] /\ cachedTip'[q] = cachedTip[q] /\ target'[q] = target[q]
    BY DEF OthersStill
<1>3. cachedTip'[q] \in Named'
    BY <1>1, <1>2 DEF CommandOK
<1>4. pc'[q] \notin {"locked", "stored", "saved"}
    BY <1>1, <1>2, NamesAssumption DEF ProcessOK
<1> QED BY <1>2, <1>3, <1>4 DEF CommandOK

\* The end of an update.
LEMMA MoveTipKeepsContent ==
  ASSUME IInv, ContentOK, NEW p \in Procs, MoveTip(p)
  PROVE  ContentOK'
<1> USE DEF databaseVars, versionVars
<1> DEFINE v == target[p]
<1>1. TypeOK /\ ProcessOK(p) /\ CommandOK(p) /\ TipStored
    BY DEF IInv, ProcessesOK, ContentOK
<1>2. /\ UNCHANGED <<versions, anc, content, files, stage, cachedTip, lost>> /\ tip' = v
      /\ OthersStill(p) /\ pc[p] = "updated" /\ pc'[p] = "idle" /\ lock = None
      /\ torn \subseteq torn' /\ Passed(p) \subseteq torn'
    BY <1>1, LeaveOK DEF MoveTip
<1>3. \A q \in Procs : q # p /\ pc[q] = "updated" => content[v] \subseteq torn'
    BY DEF MoveTip
<1>4. v \in versions /\ cachedTip[p] \in versions
    BY <1>1, <1>2 DEF ProcessOK
<1>5. Underway \subseteq Underway' \cup content[v] /\ content[v] \subseteq AtTip'
  <2>1. Underway \subseteq Underway' \cup content[v]
      BY <1>2, AccountsGrow
  <2>2. content'[tip'] \subseteq AtTip'
      BY DEF AtTip
  <2> QED BY <1>2, <2>1, <2>2
<1>6. Staged' = Staged
    BY <1>2 DEF Staged
<1>7. Accounted \subseteq Accounted' \cup content[v]
    BY <1>2, <1>5, <1>6 DEF Accounted
<1>8. files \subseteq Accounted \cup torn'
  <2>1. CASE tip = cachedTip[p]
      BY <1>1, <1>2, <2>1 DEF CommandOK
  <2>2. CASE tip # cachedTip[p]
      BY <1>2, <2>2 DEF ContentOK, Passed
  <2> QED BY <2>1, <2>2
<1>9. torn' \subseteq Accounted'
    BY DEF Accounted
<1>10. files' \subseteq Accounted' \cup AtTip'
    BY <1>2, <1>5, <1>7, <1>8, <1>9
<1>11. ASSUME NEW q \in Procs, q # p, pc[q] = "updated" PROVE files' \subseteq Accounted'
    BY <1>2, <1>3, <1>7, <1>8, <1>9, <1>11
<1>12. ASSUME NEW q \in Procs, q # p, pc[q] = "rebased"
       PROVE  content[cachedTip[q]] \subseteq torn'
  <2>1. CASE tip = target[q]
    <3>1. tip # cachedTip[p]
        BY <1>4, <1>12, <2>1 DEF IInv, ProcessesOK, ProcessOK, Choosing
    <3>2. content[cachedTip[q]] \subseteq AtTip
        BY <1>12, UnderwayOf
    <3> QED BY <1>2, <3>1, <3>2 DEF Passed
  <2>2. CASE tip # target[q]
      BY <1>2, <1>12, <2>2 DEF ContentOK, CommandOK
  <2> QED BY <2>1, <2>2
<1>13. Named \subseteq Named'
  <2>1. \A q \in Procs : pc[q] = "rebased" => pc'[q] = "rebased" /\ target'[q] = target[q]
      BY <1>2 DEF OthersStill
  <2> QED BY <1>2, <2>1 DEF Named
<1>14. \A q \in Procs : pc[q] = "staged" => content[target[q]] \subseteq stage'.changes \cup torn'
    BY <1>2 DEF ContentOK, CommandOK
<1>15. \A q \in Procs : q # p => CommandOK(q)'
    BY <1>2, <1>11, <1>12, <1>13, <1>14, OthersKeptTipMoves
<1>16. CommandOK(p)'
  <2>1. cachedTip'[p] \in Named'
      BY <1>1, <1>2, <1>13 DEF CommandOK
  <2> QED BY <1>2, <2>1 DEF CommandOK
<1>17. VersionsOK'
    BY <1>2 DEF ContentOK, VersionsOK
<1> QED BY <1>10, <1>15, <1>16, <1>17 DEF ContentOK

\* A Tip that is replaced by the initial version.
LEMMA RecoverTipKeepsContent ==
  ASSUME IInv, ContentOK, NEW p \in Procs, RecoverTip(p)
  PROVE  ContentOK'
<1> USE DEF databaseVars, versionVars
<1>1. TypeOK /\ TypeOK' /\ GraphOK
    BY ShortCommandsKeep DEF IInv
<1>2. /\ UNCHANGED <<versions, anc, content, files, stage, lost, pc, target>>
      /\ torn' = AllVersions /\ lock = None
      /\ OthersStill(p) /\ pc[p] = "loaded" /\ cachedTip'[p] = Root
    BY <1>1 DEF RecoverTip, TypeOK, OthersStill
<1>3. files' \subseteq Accounted'
    BY <1>1, <1>2 DEF Accounted, TypeOK
<1>4. \A v \in AllVersions : content[v] \subseteq torn'
    BY <1>1, <1>2 DEF TypeOK
<1>5. \A q \in Procs : /\ pc[q] = "staged" => content[target[q]] \subseteq torn'
                       /\ content[cachedTip[q]] \subseteq torn'
  <2>1. \A q \in Procs : Running(q) => target[q] \in AllVersions
      BY <1>1, TornTyped DEF TypeOK
  <2> QED BY <1>1, <1>4, <2>1 DEF TypeOK, Running
<1>6. Named \subseteq Named' /\ Root \in Named' /\ torn \subseteq torn'
    BY <1>1, <1>2 DEF Named, GraphOK, TypeOK
<1>7. \A q \in Procs : q # p => CommandOK(q)'
    BY <1>2, <1>3, <1>5, <1>6, OthersKeptTipMoves
<1>8. CommandOK(p)'
    BY <1>2, <1>6 DEF CommandOK
<1>9. VersionsOK'
    BY <1>1, <1>2, <1>4 DEF ContentOK, VersionsOK, TypeOK
<1> QED BY <1>3, <1>7, <1>8, <1>9 DEF ContentOK

\* A rebase moves the Tip to the version it is about to commit.
LEMMA RebaseTipKeepsContent ==
  ASSUME IInv, ContentOK, NEW p \in Procs, NEW v \in Ids, RebaseTip(p, v)
  PROVE  ContentOK'
<1> USE DEF databaseVars, versionVars
<1>1. TypeOK /\ ProcessOK(p) /\ CommandOK(p)
    BY DEF IInv, ProcessesOK, ContentOK
<1>2. /\ UNCHANGED <<versions, anc, content, files, stage, cachedTip, lost>> /\ tip' = v
      /\ OthersStill(p) /\ pc[p] = "loaded" /\ pc'[p] = "rebased" /\ target'[p] = v
      /\ lock = None /\ ~DatabaseBusy
      /\ torn \subseteq torn' /\ Passed(p) \subseteq torn' /\ v \notin versions
      /\ cachedTip[p] \in versions
    BY <1>1 DEF RebaseTip, Unused, Goto, TypeOK, OthersStill
<1>3. Underway \subseteq Underway'
    BY <1>2, AccountsGrow DEF Running
<1>4. Accounted \subseteq Accounted' /\ torn' \subseteq Accounted'
  <2>1. Staged' = Staged
      BY <1>2 DEF Staged
  <2> QED BY <1>2, <1>3, <2>1 DEF Accounted
<1>5. AtTip \subseteq AtTip' \cup torn'
  <2>1. content'[cachedTip'[p]] \subseteq AtTip'
      BY <1>2 DEF AtTip, Contents
  <2>2. AtTip = content[tip]
      BY <1>2, UnderwayOf DEF DatabaseBusy
  <2>3. CASE tip = cachedTip[p]
      BY <1>2, <2>1, <2>2, <2>3
  <2>4. CASE tip # cachedTip[p]
      BY <1>2, <2>4 DEF Passed
  <2> QED BY <2>3, <2>4
<1>6. files' \subseteq Accounted' \cup AtTip'
    BY <1>2, <1>4, <1>5 DEF ContentOK
<1>7. Named \subseteq Named'
  <2>1. \A q \in Procs : pc[q] # "rebased"
      BY <1>2 DEF DatabaseBusy
  <2> QED BY <1>2, <2>1 DEF Named
<1>8. \A q \in Procs : pc[q] = "updated" => cachedTip[q] # tip'
    BY <1>2 DEF IInv, ProcessesOK, ProcessOK
<1>9. \A q \in Procs : q # p => CommandOK(q)'
  <2>1. \A q \in Procs : pc[q] = "staged" => content[target[q]] \subseteq stage'.changes \cup torn'
      BY <1>2 DEF ContentOK, CommandOK
  <2>2. \A q \in Procs : pc[q] # "rebased"
      BY <1>2 DEF DatabaseBusy
  <2> QED BY <1>2, <1>7, <1>8, <2>1, <2>2, OthersKeptTipMoves
<1>10. CommandOK(p)'
  <2>1. cachedTip'[p] \in Named'
      BY <1>1, <1>2, <1>7 DEF CommandOK
  <2> QED BY <1>2, <2>1 DEF CommandOK
<1>11. VersionsOK'
    BY <1>2 DEF ContentOK, VersionsOK
<1> QED BY <1>6, <1>9, <1>10, <1>11 DEF ContentOK

\* The end of a commit: what the files hold the version it made contains.
LEMMA FinishKeepsContent ==
  ASSUME IInv, ContentOK, NEW p \in Procs, FinishCommit(p)
  PROVE  ContentOK'
<1> USE DEF databaseVars, versionVars
<1> DEFINE v == target[p]
<1>1. TypeOK /\ ProcessOK(p) /\ CommandOK(p) /\ VersionsOK
    BY DEF IInv, ProcessesOK, ContentOK
<1>2. /\ UNCHANGED <<versions, anc, content, cachedTip, lost, torn>> /\ tip' = v
      /\ OthersStill(p) /\ pc[p] = "saved" /\ pc'[p] = "idle" /\ lock = p
      /\ files' \subseteq files \cup {v}
    BY <1>1, LeaveOK DEF FinishCommit, ProcessOK
<1>3. v \in versions /\ v \in content[v]
    BY <1>1, <1>2 DEF ProcessOK, VersionsOK
<1>4. Underway \subseteq Underway' /\ content[v] \subseteq AtTip'
  <2>1. Underway \subseteq Underway'
      BY <1>2, AccountsGrow DEF Running
  <2>2. content'[tip'] \subseteq AtTip'
      BY DEF AtTip
  <2> QED BY <1>2, <2>1, <2>2
<1>5. files' \subseteq Accounted' \cup AtTip'
  <2>1. files \subseteq {Edit} \cup content[v] \cup torn \cup Underway
      BY <1>1, <1>2 DEF CommandOK
  <2> QED BY <1>2, <1>3, <1>4, <2>1 DEF Accounted
<1>6. Named \subseteq Named'
  <2>1. \A q \in Procs : pc[q] = "rebased" => pc'[q] = "rebased" /\ target'[q] = target[q]
      BY <1>2 DEF OthersStill
  <2> QED BY <1>2, <2>1 DEF Named
<1>7. \A q \in Procs : /\ pc[q] = "staged" => content[target[q]] \subseteq torn
                       /\ pc[q] # "rebased" /\ cachedTip[q] # v
    BY <1>1, <1>2 DEF CommandOK
<1>8. \A q \in Procs : q # p => CommandOK(q)'
    BY <1>2, <1>6, <1>7, OthersKeptTipMoves
<1>9. CommandOK(p)'
  <2>1. cachedTip'[p] \in Named'
      BY <1>1, <1>2, <1>6 DEF CommandOK
  <2> QED BY <1>2, <2>1 DEF CommandOK
<1>10. VersionsOK'
    BY <1>2 DEF ContentOK, VersionsOK
<1> QED BY <1>5, <1>8, <1>9, <1>10 DEF ContentOK

\* The steps that insert a version whose contents are accounted for.
LEMMA InsertKeepsVersions ==
  ASSUME IInv, VersionsOK,
         NEW v \in Ids \ versions, NEW b \in Branches, NEW parent \in versions,
         NEW merges \in SUBSET versions, NEW data \in SUBSET AllVersions,
         InsertVersion(v, b, parent, merges, data), torn \subseteq torn',
         data \subseteq anc[parent] \cup torn' \cup UNION {anc[u] : u \in merges}
  PROVE  /\ VersionsOK' /\ versions' = versions \cup {v} /\ content'[v] = {v} \cup data
         /\ \A u \in versions : content'[u] = content[u] /\ anc'[u] = anc[u]
         /\ \A u \in AllVersions : content[u] \subseteq content'[u]
<1>1. TypeOK /\ GraphOK /\ v \in AllVersions \ versions
    BY DEF IInv, AllVersions
<1>2. GraphGrows /\ versions' = versions \cup {v}
    BY <1>1, InsertKeepsGraph
<1>3. /\ anc'[v] = {v} \cup anc[parent] \cup UNION {anc[u] : u \in merges}
      /\ content'[v] = {v} \cup data
      /\ \A u \in AllVersions : u # v => content'[u] = content[u]
    BY <1>1 DEF InsertVersion, TypeOK
<1>4. \A u \in versions : content'[u] = content[u] /\ anc'[u] = anc[u]
    BY <1>2 DEF GraphGrows
<1>5. content'[v] \subseteq anc'[v] \cup torn'
    BY <1>3
<1>6. VersionsOK'
  <2>1. \A u \in versions' : u \in content'[u] /\ content'[u] \subseteq anc'[u] \cup torn'
      BY <1>2, <1>3, <1>4, <1>5 DEF VersionsOK
  <2>2. \A u \in AllVersions \ versions' : content'[u] = {}
      BY <1>2, <1>3 DEF VersionsOK
  <2> QED BY <2>1, <2>2 DEF VersionsOK
<1>7. \A u \in AllVersions : content[u] \subseteq content'[u]
    BY <1>1, <1>3 DEF VersionsOK
<1> QED BY <1>2, <1>3, <1>4, <1>6, <1>7

\* A pull: the new version contains what its parent does.
LEMMA PullKeepsContent ==
  ASSUME IInv, ContentOK, NEW p \in Procs,
         NEW v \in Ids, NEW b \in Branches, NEW parent \in AllVersions, Pull(p, v, b, parent)
  PROVE  ContentOK'
<1> DEFINE data == content[parent]
           merges == {}
<1>1. TypeOK /\ ProcessesOK /\ CommandOK(p) /\ VersionsOK
    BY DEF IInv, ContentOK
<1>2. /\ v \in Ids \ versions /\ parent \in versions /\ InsertVersion(v, b, parent, merges, data)
      /\ OthersStill(p) /\ pc[p] = "loaded" /\ pc'[p] = "idle"
      /\ UNCHANGED <<tip, stage, files, cachedTip, torn, lost>>
    BY <1>1 DEF Pull, InsertVersion, Unused, Goto, TypeOK, localVars, OthersStill
<1>3. /\ merges \in SUBSET versions /\ data \in SUBSET AllVersions
      /\ data \subseteq anc[parent] \cup torn' \cup UNION {anc[u] : u \in merges}
    BY <1>1, <1>2 DEF VersionsOK, TypeOK
<1> HIDE DEF data, merges
<1>4. /\ VersionsOK' /\ versions \subseteq versions'
      /\ \A u \in versions : content'[u] = content[u] /\ anc'[u] = anc[u]
      /\ \A u \in AllVersions : content[u] \subseteq content'[u]
    BY <1>1, <1>2, <1>3, InsertKeepsVersions
<1>5. Underway \subseteq Underway' /\ AtTip \subseteq AtTip'
    BY <1>2, <1>4, AccountsGrow DEF Running
<1>6. Accounted \subseteq Accounted'
  <2>1. stage.merges \subseteq versions /\ stage' = stage
      BY <1>1, <1>2 DEF ProcessesOK
  <2>2. Staged \subseteq Staged'
      BY <1>4, <2>1 DEF Staged
  <2> QED BY <1>2, <1>5, <2>2 DEF Accounted
<1>7. Named \subseteq Named'
  <2>1. \A q \in Procs : pc[q] = "rebased" => pc'[q] = "rebased" /\ target'[q] = target[q]
      BY <1>2 DEF OthersStill
  <2> QED BY <1>2, <1>4, <2>1 DEF Named
<1>8. \A q \in Procs : q # p => CommandOK(q)'
    BY <1>2, <1>4, <1>5, <1>6, <1>7, OthersKept
<1>9. CommandOK(p)'
  <2>1. cachedTip'[p] \in Named'
      BY <1>1, <1>2, <1>7 DEF CommandOK
  <2> QED BY <1>2, <2>1 DEF CommandOK
<1>10. files' \subseteq Accounted' \cup AtTip'
    BY <1>2, <1>5, <1>6 DEF ContentOK
<1> QED BY <1>4, <1>8, <1>9, <1>10 DEF ContentOK

\* A commit: what is recorded of the files came with the Tip or with a staged
\* merge, which are its parents if the commit knows of them.
LEMMA CommitKeepsContent ==
  ASSUME IInv, ContentOK, NEW p \in Procs, CommitDatabase(p)
  PROVE  ContentOK'
<1> DEFINE v == target[p]
           parent == cachedTip[p]
           data == content[parent] \cup (Recorded \ {Edit})
           merges == mergeIDs[p]
<1>1. TypeOK /\ ProcessesOK /\ ProcessOK(p) /\ CommandOK(p) /\ VersionsOK
    BY DEF IInv, ProcessesOK, ContentOK
<1>2. /\ InsertVersion(v, Trunk, parent, merges, data) /\ torn' = torn \cup Unaware(p)
      /\ OthersStill(p) /\ pc[p] = "stored" /\ pc'[p] = "saved" /\ ~DatabaseBusy
      /\ UNCHANGED <<tip, stage, files, cachedTip, target, lost>>
    BY <1>1 DEF CommitDatabase, InsertVersion, Goto, TypeOK, localVars, OthersStill
<1>3. /\ v \in Ids \ versions /\ parent \in versions /\ merges \in SUBSET versions
      /\ data \in SUBSET AllVersions
    BY <1>1, <1>2 DEF ProcessOK, Choosing, TypeOK, Recorded
<1>4. torn \subseteq torn' /\ Underway \subseteq torn' /\ Passed(p) \subseteq torn'
      /\ \A m \in stage.merges \ merges : anc[m] \subseteq torn'
    BY <1>2 DEF Unaware
<1>5. AtTip \subseteq content[parent] \cup torn'
  <2>1. AtTip = content[tip]
      BY <1>2, UnderwayOf DEF DatabaseBusy
  <2> QED BY <1>4, <2>1 DEF Passed
<1>6. Staged \subseteq stage.changes \cap (torn' \cup UNION {anc[u] : u \in merges})
    BY <1>4 DEF Staged
<1>7. files \subseteq {Edit} \cup Staged \cup content[parent] \cup torn'
    BY <1>4, <1>5 DEF ContentOK, Accounted
<1>8. data \subseteq anc[parent] \cup torn' \cup UNION {anc[u] : u \in merges}
  <2>1. content[parent] \subseteq anc[parent] \cup torn'
      BY <1>1, <1>3, <1>4 DEF VersionsOK
  <2>2. files \ {Edit} \subseteq anc[parent] \cup torn' \cup UNION {anc[u] : u \in merges}
      BY <1>6, <1>7, <2>1
  <2> QED BY <2>1, <2>2 DEF Recorded
<1>9. files \subseteq {Edit} \cup data \cup torn'
    BY <1>7 DEF Recorded, Staged
<1> HIDE DEF data, merges, v, parent
<1>10. /\ VersionsOK' /\ versions \subseteq versions' /\ content'[v] = {v} \cup data
       /\ \A u \in versions : content'[u] = content[u] /\ anc'[u] = anc[u]
       /\ \A u \in AllVersions : content[u] \subseteq content'[u]
    BY <1>1, <1>2, <1>3, <1>4, <1>8, TrunkAssumption, InsertKeepsVersions
<1>11. Underway \subseteq Underway' /\ AtTip \subseteq AtTip'
    BY <1>2, <1>10, AccountsGrow DEF Running
<1>12. Accounted \subseteq Accounted'
  <2>1. stage.merges \subseteq versions /\ stage' = stage
      BY <1>1, <1>2 DEF ProcessesOK
  <2>2. Staged \subseteq Staged'
      BY <1>10, <2>1 DEF Staged
  <2> QED BY <1>4, <1>11, <2>2 DEF Accounted
<1>13. Named \subseteq Named'
  <2>1. \A q \in Procs : pc[q] = "rebased" => pc'[q] = "rebased" /\ target'[q] = target[q]
      BY <1>2 DEF OthersStill
  <2> QED BY <1>2, <1>10, <2>1 DEF Named
<1>14. \A q \in Procs : q # p => CommandOK(q)'
    BY <1>2, <1>4, <1>10, <1>11, <1>12, <1>13, OthersKept
<1>15. CommandOK(p)'
  <2>1. cachedTip'[p] \in Named'
      BY <1>1, <1>2, <1>13 DEF CommandOK
  <2>2. tip' # target'[p] /\ \A q \in Procs : cachedTip'[q] # target'[p]
      BY <1>1, <1>2 DEF CommandOK
  <2>3. files' \subseteq {Edit} \cup content'[target'[p]] \cup torn' \cup Underway'
      BY <1>2, <1>9, <1>10 DEF v
  <2>4. ASSUME NEW q \in Procs
        PROVE  /\ pc'[q] # "rebased"
               /\ pc'[q] = "staged" => content'[target'[q]] \subseteq torn'
    <3>1. pc'[q] # "rebased"
        BY <1>2 DEF DatabaseBusy, OthersStill
    <3>2. ASSUME pc'[q] = "staged" PROVE content'[target'[q]] \subseteq torn'
      <4>1. pc[q] = "staged" /\ Running(q) /\ target'[q] = target[q]
          BY <1>2, <3>2 DEF OthersStill, Running
      <4>2. target[q] \in versions /\ content[target[q]] \subseteq Underway
          BY <4>1, TornTyped, UnderwayOf
      <4> QED BY <1>4, <1>10, <4>1, <4>2
    <3> QED BY <3>1, <3>2
  <2> QED BY <1>2, <2>1, <2>2, <2>3, <2>4 DEF CommandOK
<1>16. files' \subseteq Accounted' \cup AtTip'
    BY <1>2, <1>11, <1>12 DEF ContentOK
<1> QED BY <1>10, <1>14, <1>15, <1>16 DEF ContentOK

\* The end of a rebase: its version contains what the one it replaces does.
LEMMA RebaseCommitKeepsContent ==
  ASSUME IInv, ContentOK, NEW p \in Procs, NEW parent \in AllVersions, RebaseCommit(p, parent)
  PROVE  ContentOK'
<1> DEFINE v == target[p]
           current == cachedTip[p]
           data == content[current]
           merges == {current}
<1>1. TypeOK /\ ProcessesOK /\ ProcessOK(p) /\ CommandOK(p) /\ VersionsOK /\ GraphOK
    BY DEF IInv, ProcessesOK, ContentOK
<1>2. /\ InsertVersion(v, Trunk, parent, merges, data) /\ parent \in line[current]
      /\ OthersStill(p) /\ pc[p] = "rebased" /\ pc'[p] = "idle"
      /\ UNCHANGED <<tip, stage, files, cachedTip, lost, torn>>
    BY <1>1, LeaveOK DEF RebaseCommit, InsertVersion, localVars
<1>3. v \in Ids \ versions /\ current \in versions
    BY <1>1, <1>2 DEF ProcessOK, Choosing
<1>4. /\ parent \in versions /\ merges \in SUBSET versions /\ data \in SUBSET AllVersions
      /\ data \subseteq anc[parent] \cup torn' \cup UNION {anc[u] : u \in merges}
    BY <1>1, <1>2, <1>3 DEF GraphOK, VersionsOK, TypeOK
<1>5. tip = v \/ data \subseteq torn
    BY <1>1, <1>2 DEF CommandOK
<1>6. v \in AllVersions
    BY <1>3 DEF AllVersions
<1> HIDE DEF data, merges, v
<1>7. /\ VersionsOK' /\ versions' = versions \cup {v} /\ content'[v] = {v} \cup data
      /\ \A u \in versions : content'[u] = content[u] /\ anc'[u] = anc[u]
      /\ \A u \in AllVersions : content[u] \subseteq content'[u]
    BY <1>1, <1>2, <1>3, <1>4, TrunkAssumption, InsertKeepsVersions
<1>8. Underway \subseteq Underway' /\ AtTip \subseteq AtTip' \cup torn'
  <2>1. Underway \subseteq Underway' /\ AtTip \subseteq AtTip' \cup data
      BY <1>2, <1>7, AccountsGrow DEF Running, data
  <2>2. content'[tip'] \subseteq AtTip'
      BY DEF AtTip
  <2>3. data \subseteq AtTip' \cup torn'
      BY <1>2, <1>5, <1>7, <2>2
  <2> QED BY <2>1, <2>3
<1>9. Accounted \subseteq Accounted' /\ torn' \subseteq Accounted'
  <2>1. stage.merges \subseteq versions /\ stage' = stage
      BY <1>1, <1>2 DEF ProcessesOK
  <2>2. Staged \subseteq Staged'
      BY <1>7, <2>1 DEF Staged
  <2> QED BY <1>2, <1>8, <2>2 DEF Accounted
<1>10. Named \subseteq Named'
  <2>1. \A q \in Procs : pc[q] = "rebased" =>
          target[q] \in versions' \/ (pc'[q] = "rebased" /\ target'[q] = target[q])
      BY <1>2, <1>7 DEF OthersStill, v
  <2> QED BY <1>2, <1>7, <2>1 DEF Named
<1>11. \A q \in Procs : q # p => CommandOK(q)'
    BY <1>2, <1>7, <1>8, <1>9, <1>10, OthersKept
<1>12. CommandOK(p)'
  <2>1. cachedTip'[p] \in Named'
      BY <1>1, <1>2, <1>10 DEF CommandOK
  <2> QED BY <1>2, <2>1 DEF CommandOK
<1>13. files' \subseteq Accounted' \cup AtTip'
    BY <1>2, <1>8, <1>9 DEF ContentOK
<1> QED BY <1>7, <1>11, <1>12, <1>13 DEF ContentOK

\* Every step keeps the account of what versions and files contain.
LEMMA ContentKept == IInv /\ ContentOK /\ [Next]_vars => ContentOK'
<1> SUFFICES ASSUME IInv, ContentOK, [Next]_vars PROVE ContentOK'
    OBVIOUS
<1>1. CASE UserEdits \/ UNCHANGED vars
  <2>1. /\ files' \subseteq files \cup {Edit}
        /\ UNCHANGED <<versions, anc, content, lost, torn, tip, stage, processVars>>
      BY <1>1 DEF UserEdits, vars, databaseVars, versionVars, localVars
  <2>2. UNCHANGED <<pc, cachedTip, target>>
      BY <2>1 DEF processVars
  <2>3. \A q \in Procs : Running(q)' = Running(q)
      BY <2>2 DEF Running
  <2>4. Underway' = Underway
      BY <2>1, <2>2, <2>3 DEF Underway, Contents, Running
  <2>5. AtTip' = AtTip /\ Named' = Named
      BY <2>1, <2>2 DEF AtTip, Contents, Named
  <2>6. Accounted' = Accounted /\ files' \subseteq Accounted \cup files
      BY <2>1, <2>4 DEF Accounted, Staged
  <2>7. VersionsOK' /\ files' \subseteq Accounted' \cup AtTip'
      BY <2>1, <2>5, <2>6 DEF ContentOK, VersionsOK
  <2>8. ASSUME NEW q \in Procs PROVE CommandOK(q)'
    <3>1. CommandOK(q)
        BY DEF ContentOK
    <3> QED BY <2>1, <2>2, <2>4, <2>5, <2>6, <3>1 DEF CommandOK
  <2> QED BY <2>7, <2>8 DEF ContentOK
<1>2. ASSUME NEW p \in Procs, Commit(p) PROVE ContentOK'
    BY <1>2, ShortStepsKeepContent, CommitKeepsContent, FinishKeepsContent DEF Commit
<1>3. ASSUME NEW p \in Procs, Merge(p) PROVE ContentOK'
    BY <1>3, ShortStepsKeepContent, MergeKeepsContent, StageMergeKeepsContent,
       MoveTipKeepsContent DEF Merge
<1>4. ASSUME NEW p \in Procs, Rebase(p) PROVE ContentOK'
    BY <1>4, RebaseTipKeepsContent, RebaseCommitKeepsContent DEF Rebase
<1>5. ASSUME NEW p \in Procs, Other(p) PROVE ContentOK'
  <2>1. CASE Die(p)
    <3>1. CommandOf(p) # "none" /\ (CommandOf(p) = "rebase" => pc[p] = "rebased")
      <4>1. Fragile \subseteq {"commit", "merge", "update", "rebase"}
          BY CommandsAssumption
      <4> QED BY <2>1, <4>1 DEF Die, CommandOf
    <3> QED BY <2>1, <3>1, ShortStepsKeepContent, DieKeepsContent
  <2> QED BY <1>5, <2>1, ShortStepsKeepContent, RecoverTipKeepsContent, PullKeepsContent DEF Other
<1> QED BY <1>1, <1>2, <1>3, <1>4, <1>5 DEF Next

\* What a version contains it has as an ancestor, or torn has it, whatever
\* commands interleave, pull, rebase, fail and die: the files a merge has
\* changed are staged before the merge is, and a commit takes both.
THEOREM MergesAreRecorded == Spec => []MergeRecorded
<1>1. Init => ContentOK
  <2> SUFFICES ASSUME Init PROVE ContentOK
      OBVIOUS
  <2>1. Root \in AllVersions /\ content[Root] = {Root} /\ anc[Root] = {Root} /\ versions = {Root}
      BY DEF Init, AllVersions
  <2>2. VersionsOK
      BY <2>1 DEF Init, VersionsOK
  <2>3. files \subseteq Accounted \cup AtTip
      BY <2>1 DEF Init, AtTip
  <2>4. ASSUME NEW p \in Procs PROVE CommandOK(p)
    <3>1. pc[p] = "idle" /\ cachedTip[p] = Root
        BY DEF Init
    <3> QED BY <2>1, <3>1 DEF CommandOK, Named
  <2> QED BY <2>2, <2>3, <2>4 DEF ContentOK
<1>2. IInv /\ ContentOK /\ [Next]_vars => (IInv /\ ContentOK)'
    BY ContentKept, NextKeeps
<1>3. ContentOK => MergeRecorded
    BY DEF ContentOK, VersionsOK, MergeRecorded
<1> QED BY <1>1, <1>2, <1>3, InitIInv, PTL DEF Spec
=============================================================================
