----------------------------- MODULE PullClient -----------------------------
(***************************************************************************)
(* Pulling from a vault into a repository (vsr pull, vsr pull --all).      *)
(* One connection pulls one branch after another.  A pull of a branch has  *)
(* two parts:                                                              *)
(*                                                                         *)
(*  - without any lock on either side, the server reads the head of the    *)
(*    branch and asks, chunk by chunk, which versions of its history the   *)
(*    repository has; it sends the others, the branches that are new and   *)
(*    the heads of those, which the client keeps in memory;                *)
(*  - PullVersions, under RunLocked and in one WorkspaceDB transaction,    *)
(*    works out the new heads of the branches it has got versions for,     *)
(*    merges a local and a remote head where it can (MergeRemote), imports *)
(*    and commits, or rolls back.                                          *)
(*                                                                         *)
(* In the meantime others push to the vault, and other processes commit in *)
(* the repository (under RunLocked) and push from it.  Records, tags and   *)
(* the branch journal are not part of this module, nor are branches that   *)
(* were deleted; whether MergeRemote finds a conflict is a                 *)
(* nondeterministic choice.                                                *)
(***************************************************************************)
EXTENDS Naturals, FiniteSets

CONSTANTS Versions,   \* the versions that people commit (bound)
          MergeIds,   \* the versions that automerges create (bound)
          Branches, Trunk,
          Root,       \* the initial version, on Trunk
          None

AllVersions == Versions \cup MergeIds \cup {Root}

ASSUME TrunkAssumption == Trunk \in Branches
ASSUME IdsAssumption ==
  /\ Root \notin Versions \cup MergeIds
  /\ Versions \cap MergeIds = {}
ASSUME NoneAssumption == None \notin AllVersions \cup Branches

VARIABLES
  \* the graph of all the versions written anywhere
  made,       \* the versions that exist
  up,         \* up[v]: the parent and the merge sources of v
  anc,        \* anc[v]: v and its ancestors, what GetAncestry walks to
  branchOf,   \* branchOf[v]: the branch v was committed on
  origin,     \* origin[b]: the version branch b was created at, or None
  chain,      \* chain[b]: b, its parent branch, and so on
  \* the vault
  vaultVersions, vaultHeads, vaultBranches,
  \* the repository: what its database has committed
  versions, heads, branches,
  \* the connection: "off", "query", "sent", "accept", "merge", "open"
  pc,
  target,     \* the branch being pulled
  tip,        \* its head, as the server read it
  frontier,   \* the versions of the next PushObjectQuery
  pushed,     \* PushedVersions: they are kept from one branch to the next
  received,   \* ReceivedBranches: likewise
  headInfo,   \* RemoteHeadInfo: likewise
  \* the transaction of PullVersions
  todo,       \* the versions the loop has still to consider
  temp,       \* temp[b]: temporaryHeads ({}: no entry)
  merged      \* autoMerged

graphVars == <<made, up, anc, branchOf, origin, chain>>
vaultVars == <<vaultVersions, vaultHeads, vaultBranches>>
repoVars == <<versions, heads, branches>>
sentVars == <<target, tip, frontier, pushed, received, headInfo>>
importVars == <<todo, temp, merged>>
vars == <<graphVars, vaultVars, repoVars, pc, sentVars, importVars>>

NoTemp == [b \in Branches |-> {}]
NoInfo == [b \in Branches |-> None]
RootHead == [b \in Branches |-> IF b = Trunk THEN {Root} ELSE {}]

Init ==
  /\ made = {Root}
  /\ up = [v \in AllVersions |-> {}]
  /\ anc = [v \in AllVersions |-> IF v = Root THEN {Root} ELSE {}]
  /\ branchOf = [v \in AllVersions |-> IF v = Root THEN Trunk ELSE None]
  /\ origin = [b \in Branches |-> IF b = Trunk THEN Root ELSE None]
  /\ chain = [b \in Branches |-> IF b = Trunk THEN {Trunk} ELSE {}]
  /\ vaultVersions = {Root} /\ vaultHeads = RootHead /\ vaultBranches = {Trunk}
  /\ versions = {Root} /\ heads = RootHead /\ branches = {Trunk}
  /\ pc = "off"
  /\ target = None /\ tip = None
  /\ frontier = {} /\ pushed = {} /\ received = {}
  /\ headInfo = NoInfo
  /\ todo = {} /\ temp = NoTemp /\ merged = {}

----------------------------------------------------------------------------
(* What others do *)

\* A new version v on branch b with the given parent and merge sources.
NewVersion(v, b, sources) ==
  /\ made' = made \cup {v}
  /\ up' = [up EXCEPT ![v] = sources]
  /\ anc' = [anc EXCEPT ![v] = {v} \cup UNION {anc[u] : u \in sources}]
  /\ branchOf' = [branchOf EXCEPT ![v] = b]
  /\ UNCHANGED <<origin, chain>>

\* The versions a commit on branch b can have as its parent: those of the
\* branch, or the one it was created at.
OnBranch(b) == {v \in made : branchOf[v] = b \/ v = origin[b]}

\* Somebody writes a version on branch b, on top of a version a database has
\* stored, and may have merged another one into it (source = parent: none).
NewCommit(v, b, parent, source, stored) ==
  /\ v \in Versions \ made
  /\ parent \in stored \cap OnBranch(b)
  /\ source \in stored
  /\ source = parent \/ source \notin anc[parent]
  /\ NewVersion(v, b, {parent, source})

\* Somebody creates a branch in the vault.
VaultBranch(b, on, at) ==
  /\ origin[b] = None
  /\ on \in vaultBranches
  /\ at \in vaultVersions \cap OnBranch(on)
  /\ origin' = [origin EXCEPT ![b] = at]
  /\ chain' = [chain EXCEPT ![b] = {b} \cup chain[on]]
  /\ vaultBranches' = vaultBranches \cup {b}
  /\ vaultHeads' = [vaultHeads EXCEPT ![b] = {at}]
  /\ UNCHANGED <<made, up, anc, branchOf, vaultVersions, repoVars, pc, sentVars,
                 importVars>>

\* The vault gets a version of somebody else: the head that was the parent
\* moves, without one (--force) a head is added, and the head that was merged is
\* deleted.
VaultCommit(v, b, parent, source) ==
  /\ b \in vaultBranches
  /\ NewCommit(v, b, parent, source, vaultVersions)
  /\ vaultVersions' = vaultVersions \cup {v}
  /\ vaultHeads' = [vaultHeads EXCEPT ![b] = (@ \ {parent, source}) \cup {v}]
  /\ UNCHANGED <<vaultBranches, repoVars, pc, sentVars, importVars>>

\* RunLocked is held from BeginImport to the commit or the rollback.
Locked == pc \in {"accept", "merge"}

\* Another process commits in the repository.
LocalCommit(v, b, parent, source) ==
  /\ ~Locked
  /\ b \in branches
  /\ NewCommit(v, b, parent, source, versions)
  /\ versions' = versions \cup {v}
  /\ heads' = [heads EXCEPT ![b] = (@ \ {parent, source}) \cup {v}]
  /\ UNCHANGED <<branches, vaultVars, pc, sentVars, importVars>>

\* The maximal versions of a set: those that are no ancestors of others.
Maximal(set) == {v \in set : \A w \in set \ {v} : v \notin anc[w]}

\* Another process pushes head h of the repository: the vault takes in its
\* history, and every branch has one head after that, or the push is rejected.
\* (VaultPush shows how; the vault's own automerges are versions of others.)
Push(b, h) ==
  LET new == anc[h] \ vaultVersions
      after(c) == Maximal(vaultHeads[c] \cup {v \in new : branchOf[v] = c})
      changed == {c \in vaultBranches : after(c) # vaultHeads[c]}
  IN  /\ b \in vaultBranches
      /\ h \in heads[b]
      /\ new # {}
      /\ \A c \in changed : Cardinality(after(c)) = 1
      /\ vaultVersions' = vaultVersions \cup new
      /\ vaultHeads' = [c \in Branches |->
                          IF c \in changed THEN after(c) ELSE vaultHeads[c]]
      /\ UNCHANGED <<graphVars, vaultBranches, repoVars, pc, sentVars, importVars>>

----------------------------------------------------------------------------
(* The first part of a pull, without any lock *)

\* Faulty variant of StartPull: the server goes on after its "Unknown branch".
StartPull_AnyBranch(b) ==
  /\ pc \in {"off", "open"}
  /\ target' = b
  /\ tip' \in IF vaultHeads[b] = {} THEN {None} ELSE vaultHeads[b]
  /\ frontier' = {tip'} \ pushed
  /\ pc' = "query"
  /\ UNCHANGED <<graphVars, vaultVars, repoVars, pushed, received, headInfo, importVars>>

\* The server reads the head of the branch.
StartPull(b) ==
  /\ pc \in {"off", "open"}
  /\ b \in vaultBranches
  /\ Cardinality(vaultHeads[b]) = 1
  /\ target' = b
  /\ tip' \in vaultHeads[b]
  /\ frontier' = {tip'} \ pushed
  /\ pc' = "query"
  /\ UNCHANGED <<graphVars, vaultVars, repoVars, pushed, received, headInfo, importVars>>

\* Faulty variant of QueryChunk: the merge sources of the last version are not
\* walked to.
QueryChunk_ParentOnly ==
  /\ pc = "query"
  /\ frontier # {}
  /\ LET missing == frontier \ versions IN
       /\ pushed' = pushed \cup missing
       /\ frontier' = UNION {{CHOOSE u \in up[v] : TRUE} : v \in missing \ {Root}}
                        \ (pushed \cup missing)
  /\ UNCHANGED <<graphVars, vaultVars, repoVars, pc, target, tip, received,
                 headInfo, importVars>>

\* One PushObjectQuery about a chunk of the history: the versions that the
\* repository has, at this instant, end the walk; the others are to be sent,
\* and their parents and merge sources are asked next.
QueryChunk ==
  /\ pc = "query"
  /\ frontier # {}
  /\ LET missing == frontier \ versions IN
       /\ pushed' = pushed \cup missing
       /\ frontier' = (UNION {up[v] : v \in missing}) \ (pushed \cup missing)
  /\ UNCHANGED <<graphVars, vaultVars, repoVars, pc, target, tip, received,
                 headInfo, importVars>>

\* The server sends what the repository lacked: the branches, each with its
\* head as it is now, unless there are several, and the versions.
SendVersions ==
  /\ pc = "query"
  /\ frontier = {}
  /\ LET sent == (chain[target] \cup UNION {chain[branchOf[v]] : v \in pushed})
                   \ (branches \cup received)
     IN  /\ received' = received \cup sent
         /\ headInfo' = [b \in Branches |->
              IF b \in sent /\ Cardinality(vaultHeads[b]) = 1
                THEN CHOOSE h \in vaultHeads[b] : TRUE
                ELSE headInfo[b]]
  /\ pc' = "sent"
  /\ UNCHANGED <<graphVars, vaultVars, repoVars, target, tip, frontier, pushed,
                 importVars>>

----------------------------------------------------------------------------
(* PullVersions, under RunLocked and inside a WorkspaceDB transaction *)

NothingReceived == pushed = {} /\ received = {}

\* Nothing came: the repository is up to date.
UpToDate ==
  /\ pc = "sent"
  /\ NothingReceived
  /\ pc' = "open"
  /\ UNCHANGED <<graphVars, vaultVars, repoVars, sentVars, importVars>>

BeginImport ==
  /\ pc = "sent"
  /\ ~NothingReceived
  /\ todo' = pushed
  /\ pc' = IF pushed = {} THEN "merge" ELSE "accept"
  /\ UNCHANGED <<graphVars, vaultVars, repoVars, sentVars, temp, merged>>

\* The heads of the branch in this transaction, before version v is considered.
StartHeads(b, v) ==
  IF temp[b] # {} THEN temp[b]
  ELSE IF heads[b] = {} THEN {v}
  ELSE heads[b]

\* What v makes of the heads hs: nothing new when one of them reaches it; else
\* it takes the place of all those it reaches, or comes beside the others.
NewHeads(hs, v) ==
  IF \E h \in hs : v \in anc[h] THEN hs
  ELSE {h \in hs : h \notin anc[v]} \cup {v}

\* Faulty variant of Consider: heads the version does not reach are dropped.
Consider_Overwrites(v) ==
  /\ pc = "accept"
  /\ v \in todo
  /\ tip \in todo => v = tip
  /\ LET b == branchOf[v] IN
       temp' = [temp EXCEPT ![b] =
         IF \E h \in StartHeads(b, v) : v \in anc[h] THEN StartHeads(b, v) ELSE {v}]
  /\ todo' = todo \ {v}
  /\ pc' = IF todo' = {} THEN "merge" ELSE "accept"
  /\ UNCHANGED <<graphVars, vaultVars, repoVars, sentVars, merged>>

\* Faulty variant of Consider: only one head is replaced, as AcceptHeads does.
Consider_ReplacesOne(v) ==
  /\ pc = "accept"
  /\ v \in todo
  /\ tip \in todo => v = tip
  /\ LET b == branchOf[v]
         hs == StartHeads(b, v)
         before == {h \in hs : h \in anc[v]}
     IN  temp' = [temp EXCEPT ![b] =
           IF \E h \in hs : v \in anc[h] THEN hs
           ELSE (hs \ {CHOOSE h \in before \cup {None} : before # {} => h # None}) \cup {v}]
  /\ todo' = todo \ {v}
  /\ pc' = IF todo' = {} THEN "merge" ELSE "accept"
  /\ UNCHANGED <<graphVars, vaultVars, repoVars, sentVars, merged>>

\* One turn of the loop over the pushed versions, in the reverse of the order
\* in which they came: the tip first.  A version on a branch the repository
\* does not have, nor received, is passed over.
Consider(v) ==
  /\ pc = "accept"
  /\ v \in todo
  /\ tip \in todo => v = tip
  /\ LET b == branchOf[v] IN
       temp' = IF b \notin branches \cup received THEN temp
               ELSE [temp EXCEPT ![b] = NewHeads(StartHeads(b, v), v)]
  /\ todo' = todo \ {v}
  /\ pc' = IF todo' = {} THEN "merge" ELSE "accept"
  /\ UNCHANGED <<graphVars, vaultVars, repoVars, sentVars, merged>>

\* A branch with several heads now, one of them from the vault: MergeRemote
\* creates a version on top of the local head with the latest timestamp, which
\* clocks of several machines give, with the remote one as its merge source.
\* It replaces both.  (The filter of localVersions lets every local head pass.)
Automerge(b, local, m) ==
  /\ pc = "merge"
  /\ Cardinality(temp[b]) > 1
  /\ temp[b] \cap merged = {}
  /\ local \in heads[b]
  /\ m \in MergeIds \ made
  /\ \E remote \in temp[b] :
       /\ temp[b] \ heads[b] = {remote}
       /\ NewVersion(m, branchOf[local], {local, remote})
       /\ temp' = [temp EXCEPT ![b] = (@ \ {local, remote}) \cup {m}]
  /\ merged' = merged \cup {m}
  /\ UNCHANGED <<vaultVars, repoVars, pc, sentVars, todo>>

\* The rest of the branches with several heads keep them: MergeRemote found a
\* conflict, or there is none to merge with.  The versions are imported, a new
\* branch without versions gets the head the vault named, and the transaction
\* commits.
Commit ==
  /\ pc = "merge"
  /\ versions' = versions \cup pushed \cup merged
  /\ branches' = branches \cup received
  /\ heads' = [b \in Branches |->
                 IF temp[b] # {} THEN temp[b]
                 ELSE IF received # {} /\ b \in branches' /\ heads[b] = {}
                         /\ headInfo[b] \in versions'
                        THEN {headInfo[b]}
                 ELSE heads[b]]
  /\ headInfo' = [b \in Branches |->
                    IF received # {} /\ temp[b] # {} THEN None ELSE headInfo[b]]
  /\ todo' = {} /\ temp' = NoTemp /\ merged' = {}
  /\ pc' = "open"
  /\ UNCHANGED <<graphVars, vaultVars, target, tip, frontier, pushed, received>>

EndSession ==
  /\ pc' = "off"
  /\ target' = None /\ tip' = None
  /\ frontier' = {} /\ pushed' = {} /\ received' = {}
  /\ headInfo' = NoInfo
  /\ todo' = {} /\ temp' = NoTemp /\ merged' = {}
  /\ UNCHANGED <<graphVars, vaultVars, repoVars>>

\* The branch has several heads in the vault: GetBranchHeadVersion throws, and
\* the server closes the connection.
PullRefused(b) ==
  /\ pc \in {"off", "open"}
  /\ Cardinality(vaultHeads[b]) > 1
  /\ EndSession

\* The connection ends: after its last branch, or because it broke, a handler
\* threw, or the user refused the journal.  What was not committed is rolled
\* back.
Disconnect ==
  /\ pc # "off"
  /\ EndSession

----------------------------------------------------------------------------
Others ==
  \/ \E b, on \in Branches, at \in AllVersions : VaultBranch(b, on, at)
  \/ \E v \in Versions, b \in Branches, p, s \in AllVersions :
       VaultCommit(v, b, p, s) \/ LocalCommit(v, b, p, s)
  \/ \E b \in Branches, h \in AllVersions : Push(b, h)

Pull ==
  \/ QueryChunk \/ SendVersions \/ UpToDate \/ BeginImport \/ Commit
  \/ \E v \in AllVersions : Consider(v)
  \/ \E b \in Branches, l \in AllVersions, m \in MergeIds : Automerge(b, l, m)

Next ==
  \/ Others
  \/ \E b \in Branches : StartPull(b) \/ PullRefused(b)
  \/ Pull
  \/ Disconnect

Spec == Init /\ [][Next]_vars

----------------------------------------------------------------------------
(* Properties *)

\* Every variable holds a value of its kind.
TypeOK ==
  /\ made \subseteq AllVersions
  /\ up \in [AllVersions -> SUBSET AllVersions]
  /\ anc \in [AllVersions -> SUBSET AllVersions]
  /\ branchOf \in [AllVersions -> Branches \cup {None}]
  /\ origin \in [Branches -> AllVersions \cup {None}]
  /\ chain \in [Branches -> SUBSET Branches]
  /\ vaultVersions \subseteq AllVersions /\ versions \subseteq AllVersions
  /\ vaultHeads \in [Branches -> SUBSET AllVersions]
  /\ heads \in [Branches -> SUBSET AllVersions]
  /\ vaultBranches \subseteq Branches /\ branches \subseteq Branches
  /\ pc \in {"off", "query", "sent", "accept", "merge", "open"}
  /\ target \in Branches \cup {None}
  /\ tip \in AllVersions \cup {None}
  /\ frontier \subseteq AllVersions /\ pushed \subseteq AllVersions
  /\ received \subseteq Branches
  /\ headInfo \in [Branches -> AllVersions \cup {None}]
  /\ todo \subseteq AllVersions
  /\ temp \in [Branches -> SUBSET AllVersions]
  /\ merged \subseteq MergeIds

\* A pull that came to its end delivered: the head of the branch, as the server
\* read it, is in the repository with its whole history and under a head of the
\* branch it was committed on, although what the repository had was asked chunk
\* by chunk and without a lock, and other branches were pulled before on the
\* same connection.
PulledIsStored ==
  pc = "open" =>
    /\ anc[tip] \subseteq versions
    /\ \E h \in heads[branchOf[tip]] : tip \in anc[h]

\* A pull leaves no head behind that another head of the branch descends from:
\* the versions that came and the automerges replace every head they reach,
\* also those that other processes committed during the pull.  (Only a commit
\* with --force may leave one.)
HeadsApart ==
  [][pc = "merge" /\ pc' = "open" =>
       \A b \in Branches : heads[b] = Maximal(heads[b]) => heads'[b] = Maximal(heads'[b])]_vars

\* The repository keeps the promise of VersionStore: a pull takes in its
\* versions and automerges in one step, each with its whole history and under
\* a head of its branch, and rewinds no head.
Repository == INSTANCE VersionStore WITH written <- made, stored <- versions

RepositoryKeepsPromise == Repository!Spec
=============================================================================
