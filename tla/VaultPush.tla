------------------------------ MODULE VaultPush ------------------------------
(***************************************************************************)
(* Pushing versions to a vault.  Clients commit versions in their own      *)
(* repositories and push them over a connection each; the server serves    *)
(* every connection with a thread and an Area of its own, on one version   *)
(* database.  A push has two parts:                                        *)
(*                                                                         *)
(*  - without any lock, the client asks which versions the vault has       *)
(*    (PushObjectQuery), chunk by chunk, and sends the others, which the   *)
(*    connection keeps in memory (PushBranch, SendBranchHeads,             *)
(*    PushVersions);                                                       *)
(*  - PushHead, under RunLocked and in one WorkspaceDB transaction, works  *)
(*    out the new heads (AcceptHeads), merges two heads of a branch into   *)
(*    one where it can (MergeRemote), imports and commits, or rejects.     *)
(*                                                                         *)
(* The other connections go on committing between the two parts and        *)
(* between the chunks of the first.  The served workspace is an ordinary   *)
(* one: its own user may commit in it too.  Records and branch journals    *)
(* are not part of this module; whether MergeRemote finds a conflict is a  *)
(* nondeterministic choice.                                                *)
(***************************************************************************)
EXTENDS Naturals, Sequences

CONSTANTS Clients,    \* the clients, one connection each
          Versions,   \* the versions clients and the vault's user can commit (bound)
          MergeIds,   \* the versions the server's automerge can create (bound)
          Branches, Trunk,
          Root,       \* the initial version, on Trunk
          None

AllVersions == Versions \cup MergeIds \cup {Root}

ASSUME TrunkAssumption == Trunk \in Branches
ASSUME IdsAssumption ==
  /\ Root \notin Versions \cup MergeIds
  /\ Versions \cap MergeIds = {}
ASSUME NoneAssumption == None \notin AllVersions \cup Clients \cup Branches

VARIABLES
  \* the graph of all the versions written anywhere
  made,       \* the versions that exist
  up,         \* up[v]: the parent and the merge sources of v
  anc,        \* anc[v]: v and its ancestors, what GetAncestry walks to
  branchOf,   \* branchOf[v]: the branch v was committed on
  origin,     \* origin[b]: the version branch b was created at, or None
  \* the clients
  repo,       \* repo[c]: the versions in the repository of c
  known,      \* known[c]: the branches in the repository of c
  \* the vault: what its database has committed
  versions, heads, branches,
  lock,       \* the connection inside RunLocked, or None
  stale,      \* the connections whose WorkspaceDB snapshot is no longer the last
  \* the connections
  pc,         \* pc[c]: what the connection is doing (see Places)
  tip,        \* tip[c]: the version being pushed
  frontier,   \* frontier[c]: the versions of the next PushObjectQuery
  pushed,     \* pushed[c]: PushedVersions
  newBranches,\* newBranches[c]: ReceivedBranches
  headInfo,   \* headInfo[c]: RemoteHeadInfo
  todo,       \* todo[c]: the pushed versions AcceptHeads has still to consider
  temp,       \* temp[c][b]: temporaryHeads, a list of versions (<<>>: no entry)
  result,     \* result[c]: resultHeads / UpdatedHeads
  merged,     \* merged[c]: MergeVersions
  told        \* the versions whose push a client saw accepted

graphVars == <<made, up, anc, branchOf, origin>>
clientVars == <<repo, known>>
vaultVars == <<versions, heads, branches>>
acceptVars == <<todo, temp, result, merged>>
sentVars == <<tip, frontier, pushed, newBranches, headInfo>>
vars == <<graphVars, clientVars, vaultVars, lock, stale, pc, sentVars, acceptVars, told>>

Places == {"idle", "query", "sent", "accept", "merge", "hook", "import", "reply"}

NoHeads == [b \in Branches |-> None]
NoTemp == [b \in Branches |-> <<>>]

Init ==
  /\ made = {Root}
  /\ up = [v \in AllVersions |-> {}]
  /\ anc = [v \in AllVersions |-> IF v = Root THEN {Root} ELSE {}]
  /\ branchOf = [v \in AllVersions |-> IF v = Root THEN Trunk ELSE None]
  /\ origin = [b \in Branches |-> IF b = Trunk THEN Root ELSE None]
  /\ repo = [c \in Clients |-> {Root}]
  /\ known = [c \in Clients |-> {Trunk}]
  /\ versions = {Root}
  /\ heads = [b \in Branches |-> IF b = Trunk THEN {Root} ELSE {}]
  /\ branches = {Trunk}
  /\ lock = None
  /\ stale = {}
  /\ pc = [c \in Clients |-> "idle"]
  /\ tip = [c \in Clients |-> None]
  /\ frontier = [c \in Clients |-> {}]
  /\ pushed = [c \in Clients |-> {}]
  /\ newBranches = [c \in Clients |-> {}]
  /\ headInfo = [c \in Clients |-> NoHeads]
  /\ todo = [c \in Clients |-> {}]
  /\ temp = [c \in Clients |-> NoTemp]
  /\ result = [c \in Clients |-> NoHeads]
  /\ merged = [c \in Clients |-> {}]
  /\ told = {}

Goto(c, place) == pc' = [pc EXCEPT ![c] = place]

----------------------------------------------------------------------------
(* Writing versions *)

\* A new version v on branch b with the given parent and merge sources.
NewVersion(v, b, sources) ==
  /\ made' = made \cup {v}
  /\ up' = [up EXCEPT ![v] = sources]
  /\ anc' = [anc EXCEPT ![v] = {v} \cup UNION {anc[u] : u \in sources}]
  /\ branchOf' = [branchOf EXCEPT ![v] = b]
  /\ UNCHANGED origin

\* The versions a commit on branch b can have as its parent: those of the
\* branch, or the one it was created at.
OnBranch(b) == {v \in made : branchOf[v] = b \/ v = origin[b]}

\* vsr branch: a new branch at a version of the client's repository.
CreateBranch(c, b, at) ==
  /\ pc[c] = "idle"
  /\ origin[b] = None
  /\ at \in repo[c]
  /\ origin' = [origin EXCEPT ![b] = at]
  /\ known' = [known EXCEPT ![c] = @ \cup {b}]
  /\ UNCHANGED <<made, up, anc, branchOf, repo, vaultVars, lock, stale, pc, sentVars,
                 acceptVars, told>>

\* A commit in a client's repository, of a merge when source # parent.  With
\* --force the parent need not be a head of the branch.
ClientCommit(c, v, b, parent, source) ==
  /\ pc[c] = "idle"
  /\ v \in Versions \ made
  /\ b \in known[c]
  /\ parent \in repo[c] \cap OnBranch(b)
  /\ source \in repo[c]
  /\ source = parent \/ source \notin anc[parent]
  /\ NewVersion(v, b, {parent, source})
  /\ repo' = [repo EXCEPT ![c] = @ \cup {v}]
  /\ UNCHANGED <<known, vaultVars, lock, stale, pc, sentVars, acceptVars, told>>

\* A pull brings the history of a branch head into the client's repository.
ClientPull(c, b, h) ==
  /\ pc[c] = "idle"
  /\ h \in heads[b]
  /\ ~(anc[h] \subseteq repo[c] /\ b \in known[c])
  /\ repo' = [repo EXCEPT ![c] = @ \cup anc[h]]
  /\ known' = [known EXCEPT ![c] = @ \cup {b} \cup {branchOf[v] : v \in anc[h]}]
  /\ UNCHANGED <<graphVars, vaultVars, lock, stale, pc, sentVars, acceptVars, told>>

\* Faulty variant of VaultCommit: it does not wait for the end of a PushHead.
VaultCommit_Unlocked(v, b, parent, source) ==
  /\ v \in Versions \ made
  /\ b \in branches
  /\ parent \in versions \cap OnBranch(b)
  /\ source \in versions
  /\ source = parent \/ source \notin anc[parent]
  /\ NewVersion(v, b, {parent, source})
  /\ versions' = versions \cup {v}
  /\ heads' = [heads EXCEPT ![b] = (@ \ {parent, source}) \cup {v}]
  /\ UNCHANGED <<clientVars, branches, lock, stale, pc, sentVars, acceptVars, told>>

\* The vault's own user commits in the served workspace, under RunLocked: the
\* head that was the parent moves; without one (--force) a head is added; the
\* heads of the branch that were merged are deleted.
VaultCommit(v, b, parent, source) ==
  /\ lock = None
  /\ v \in Versions \ made
  /\ b \in branches
  /\ parent \in versions \cap OnBranch(b)
  /\ source \in versions
  /\ source = parent \/ source \notin anc[parent]
  /\ NewVersion(v, b, {parent, source})
  /\ versions' = versions \cup {v}
  /\ heads' = [heads EXCEPT ![b] = (@ \ {parent, source}) \cup {v}]
  /\ UNCHANGED <<clientVars, branches, lock, stale, pc, sentVars, acceptVars, told>>

----------------------------------------------------------------------------
(* The first part of a push, without any lock *)

\* Client.Push: the active version, or the head of a branch.
StartPush(c, v) ==
  /\ pc[c] = "idle"
  /\ v \in repo[c]
  /\ tip' = [tip EXCEPT ![c] = v]
  /\ frontier' = [frontier EXCEPT ![c] = {v}]
  /\ Goto(c, "query")
  /\ UNCHANGED <<graphVars, clientVars, vaultVars, lock, stale, pushed, newBranches,
                 headInfo, acceptVars, told>>

\* Faulty variant of QueryChunk: the whole walk ends at the first chunk with a
\* version the vault has.
QueryChunk_StopsEarly(c) ==
  /\ pc[c] = "query"
  /\ frontier[c] # {}
  /\ LET missing == frontier[c] \ versions IN
       /\ pushed' = [pushed EXCEPT ![c] = @ \cup missing]
       /\ frontier' = [frontier EXCEPT
            ![c] = IF missing # @ THEN {}
                   ELSE (UNION {up[v] : v \in missing}) \ (pushed[c] \cup missing)]
  /\ UNCHANGED <<graphVars, clientVars, vaultVars, lock, stale, pc, tip, newBranches,
                 headInfo, acceptVars, told>>

\* One PushObjectQuery about a chunk of the history: the versions the vault
\* has, at this instant, end the walk; the others are to be sent, and their
\* parents and merge sources are asked next.  (The code ignores that such a walk failed;
\* it fails where the connection does, and then so does the next query: Abort.)
QueryChunk(c) ==
  /\ pc[c] = "query"
  /\ frontier[c] # {}
  /\ LET missing == frontier[c] \ versions IN
       /\ pushed' = [pushed EXCEPT ![c] = @ \cup missing]
       /\ frontier' = [frontier EXCEPT
                         ![c] = (UNION {up[v] : v \in missing}) \ (pushed[c] \cup missing)]
  /\ UNCHANGED <<graphVars, clientVars, vaultVars, lock, stale, pc, tip, newBranches,
                 headInfo, acceptVars, told>>

\* The client's head of a branch it sends, for SendBranchHeads; None when it
\* has several.
ClientHeads(c, b) ==
  LET own == {v \in repo[c] : branchOf[v] = b}
  IN  (IF own = {} THEN {origin[b]} ELSE own) \cup {None}

\* The client sends what the vault lacked: the branches with their heads, and
\* the versions.  The connection keeps them in memory.
SendVersions(c) ==
  /\ pc[c] = "query"
  /\ frontier[c] = {}
  /\ LET sent == {branchOf[v] : v \in pushed[c] \cup {tip[c]}} \ branches IN
       /\ newBranches' = [newBranches EXCEPT ![c] = sent]
       /\ \E info \in [Branches -> AllVersions \cup {None}] :
            /\ \A b \in Branches :
                 info[b] \in IF b \in sent THEN ClientHeads(c, b) ELSE {None}
            /\ headInfo' = [headInfo EXCEPT ![c] = info]
  /\ Goto(c, "sent")
  /\ UNCHANGED <<graphVars, clientVars, vaultVars, lock, stale, tip, frontier, pushed,
                 acceptVars, told>>

----------------------------------------------------------------------------
(* PushHead, under RunLocked and inside a WorkspaceDB transaction *)

\* Faulty variant of BeginPushHead: PushHead without RunLocked.
BeginPushHead_Unlocked(c) ==
  /\ pc[c] = "sent"
  /\ lock' = c
  /\ todo' = [todo EXCEPT ![c] = pushed[c]]
  /\ Goto(c, IF pushed[c] = {} THEN "import" ELSE "accept")
  /\ UNCHANGED <<graphVars, clientVars, vaultVars, stale, sentVars, temp, result,
                 merged, told>>

\* RunLocked, BeginTransaction and ImportBranches.  A push with nothing to import
\* goes straight to the commit.
BeginPushHead(c) ==
  /\ pc[c] = "sent"
  /\ lock = None
  /\ lock' = c
  /\ todo' = [todo EXCEPT ![c] = pushed[c]]
  /\ Goto(c, IF pushed[c] = {} THEN "import" ELSE "accept")
  /\ UNCHANGED <<graphVars, clientVars, vaultVars, stale, sentVars, temp, result,
                 merged, told>>

\* A transaction run outside RunLocked (SyncJournalData, RequestLock,
\* ReleaseLocks) commits while c has read the heads and not yet written: every
\* InsertSafe of c is Busy from now on.  A push of new branches writes those
\* first, and nobody else commits until it ends.
Disturb(c) ==
  /\ pc[c] \in {"accept", "merge"}
  /\ newBranches[c] = {}
  /\ stale' = stale \cup {c}
  /\ UNCHANGED <<graphVars, clientVars, vaultVars, lock, pc, sentVars, acceptVars,
                 told>>

\* A head of the branch in this transaction, before version v is considered.
StartHeads(c, b, v) ==
  IF temp[c][b] # <<>> THEN temp[c][b]
  ELSE IF heads[b] = {} THEN <<v>>
  ELSE <<CHOOSE h \in heads[b] : TRUE>>

PendingMerge(c, b) == temp[c][b] = <<>> /\ \E g, h \in heads[b] : g # h

\* Faulty variant of Consider: the pushed version replaces the head without a
\* look at its ancestry.
Consider_Overwrites(c, v) ==
  /\ pc[c] = "accept"
  /\ v \in todo[c]
  /\ tip[c] \in todo[c] => v = tip[c]
  /\ LET b == branchOf[v]
         hs == StartHeads(c, b, v)
     IN  /\ ~PendingMerge(c, b)
         /\ temp' = [temp EXCEPT ![c][b] =
              IF \E i \in DOMAIN hs : v \in anc[hs[i]] THEN hs ELSE <<v>>]
  /\ todo' = [todo EXCEPT ![c] = @ \ {v}]
  /\ Goto(c, IF todo[c] = {v} THEN "merge" ELSE "accept")
  /\ UNCHANGED <<graphVars, clientVars, vaultVars, lock, stale, sentVars, result,
                 merged, told>>

\* One turn of the loop of AcceptHeads.  The walk lists the tip first.
Consider(c, v) ==
  /\ pc[c] = "accept"
  /\ v \in todo[c]
  /\ tip[c] \in todo[c] => v = tip[c]
  /\ LET b == branchOf[v]
         hs == StartHeads(c, b, v)
         reached == \E i \in DOMAIN hs : v \in anc[hs[i]]
         before == {i \in DOMAIN hs : hs[i] \in anc[v]}
         Become(list) == temp' = [temp EXCEPT ![c][b] = list]
     IN  /\ ~PendingMerge(c, b)
         /\ \/ reached /\ Become(hs)
            \/ /\ ~reached
               /\ \E i \in before : /\ \A j \in before : i <= j
                                    /\ Become([hs EXCEPT ![i] = v])
            \/ ~reached /\ before = {} /\ Become(Append(hs, v))
  /\ todo' = [todo EXCEPT ![c] = @ \ {v}]
  /\ Goto(c, IF todo[c] = {v} THEN "merge" ELSE "accept")
  /\ UNCHANGED <<graphVars, clientVars, vaultVars, lock, stale, sentVars, result,
                 merged, told>>

Open(c, b) == temp[c][b] # <<>> /\ result[c][b] = None

\* A branch with one head left keeps it.
SingleHead(c, b) ==
  /\ pc[c] = "merge"
  /\ Open(c, b) /\ Len(temp[c][b]) = 1
  /\ result' = [result EXCEPT ![c][b] = temp[c][b][1]]
  /\ UNCHANGED <<graphVars, clientVars, vaultVars, lock, stale, pc, sentVars, todo,
                 temp, merged, told>>

\* A branch with two: MergeRemote creates a version on top of the first, on
\* the branch of the first, with the second as its merge source.
Automerge(c, b, m) ==
  /\ pc[c] = "merge"
  /\ Open(c, b) /\ Len(temp[c][b]) = 2
  /\ m \in MergeIds \ made
  /\ LET local == temp[c][b][1]  remote == temp[c][b][2] IN
       NewVersion(m, branchOf[local], {local, remote})
  /\ merged' = [merged EXCEPT ![c] = @ \cup {m}]
  /\ result' = [result EXCEPT ![c][b] = m]
  /\ UNCHANGED <<clientVars, vaultVars, lock, stale, pc, sentVars, todo, temp, told>>

\* Faulty variant of HeadsResolved: the versions are imported outside the
\* transaction that moves the heads.
HeadsResolved_Imports(c) ==
  /\ pc[c] = "merge"
  /\ \A b \in Branches : ~Open(c, b)
  /\ versions' = versions \cup pushed[c] \cup merged[c]
  /\ Goto(c, "hook")
  /\ UNCHANGED <<graphVars, clientVars, heads, branches, lock, stale, sentVars,
                 acceptVars, told>>

\* All the branches the push touches have their resulting head: ImportVersions
\* writes the versions and automerges into the transaction, which InsertSafe
\* retries for ever on a stale snapshot.
HeadsResolved(c) ==
  /\ pc[c] = "merge"
  /\ \A b \in Branches : ~Open(c, b)
  /\ c \notin stale
  /\ Goto(c, "hook")
  /\ UNCHANGED <<graphVars, clientVars, vaultVars, lock, stale, sentVars, acceptVars,
                 told>>

AtMostOneHead(b) == \A g, h \in heads[b] : g = h

\* Faulty variant of CommitPush: every branch gets a head from the result,
\* those the push did not touch too.
CommitPush_AllBranches(c) ==
  /\ pc[c] = "import"
  /\ versions' = versions \cup pushed[c] \cup merged[c]
  /\ branches' = branches \cup newBranches[c]
  /\ heads' = [b \in Branches |-> {result[c][b]}]
  /\ Goto(c, "reply")
  /\ UNCHANGED <<graphVars, clientVars, lock, stale, sentVars, acceptVars, told>>

\* ImportHeadNoCommit (which throws, into Abort, when a branch to update has
\* several heads), ReceiveBranchHeads, then the commit, which also makes the
\* versions written by ImportVersions visible.
CommitPush(c) ==
  /\ pc[c] = "import"
  /\ \A b \in Branches : result[c][b] # None => AtMostOneHead(b)
  /\ versions' = versions \cup pushed[c] \cup merged[c]
  /\ branches' = branches \cup newBranches[c]
  /\ heads' = [b \in Branches |->
                 IF result[c][b] # None THEN {result[c][b]}
                 ELSE IF heads[b] = {} /\ headInfo[c][b] \in versions'
                        THEN {headInfo[c][b]}
                 ELSE heads[b]]
  /\ Goto(c, "reply")
  /\ UNCHANGED <<graphVars, clientVars, lock, stale, sentVars, acceptVars, told>>

\* Faulty variant of EndSession: RunLocked does not end.
EndSession_KeepsLock(c) ==
  /\ tip' = [tip EXCEPT ![c] = None]
  /\ frontier' = [frontier EXCEPT ![c] = {}]
  /\ pushed' = [pushed EXCEPT ![c] = {}]
  /\ newBranches' = [newBranches EXCEPT ![c] = {}]
  /\ headInfo' = [headInfo EXCEPT ![c] = NoHeads]
  /\ todo' = [todo EXCEPT ![c] = {}]
  /\ temp' = [temp EXCEPT ![c] = NoTemp]
  /\ result' = [result EXCEPT ![c] = NoHeads]
  /\ merged' = [merged EXCEPT ![c] = {}]
  /\ stale' = stale \ {c}
  /\ Goto(c, "idle")
  /\ UNCHANGED lock

\* The connection forgets what it received, and RunLocked ends.
EndSession(c) ==
  /\ lock' = IF lock = c THEN None ELSE lock
  /\ stale' = stale \ {c}
  /\ tip' = [tip EXCEPT ![c] = None]
  /\ frontier' = [frontier EXCEPT ![c] = {}]
  /\ pushed' = [pushed EXCEPT ![c] = {}]
  /\ newBranches' = [newBranches EXCEPT ![c] = {}]
  /\ headInfo' = [headInfo EXCEPT ![c] = NoHeads]
  /\ todo' = [todo EXCEPT ![c] = {}]
  /\ temp' = [temp EXCEPT ![c] = NoTemp]
  /\ result' = [result EXCEPT ![c] = NoHeads]
  /\ merged' = [merged EXCEPT ![c] = {}]
  /\ Goto(c, "idle")

\* Faulty variant of Reply: AcceptPush is sent before the commit.
Reply_BeforeCommit(c) ==
  /\ pc[c] \in {"import", "reply"}
  /\ told' = told \cup pushed[c]
  /\ EndSession(c)
  /\ UNCHANGED <<graphVars, clientVars, vaultVars>>

\* AcceptPush reaches the client.
Reply(c) ==
  /\ pc[c] = "reply"
  /\ told' = told \cup pushed[c]
  /\ EndSession(c)
  /\ UNCHANGED <<graphVars, clientVars, vaultVars>>

\* RaisePushHeadEvents runs the programs of the server's hooks, if it has any,
\* and they accept the push or refuse it (RejectPush).
RunHooks(c) ==
  /\ pc[c] = "hook"
  /\ \/ /\ Goto(c, "import")
        /\ UNCHANGED <<lock, stale, sentVars, acceptVars>>
     \/ EndSession(c)
  /\ UNCHANGED <<graphVars, clientVars, vaultVars, told>>

\* RejectPush: the vault has several heads on a branch, three heads meet or the
\* merge has a conflict.  The transaction is rolled back.
Reject(c) ==
  /\ \/ pc[c] = "accept" /\ \E v \in todo[c] :
          /\ tip[c] \in todo[c] => v = tip[c]
          /\ PendingMerge(c, branchOf[v])
     \/ pc[c] = "merge" /\ \E b \in Branches : Open(c, b) /\ Len(temp[c][b]) > 1
  /\ EndSession(c)
  /\ UNCHANGED <<graphVars, clientVars, vaultVars, told>>

\* The connection breaks or the handler throws: before the commit the
\* transaction is rolled back, after it the client is not told.
Abort(c) ==
  /\ pc[c] # "idle"
  /\ EndSession(c)
  /\ UNCHANGED <<graphVars, clientVars, vaultVars, told>>

----------------------------------------------------------------------------
Handle(c) ==
  \/ \E v \in AllVersions : Consider(c, v)
  \/ \E b \in Branches : SingleHead(c, b) \/ \E m \in MergeIds : Automerge(c, b, m)
  \/ HeadsResolved(c) \/ CommitPush(c) \/ Reply(c) \/ Reject(c)

Serve(c) ==
  \/ QueryChunk(c) \/ SendVersions(c) \/ BeginPushHead(c) \/ RunHooks(c) \/ Handle(c)

Work(c) ==
  \/ \E b \in Branches, v \in AllVersions : CreateBranch(c, b, v) \/ ClientPull(c, b, v)
  \/ \E v \in Versions, b \in Branches, p, s \in AllVersions : ClientCommit(c, v, b, p, s)
  \/ \E v \in AllVersions : StartPush(c, v)

VaultWork ==
  \E v \in Versions, b \in Branches, p, s \in AllVersions : VaultCommit(v, b, p, s)

Next ==
  \/ VaultWork
  \/ \E c \in Clients : Work(c) \/ Serve(c) \/ Disturb(c) \/ Abort(c)

Spec == Init /\ [][Next]_vars

\* The thread that handles a PushHead keeps going, and RunLocked's retry loop
\* finds the lock free if it is free again and again.  Nothing makes a client
\* go on, a hook answer, a snapshot fresh again or a connection break.
Fairness ==
  \A c \in Clients : WF_vars(Handle(c)) /\ SF_vars(BeginPushHead(c))

FairSpec == Spec /\ Fairness

----------------------------------------------------------------------------
(* Properties *)

\* Every variable holds a value of its kind.
TypeOK ==
  /\ made \subseteq AllVersions
  /\ up \in [AllVersions -> SUBSET AllVersions]
  /\ anc \in [AllVersions -> SUBSET AllVersions]
  /\ branchOf \in [AllVersions -> Branches \cup {None}]
  /\ origin \in [Branches -> AllVersions \cup {None}]
  /\ repo \in [Clients -> SUBSET AllVersions]
  /\ known \in [Clients -> SUBSET Branches]
  /\ versions \subseteq AllVersions
  /\ heads \in [Branches -> SUBSET AllVersions]
  /\ branches \subseteq Branches
  /\ lock \in Clients \cup {None}
  /\ stale \subseteq Clients
  /\ pc \in [Clients -> Places]
  /\ tip \in [Clients -> AllVersions \cup {None}]
  /\ frontier \in [Clients -> SUBSET AllVersions]
  /\ pushed \in [Clients -> SUBSET AllVersions]
  /\ newBranches \in [Clients -> SUBSET Branches]
  /\ headInfo \in [Clients -> [Branches -> AllVersions \cup {None}]]
  /\ todo \in [Clients -> SUBSET AllVersions]
  /\ temp \in [Clients -> [Branches -> Seq(AllVersions)]]
  /\ result \in [Clients -> [Branches -> AllVersions \cup {None}]]
  /\ merged \in [Clients -> SUBSET AllVersions]
  /\ told \subseteq AllVersions

\* The history in the vault is complete: the parent and the merge sources of
\* a stored version are stored, although the client left out, chunk by chunk,
\* what the vault answered it had.  FindLocalOrRemoteVersionInfo relies on it.
HistoryComplete == \A v \in versions : up[v] \subseteq versions

\* Nothing accepted is lost: every stored version is, or is an ancestor of,
\* a head of the branch it was committed on, after any interleaving of
\* pushes, automerges, rejections and commits of the vault's user.
NothingLost == \A v \in versions : \E h \in heads[branchOf[v]] : v \in anc[h]

\* No head is ever rewound or dropped: each head of a branch is, after any
\* step, still a head of that branch or an ancestor of one.
HeadsMoveForward ==
  [][\A b \in Branches : \A h \in heads[b] : \E g \in heads'[b] : h \in anc'[g]]_vars

\* What AcceptHeads found is still so when its result is stored: no branch to
\* update has got a second head in the meantime, so that ImportHeadNoCommit's
\* "Multiple branch heads" is never thrown.
OneHeadAtImport ==
  \A c \in Clients : pc[c] = "import" =>
    \A b \in Branches : result[c][b] # None => AtMostOneHead(b)

\* What a client was told is accepted stays stored.
AcceptedIsStored == told \subseteq versions

\* The vault keeps the promise of VersionStore: seen from outside, a push takes
\* in its versions and automerges in one step, or not at all.
Vault == INSTANCE VersionStore WITH written <- made, stored <- versions

VaultKeepsPromise == Vault!Spec

\* The holder of RunLocked cannot go on by itself: its writes are Busy for ever,
\* or it waits for a hook.
Stuck(c) == c \in stale \/ pc[c] = "hook"

\* Every PushHead comes to an end, it is answered or its connection breaks,
\* unless from some moment on one connection keeps RunLocked for ever because it
\* lost its snapshot to a transaction outside RunLocked or its hook never ends.
PushEndsUnlessStuck ==
  \A c \in Clients :
    \/ pc[c] = "sent" ~> pc[c] = "idle"
    \/ \E t \in Clients : <>[](lock = t /\ Stuck(t))
=============================================================================
