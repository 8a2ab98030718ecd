----------------------------- MODULE VaultLocks -----------------------------
(***************************************************************************)
(* The locks a vault grants on paths: a client asks for one (vsr lock),    *)
(* breaks those of others (lock --steal, lock-check --break), releases its *)
(* own (unlock), and a push is refused when a lock whose token the client  *)
(* does not hold covers what it changes.  Source: Area.CheckLocks and its  *)
(* neighbours, the handlers of Server.HandleClient for SendLocks,          *)
(* RequestLock, ListOrBreakLocks, ReleaseLocks, PushVersions and PushHead, *)
(* the same commands of Client, and SharedNetwork.CheckRecord.             *)
(*                                                                         *)
(* Each client has one session at a time.  The steps of its handler on the *)
(* server interleave with those of the others: nothing in them holds the   *)
(* workspace lock but PushHead.                                            *)
(*                                                                         *)
(* A version adds one record.  (A version that changes a known record also *)
(* names the prior one, which the vault always looks up and checks.)       *)
(***************************************************************************)
EXTENDS Integers, FiniteSets

CONSTANTS
  Client,
  Branch,
  AllBranches,  \* the null branch of a lock: it holds on every branch
  Path,         \* what a lock may name
  Full,         \* the empty path of "lock --full"
  Root,         \* "/", what CheckLocks makes of the empty path
  Directory,    \* the paths that end with "/"
  PrefixesOf,     \* PrefixesOf[p]: the paths the text of p starts with
  Record,       \* the records of the versions that are pushed
  PathOf,       \* their canonical names
  Target,       \* bound: the paths and branches that requests name
  MaxLocks,     \* bound: locks granted in a behaviour
  MaxVersions   \* bound: versions of a push

\* Two prefixes of a path are prefixes of one another; all paths but Full start with "/".
ASSUME PathsAssumption ==
  /\ Full \in Path /\ Full # Root
  /\ Root \in Directory
  /\ PrefixesOf \in [Path \cup {Root} -> SUBSET (Path \cup {Root})]
  /\ \A p \in Path \ {Full} : p \in PrefixesOf[p] /\ Root \in PrefixesOf[p]
  /\ \A p \in Path : \A q, r \in PrefixesOf[p] : q \in PrefixesOf[r] \/ r \in PrefixesOf[q]
  /\ PathOf \in [Record -> Path \ {Full}]
  /\ AllBranches \notin Branch

ASSUME TargetAssumption == Target \subseteq Path \X (Branch \cup {AllBranches})

ASSUME BoundsAssumption == MaxLocks \in Nat /\ MaxVersions \in Nat \ {0}

VARIABLES
  vault,      \* the VaultLock rows, with (history) who holds them and how they were granted
  nextId,     \* the next fresh lock token (Guid.NewGuid)
  imported,   \* the versions in the vault's database
  local,      \* local[c]: tokens of the RemoteLock rows of client c
  pc,         \* what the session of a client is about to do
  request,    \* the RequestLockInformation of a session
  tokens,     \* clientInfo.Locks
  conflicts,  \* lockConflicts, as the last CheckLocks of the session found it
  lockID,     \* the token in the reply to a granted request
  unknown,    \* sharedInfo.UnknownRecordSet
  pushed,     \* sharedInfo.PushedVersions, with when and whether each was checked
  checkedAt   \* history: nextId when the request was checked

stores == <<vault, nextId, imported>>
asked == <<request, lockID, checkedAt>>
pushing == <<unknown, pushed>>
vars == <<stores, local, pc, tokens, conflicts, asked, pushing>>

Id == 0 .. MaxLocks - 1
Scope == Branch \cup {AllBranches}
Request == [path: Path, branch: Scope, steal: BOOLEAN, grant: BOOLEAN]
Version == [branch: Branch, record: Record]
Row == [id: Id, path: Path, branch: Scope, owner: Client, since: Nat]
Receipt == [version: Version, at: Nat, checked: BOOLEAN]
NoRequest == [path |-> Full, branch |-> AllBranches, steal |-> FALSE, grant |-> FALSE]

TypeOK ==
  /\ vault \subseteq Row
  /\ nextId \in 0 .. MaxLocks
  /\ imported \subseteq Version
  /\ local \in [Client -> SUBSET Id]
  /\ pc \in [Client -> {"off", "grant", "reply", "released", "push", "refused"}]
  /\ request \in [Client -> Request]
  /\ tokens \in [Client -> SUBSET Id]
  /\ conflicts \in [Client -> SUBSET Row]
  /\ lockID \in [Client -> Id \cup {-1}]
  /\ unknown \in [Client -> SUBSET Record]
  /\ pushed \in [Client -> SUBSET Receipt]
  /\ checkedAt \in [Client -> Nat]

-----------------------------------------------------------------------------
(* Area.CheckLocks *)

StartsWith(p, q) == q \in PrefixesOf[p]

SameBranch(b, lockBranch) == b = lockBranch \/ b = AllBranches \/ lockBranch = AllBranches

\* A lock on a file stops only a request for that very file; a lock on a
\* directory stops what is below it and, when a lock is being asked for, a
\* directory that holds it.
X_Overlaps_OneWay(p, lockPath, testingLock) ==
  IF lockPath \in Directory
  THEN StartsWith(p, lockPath)
  ELSE p \notin Directory /\ p = lockPath
Overlaps(p, lockPath, testingLock) ==
  IF lockPath \in Directory
  THEN StartsWith(p, lockPath) \/ (testingLock /\ StartsWith(lockPath, p))
  ELSE p \notin Directory /\ p = lockPath

\* Faulty variant of CheckLocks: a lock counts on every branch.
X_CheckLocks_AnyBranch(path, branch, testingLock, held) ==
  LET p == IF path = Full THEN Root ELSE path
  IN {l \in vault : /\ l.id \notin held
                    /\ l.path = Full \/ Overlaps(p, l.path, testingLock)}
CheckLocks(path, branch, testingLock, held) ==
  LET p == IF path = Full THEN Root ELSE path
  IN {l \in vault : /\ l.id \notin held
                    /\ SameBranch(branch, l.branch)
                    /\ l.path = Full \/ Overlaps(p, l.path, testingLock)}

-----------------------------------------------------------------------------
(* Sessions *)

Init ==
  /\ vault = {} /\ nextId = 0 /\ imported = {}
  /\ local = [c \in Client |-> {}]
  /\ pc = [c \in Client |-> "off"]
  /\ request = [c \in Client |-> NoRequest]
  /\ tokens = [c \in Client |-> {}]
  /\ conflicts = [c \in Client |-> {}]
  /\ lockID = [c \in Client |-> -1]
  /\ unknown = [c \in Client |-> {}]
  /\ pushed = [c \in Client |-> {}]
  /\ checkedAt = [c \in Client |-> 0]

\* The end of a session, whatever ended it: clientInfo and sharedInfo go.
Close(c) ==
  /\ pc' = [pc EXCEPT ![c] = "off"]
  /\ request' = [request EXCEPT ![c] = NoRequest]
  /\ tokens' = [tokens EXCEPT ![c] = {}]
  /\ conflicts' = [conflicts EXCEPT ![c] = {}]
  /\ lockID' = [lockID EXCEPT ![c] = -1]
  /\ unknown' = [unknown EXCEPT ![c] = {}]
  /\ pushed' = [pushed EXCEPT ![c] = {}]
  /\ checkedAt' = [checkedAt EXCEPT ![c] = 0]

\* A crash of the client or a lost connection.  A lock may have been granted
\* by then, with its token in the reply that is lost.
Disconnect(c) ==
  /\ pc[c] # "off"
  /\ Close(c)
  /\ UNCHANGED <<stores, local>>

-----------------------------------------------------------------------------
(* Asking for a lock, listing and breaking locks *)

\* The handler checks before it begins its transaction; the transaction follows
\* when nothing is in the way or the locks that are may be broken.
Ask(c, r, held) ==
  /\ pc[c] = "off"
  /\ request' = [request EXCEPT ![c] = r]
  /\ tokens' = [tokens EXCEPT ![c] = held]
  /\ LET found == CheckLocks(r.path, r.branch, r.grant, held)
     IN /\ conflicts' = [conflicts EXCEPT ![c] = found]
        /\ pc' = [pc EXCEPT ![c] = IF found = {} \/ r.steal THEN "grant" ELSE "refused"]
  /\ checkedAt' = [checkedAt EXCEPT ![c] = nextId]
  /\ UNCHANGED <<stores, local, lockID, pushing>>

\* SendLocks, then RequestLock.
AcquireLock(c, path, branch, steal) ==
  Ask(c, [path |-> path, branch |-> branch, steal |-> steal, grant |-> TRUE], local[c])

\* ListOrBreakLocks, to break.  No tokens are sent: the client's own locks break
\* too.  (To list them changes nothing and is left out.)
BreakLocks(c, path, branch) ==
  Ask(c, [path |-> path, branch |-> branch, steal |-> TRUE, grant |-> FALSE], {})

NewLock(c) ==
  [id |-> nextId, path |-> request[c].path, branch |-> request[c].branch,
   owner |-> c, since |-> checkedAt[c]]

\* The transaction: BreakLocks(lockConflicts), and GrantLock when asked for.
GrantRequest(c) ==
  /\ pc[c] = "grant"
  /\ IF request[c].grant
     THEN /\ nextId < MaxLocks
          /\ vault' = (vault \ conflicts[c]) \cup {NewLock(c)}
          /\ nextId' = nextId + 1
          /\ lockID' = [lockID EXCEPT ![c] = nextId]
     ELSE /\ vault' = vault \ conflicts[c]
          /\ UNCHANGED <<nextId, lockID>>
  /\ pc' = [pc EXCEPT ![c] = "reply"]
  /\ UNCHANGED <<imported, local, tokens, conflicts, request, checkedAt, pushing>>

ConflictIds(c) == {l.id : l \in conflicts[c]}

\* The reply arrives.  Area.RecordLock keeps the token and drops those that
\* were broken; the reply to a break changes nothing here.
X_ReceiveGrant_Always(c) ==
  /\ pc[c] = "reply"
  /\ local' = [local EXCEPT ![c] = (@ \cup {lockID[c]}) \ ConflictIds(c)]
  /\ Close(c)
  /\ UNCHANGED stores
ReceiveGrant(c) ==
  /\ pc[c] = "reply"
  /\ IF request[c].grant
     THEN local' = [local EXCEPT ![c] = (@ \cup {lockID[c]}) \ ConflictIds(c)]
     ELSE UNCHANGED local
  /\ Close(c)
  /\ UNCHANGED stores

\* The client reads PathLocked and leaves.
ReceiveRefusal(c) ==
  /\ pc[c] = "refused"
  /\ Close(c)
  /\ UNCHANGED <<stores, local>>

-----------------------------------------------------------------------------
(* Releasing locks *)

\* Client.ReleaseLocks and its handler: the tokens join clientInfo.Locks, and
\* BreakLocks deletes the rows it still finds, in one transaction.
ReleaseLocks(c, chosen) ==
  /\ pc[c] = "off" /\ chosen # {}
  /\ tokens' = [tokens EXCEPT ![c] = chosen]
  /\ vault' = {l \in vault : l.id \notin chosen}
  /\ pc' = [pc EXCEPT ![c] = "released"]
  /\ UNCHANGED <<nextId, imported, local, conflicts, asked, pushing>>

\* On Acknowledge the client forgets all it asked to release.
ReceiveRelease(c) ==
  /\ pc[c] = "released"
  /\ local' = [local EXCEPT ![c] = @ \ tokens[c]]
  /\ Close(c)
  /\ UNCHANGED stores

\* The vault cannot be reached and the user says to release the locks anyway.
ReleaseAnyway(c, chosen) ==
  /\ pc[c] = "off" /\ chosen # {}
  /\ local' = [local EXCEPT ![c] = @ \ chosen]
  /\ UNCHANGED <<stores, pc, tokens, conflicts, asked, pushing>>

-----------------------------------------------------------------------------
(* A push *)

X_Push_NoTokens(c) ==
  /\ pc[c] = "off"
  /\ pc' = [pc EXCEPT ![c] = "push"]
  /\ UNCHANGED <<stores, local, tokens, conflicts, asked, pushing>>
\* Client.SendLocks before the versions: all local tokens go to clientInfo.Locks.
Push(c) ==
  /\ pc[c] = "off"
  /\ tokens' = [tokens EXCEPT ![c] = local[c]]
  /\ pc' = [pc EXCEPT ![c] = "push"]
  /\ UNCHANGED <<stores, local, conflicts, asked, pushing>>

\* LocateRecord finds a record the vault imported with some version.
Located(r) == \E v \in imported : v.record = r

\* ReceivePack, CheckRecord (versions are told apart only by what the locks see
\* of them, so two that add one record are the same here): a version is kept for PushHead before its record
\* is looked at.  The record is checked against the locks unless the session
\* already met it and found it missing; the answer PathLocked ends the push.
X_ReceiveVersion_NoCheck(c, v) ==
  /\ pc[c] = "push" /\ Cardinality(pushed[c]) < MaxVersions
  /\ pushed' = [pushed EXCEPT ![c] = @ \cup {[version |-> v, at |-> nextId, checked |-> TRUE]}]
  /\ unknown' = [unknown EXCEPT ![c] = IF Located(v.record) THEN @ ELSE @ \cup {v.record}]
  /\ UNCHANGED <<stores, local, tokens, conflicts, pc, asked>>
ReceiveVersion(c, v) ==
  /\ pc[c] = "push" /\ Cardinality(pushed[c]) < MaxVersions
  /\ LET skipped == v.record \in unknown[c]
         found == IF skipped THEN {} ELSE CheckLocks(PathOf[v.record], v.branch, FALSE, tokens[c])
     IN /\ pushed' = [pushed EXCEPT ![c] = @ \cup {[version |-> v, at |-> nextId, checked |-> ~skipped]}]
        /\ conflicts' = [conflicts EXCEPT ![c] = found]
        /\ unknown' = [unknown EXCEPT ![c] = IF found # {} \/ Located(v.record) THEN @ ELSE @ \cup {v.record}]
        /\ pc' = [pc EXCEPT ![c] = IF found = {} THEN "push" ELSE "refused"]
  /\ UNCHANGED <<stores, local, tokens, asked>>

\* PushHead imports what was received; the locks are not looked at again.  A
\* push that is rejected for its heads ends as a Disconnect does.
PushHead(c) ==
  /\ pc[c] = "push"
  /\ imported' = imported \cup {e.version : e \in pushed[c]}
  /\ Close(c)
  /\ UNCHANGED <<vault, nextId, local>>

-----------------------------------------------------------------------------
Command(c) ==
  \/ \E t \in Target :
       \/ BreakLocks(c, t[1], t[2])
       \/ \E steal \in BOOLEAN : AcquireLock(c, t[1], t[2], steal)
  \/ \E chosen \in SUBSET local[c] : ReleaseLocks(c, chosen) \/ ReleaseAnyway(c, chosen)
  \/ Push(c)

Step(c) ==
  \/ GrantRequest(c) \/ ReceiveGrant(c) \/ ReceiveRefusal(c) \/ ReceiveRelease(c)
  \/ PushHead(c)
  \/ \E v \in Version : ReceiveVersion(c, v)

Next == \E c \in Client : Command(c) \/ Step(c) \/ Disconnect(c)

Spec == Init /\ [][Next]_vars

-----------------------------------------------------------------------------
(* Properties *)

\* Lock l keeps others from pushing a change of path p on branch b.
Covers(l, p, b) == SameBranch(b, l.branch) /\ (l.path = Full \/ Overlaps(p, l.path, FALSE))

BothCover(l, m) ==
  \E p \in Path \ {Full}, b \in Branch : Covers(l, p, b) /\ Covers(m, p, b)

FileInDirectory(l, m) == l.path \notin Directory \cup {Full} /\ m.path \in Directory \cup {Full}

\* m was checked after l was granted, for another client.
CheckedLater(l, m) == l.owner # m.owner /\ l.id < m.since

\* Two clients never hold locks on the same path of the same branch, unless
\* the two requests raced (Server.cs:921 checks before the transaction that
\* grants) or a directory was locked over a file lock (Area.cs:1652 finds only
\* directory locks below a requested directory).
LocksExclude ==
  \A l, m \in vault : CheckedLater(l, m) /\ BothCover(l, m) => FileInDirectory(l, m)

\* A request or a push is never refused for a lock whose token the client has:
\* SendLocks comes before both, and RecordLock kept every token (Client.cs:144, 582).
NeverBlockedBySelf ==
  \A c \in Client : pc[c] = "refused" => ConflictIds(c) \cap local[c] = {}

\* A version reaches the vault only if no other client holds a lock on its path,
\* or the lock is younger than the check of the version (Server.cs:671 checks
\* on receipt, PushHead imports later), or the session met the record before
\* and did not check it again (SharedNetwork.cs:1533).
LockedPathsKept ==
  [][\A c \in Client : pc[c] = "push" /\ pc'[c] = "off" /\ imported' # imported =>
       \A e \in pushed[c], l \in vault :
         l.owner # c /\ Covers(l, PathOf[e.version.record], e.version.branch)
           => ~e.checked \/ e.at <= l.id]_vars

\* What request r asks for lies at, above or below what l names, on a branch of l.
Meets(r, l) ==
  /\ SameBranch(r.branch, l.branch)
  /\ Full \in {r.path, l.path} \/ StartsWith(r.path, l.path) \/ StartsWith(l.path, r.path)

\* A lock goes away only in the step in which its holder releases it, by its
\* token, or in which the vault serves a request to steal or break that meets
\* it in path and branch, and that did not come with its token.
NoTheftUnasked ==
  [][\A l \in vault \ vault' :
       \/ pc'[l.owner] = "released" /\ l.id \in tokens'[l.owner]
       \/ \E c \in Client : /\ pc[c] = "grant" /\ pc'[c] = "reply"
                            /\ request[c].steal /\ Meets(request[c], l)
                            /\ l.id \notin tokens[c]]_vars
=============================================================================
