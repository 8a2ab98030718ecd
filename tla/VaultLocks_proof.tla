-------------------------- MODULE VaultLocks_proof --------------------------
(***************************************************************************)
(* What VaultLocks promises, for any clients, branches, paths and bounds.  *)
(***************************************************************************)
EXTENDS VaultLocks, TLAPS

-----------------------------------------------------------------------------
(* The inductive invariant *)

\* Tokens are fresh: what a session or a row holds was drawn before nextId.
Drawn ==
  /\ \A l \in vault : l.id < nextId /\ l.since <= l.id
  /\ \A c \in Client : /\ checkedAt[c] <= nextId
                       /\ \A i \in local[c] : i < nextId
                       /\ pc[c] = "reply" /\ request[c].grant => lockID[c] \in Id /\ lockID[c] < nextId

\* A client holds tokens of its own locks only.
OwnTokens ==
  \A c \in Client, l \in vault :
    /\ l.id \in local[c] => l.owner = c
    /\ pc[c] = "reply" /\ request[c].grant /\ l.id = lockID[c] => l.owner = c

\* While it pushes, a session knows the tokens its client has.
PushTokens == \A c \in Client : pc[c] = "push" => tokens[c] = local[c]

\* A request that goes on found every older lock that would cover what it
\* asks for, but files under a directory.
GrantChecked ==
  \A c \in Client : pc[c] = "grant" =>
    /\ request[c].steal \/ conflicts[c] = {}
    /\ request[c].grant =>
         \A l \in vault : l.owner # c /\ l.id < checkedAt[c] /\ BothCover(l, request[c])
                            => l \in conflicts[c] \/ FileInDirectory(l, request[c])

\* A version that was checked has no older lock of another client on its path.
PushChecked ==
  \A c \in Client : pc[c] = "push" =>
    \A e \in pushed[c], l \in vault :
      l.owner # c /\ Covers(l, PathOf[e.version.record], e.version.branch)
        => ~e.checked \/ e.at <= l.id

\* What a session received, it received before now.
ReceivedBefore == \A c \in Client : \A e \in pushed[c] : e.at <= nextId

\* A client that is not pushing has nothing received from it.
OffIsEmpty == \A c \in Client : pc[c] \notin {"push", "refused"} => pushed[c] = {}

IInv ==
  /\ TypeOK
  /\ OffIsEmpty
  /\ Drawn
  /\ OwnTokens
  /\ PushTokens
  /\ GrantChecked
  /\ PushChecked
  /\ ReceivedBefore
  /\ LocksExclude
  /\ NeverBlockedBySelf

USE PathsAssumption, BoundsAssumption DEF Id, Scope

-----------------------------------------------------------------------------
(* What CheckLocks finds *)

\* An older lock that covers something a request covers is found by the check
\* of the request, unless it is on a file and the request on a directory.
LEMMA CheckFinds ==
  ASSUME TypeOK, NEW l \in vault, NEW r \in Request, NEW held \in SUBSET Id,
         r.grant, l.id \notin held, BothCover(l, r), ~FileInDirectory(l, r)
  PROVE  l \in CheckLocks(r.path, r.branch, TRUE, held)
<1>1. PICK p \in Path \ {Full}, b \in Branch : Covers(l, p, b) /\ Covers(r, p, b)
    BY DEF BothCover
<1>2. l \in Row /\ l.path \in Path /\ r.path \in Path /\ l.branch \in Scope /\ r.branch \in Scope
    BY DEF TypeOK, Row, Request
<1>3. SameBranch(r.branch, l.branch)
    BY <1>1, <1>2 DEF Covers, SameBranch
<1> DEFINE q == IF r.path = Full THEN Root ELSE r.path
<1>4. l.path = Full \/ Overlaps(q, l.path, TRUE)
  <2>1. CASE l.path = Full
      BY <2>1
  <2>2. CASE l.path # Full /\ l.path \in Directory
    <3>1. l.path \in PrefixesOf[p] /\ Root \in PrefixesOf[l.path]
        BY <1>1, <1>2, <2>2 DEF Covers, Overlaps, StartsWith
    <3>2. CASE r.path = Full
        BY <3>1, <3>2, <2>2 DEF Overlaps, StartsWith
    <3>3. CASE r.path # Full
      <4>1. r.path \in PrefixesOf[p]
          BY <1>1, <1>2, <3>3 DEF Covers, Overlaps, StartsWith
      <4>2. l.path \in PrefixesOf[r.path] \/ r.path \in PrefixesOf[l.path]
          BY <3>1, <4>1
      <4> QED
          BY <4>2, <2>2, <3>3 DEF Overlaps, StartsWith
    <3> QED
        BY <3>2, <3>3
  <2>3. CASE l.path # Full /\ l.path \notin Directory
    <3>1. r.path \notin Directory /\ r.path # Full
        BY <2>3 DEF FileInDirectory
    <3>2. p = l.path /\ p = r.path
        BY <1>1, <2>3, <3>1 DEF Covers, Overlaps
    <3> QED
        BY <2>3, <3>1, <3>2 DEF Overlaps
  <2> QED
      BY <2>1, <2>2, <2>3
<1> QED
    BY <1>3, <1>4 DEF CheckLocks

\* A lock that covers the path of a pushed version is found, whoever holds it,
\* unless its token was sent.
LEMMA PushCheckFinds ==
  ASSUME TypeOK, NEW l \in vault, NEW v \in Version, NEW held \in SUBSET Id,
         l.id \notin held, Covers(l, PathOf[v.record], v.branch)
  PROVE  l \in CheckLocks(PathOf[v.record], v.branch, FALSE, held)
<1>1. PathOf[v.record] # Full
    BY DEF Version
<1> QED
    BY <1>1 DEF Covers, CheckLocks

LEMMA CheckInVault ==
  ASSUME NEW p, NEW b, NEW t, NEW held
  PROVE  /\ CheckLocks(p, b, t, held) \subseteq vault
         /\ \A l \in CheckLocks(p, b, t, held) : l.id \notin held
BY DEF CheckLocks

-----------------------------------------------------------------------------
(* The invariant is inductive *)

\* The initial state satisfies the inductive invariant.
LEMMA InitIInv == Init => IInv
<1> SUFFICES ASSUME Init PROVE IInv
    OBVIOUS
<1>1. TypeOK
    BY DEF Init, TypeOK, Request, NoRequest
<1>2. OffIsEmpty /\ Drawn /\ OwnTokens /\ PushTokens /\ GrantChecked /\ PushChecked /\ ReceivedBefore
    BY DEF Init, OffIsEmpty, Drawn, OwnTokens, PushTokens, GrantChecked, PushChecked, ReceivedBefore
<1>3. LocksExclude /\ NeverBlockedBySelf
    BY DEF Init, LocksExclude, NeverBlockedBySelf
<1> QED
    BY <1>1, <1>2, <1>3 DEF IInv

\* A request is checked: what it found is what stands in its way.
LEMMA AskKeeps ==
  ASSUME IInv, NEW c \in Client, NEW r \in Request, NEW held \in SUBSET Id, Ask(c, r, held),
         r.grant => held = local[c], ~r.steal => r.grant
  PROVE  IInv'
<1> USE DEF IInv, stores, pushing
<1> DEFINE found == CheckLocks(r.path, r.branch, r.grant, held)
<1>0. /\ found \subseteq vault
      /\ \A l \in found : l.id \notin held
    BY CheckInVault
<1>1. TypeOK'
    BY <1>0 DEF Ask, TypeOK
<1>2. Drawn' /\ OwnTokens' /\ OffIsEmpty'
    BY DEF Ask, TypeOK, OffIsEmpty, Drawn, OwnTokens
<1>3. PushTokens' /\ PushChecked' /\ ReceivedBefore'
    BY DEF Ask, TypeOK, PushTokens, PushChecked, ReceivedBefore, Covers
<1>4. GrantChecked'
  <2> SUFFICES ASSUME NEW d \in Client, pc'[d] = "grant"
               PROVE  /\ request'[d].steal \/ conflicts'[d] = {}
                      /\ request'[d].grant =>
                           \A l \in vault : l.owner # d /\ l.id < checkedAt'[d] /\ BothCover(l, request'[d])
                                              => l \in conflicts'[d] \/ FileInDirectory(l, request'[d])
      BY DEF Ask, GrantChecked
  <2>1. CASE d = c
    <3>1. request'[d] = r /\ conflicts'[d] = found
        BY <2>1 DEF Ask, TypeOK
    <3>2. r.steal \/ found = {}
        BY <2>1 DEF Ask, TypeOK
    <3>3. ASSUME r.grant, NEW l \in vault, l.owner # d, BothCover(l, r), ~FileInDirectory(l, r)
          PROVE  l \in found
      <4>1. l.id \notin held
          BY <3>3, <2>1 DEF OwnTokens
      <4>2. r.grant = TRUE
          BY <3>3 DEF Request
      <4> QED
          BY <3>3, <4>1, <4>2, CheckFinds
    <3> QED
        BY <3>1, <3>2, <3>3
  <2>2. CASE d # c
      BY <2>2 DEF Ask, TypeOK, GrantChecked
  <2> QED
      BY <2>1, <2>2
<1>5. LocksExclude'
    BY DEF Ask, LocksExclude, CheckedLater
<1>6. NeverBlockedBySelf'
    BY <1>0 DEF Ask, TypeOK, NeverBlockedBySelf, ConflictIds
<1> QED
    BY <1>1, <1>2, <1>3, <1>4, <1>5, <1>6

\* A lock is granted: it is the youngest, and no other client's lock that was
\* found in its way is left.
LEMMA GrantKeeps ==
  ASSUME IInv, NEW c \in Client, GrantRequest(c)
  PROVE  IInv'
<1> USE DEF IInv, pushing
<1> DEFINE m == NewLock(c)
<1>1. TypeOK'
  <2>1. request[c].grant => m \in Row
      BY DEF GrantRequest, TypeOK, NewLock, Row, Request
  <2>2. vault' \subseteq Row /\ nextId' \in 0 .. MaxLocks /\ lockID' \in [Client -> Id \cup {-1}]
      BY <2>1 DEF GrantRequest, TypeOK
  <2> QED
      BY <2>2 DEF GrantRequest, TypeOK
<1>2. /\ vault' \subseteq (vault \ conflicts[c]) \cup {m}
      /\ vault' \subseteq vault \/ (request[c].grant /\ nextId' = nextId + 1)
      /\ nextId <= nextId' /\ nextId \in Nat /\ nextId' \in Nat
    BY DEF GrantRequest, TypeOK
<1>3. m.id = nextId /\ m.owner = c /\ m.since = checkedAt[c] /\ m.path = request[c].path /\ m.branch = request[c].branch
    BY DEF NewLock
<1>4. \A l \in vault : l.id \in Nat /\ l.id < nextId
    BY DEF Drawn, TypeOK, Row
<1>5. Drawn' /\ OffIsEmpty'
    BY <1>2, <1>3, <1>4 DEF GrantRequest, TypeOK, OffIsEmpty, Drawn, Row
<1>6. OwnTokens'
    BY <1>2, <1>3, <1>4 DEF GrantRequest, TypeOK, OffIsEmpty, Drawn, OwnTokens
<1>7. PushTokens' /\ ReceivedBefore' /\ NeverBlockedBySelf'
    BY <1>2 DEF GrantRequest, TypeOK, PushTokens, ReceivedBefore, Receipt, NeverBlockedBySelf, ConflictIds
<1>8. GrantChecked'
    BY <1>2, <1>3, <1>4 DEF GrantRequest, TypeOK, GrantChecked, Drawn
<1>9. PushChecked'
    BY <1>2, <1>3, <1>4 DEF GrantRequest, TypeOK, PushChecked, ReceivedBefore
<1>10. LocksExclude'
  <2> SUFFICES ASSUME NEW l \in vault', NEW k \in vault', CheckedLater(l, k), BothCover(l, k)
               PROVE  FileInDirectory(l, k)
      BY DEF LocksExclude, CheckedLater, BothCover, Covers, FileInDirectory
  <2>1. CASE l \in vault /\ k \in vault
      BY <2>1 DEF LocksExclude
  <2>2. CASE k = m /\ l \in vault /\ request[c].grant
    <3>1. BothCover(l, request[c])
        BY <1>3, <2>2 DEF BothCover, Covers
    <3>2. l \notin conflicts[c]
      <4>1. l # m
          BY <1>3, <1>4, <2>2
      <4> QED
          BY <1>2, <4>1
    <3>3. l.owner # c /\ l.id < checkedAt[c]
        BY <1>3, <2>2 DEF CheckedLater
    <3>4. FileInDirectory(l, request[c])
        BY <2>2, <3>1, <3>2, <3>3 DEF GrantChecked, GrantRequest
    <3> QED
        BY <1>3, <2>2, <3>4 DEF FileInDirectory
  <2>3. CASE l = m
    <3>1. k.since \in Nat /\ k.since <= nextId
      <4>1. CASE k \in vault
          BY <4>1 DEF TypeOK, Drawn, Row
      <4>2. CASE k = m
          BY <4>2, <1>3 DEF TypeOK, Drawn
      <4> QED
          BY <1>2, <4>1, <4>2
    <3> QED
        BY <1>2, <1>3, <2>3, <3>1 DEF CheckedLater
  <2> QED
      BY <1>2, <2>1, <2>2, <2>3
<1> QED
    BY <1>1, <1>5, <1>6, <1>7, <1>8, <1>9, <1>10

\* The client records its lock and forgets those it broke.
LEMMA ReceiveGrantKeeps ==
  ASSUME IInv, NEW c \in Client, ReceiveGrant(c)
  PROVE  IInv'
<1> USE DEF IInv, ReceiveGrant, Close, stores
<1>1. TypeOK'
  <2>1. request[c].grant => lockID[c] \in Id
      BY DEF Drawn
  <2>2. local' \in [Client -> SUBSET Id]
      BY <2>1 DEF TypeOK
  <2> QED
      BY <2>2 DEF TypeOK, Request, NoRequest
<1>2. /\ \A d \in Client : d # c => local'[d] = local[d]
      /\ \A i \in local'[c] : i \in local[c] \/ (request[c].grant /\ i = lockID[c])
    BY DEF TypeOK
<1>3. Drawn' /\ OwnTokens' /\ OffIsEmpty'
    BY <1>2 DEF TypeOK, OffIsEmpty, Drawn, OwnTokens, NoRequest
<1>4. PushTokens' /\ ReceivedBefore' /\ PushChecked'
    BY <1>2 DEF TypeOK, PushTokens, ReceivedBefore, PushChecked, Covers
<1>5. GrantChecked' /\ LocksExclude' /\ NeverBlockedBySelf'
    BY <1>2 DEF TypeOK, GrantChecked, LocksExclude, CheckedLater, NeverBlockedBySelf, ConflictIds
<1> QED
    BY <1>1, <1>3, <1>4, <1>5

\* A session ends, however it ends, when only its own tokens may be dropped.
LEMMA CloseKeeps ==
  ASSUME IInv, NEW c \in Client, Close(c), UNCHANGED <<vault, nextId>>,
         imported' \subseteq Version,
         local' \in [Client -> SUBSET Id], local'[c] \subseteq local[c],
         \A d \in Client : d # c => local'[d] = local[d]
  PROVE  IInv'
<1> USE DEF IInv, Close
<1>1. TypeOK'
    BY DEF TypeOK, Request, NoRequest
<1>2. Drawn' /\ OwnTokens' /\ OffIsEmpty'
    BY DEF TypeOK, OffIsEmpty, Drawn, OwnTokens, NoRequest
<1>3. PushTokens' /\ ReceivedBefore' /\ PushChecked'
    BY DEF TypeOK, PushTokens, ReceivedBefore, PushChecked, Covers
<1>4. GrantChecked' /\ LocksExclude' /\ NeverBlockedBySelf'
    BY DEF TypeOK, GrantChecked, LocksExclude, CheckedLater, NeverBlockedBySelf, ConflictIds
<1> QED
    BY <1>1, <1>2, <1>3, <1>4

\* Locks are released, in the vault or at the client alone.
LEMMA ReleaseKeeps ==
  ASSUME IInv, NEW c \in Client, NEW chosen \in SUBSET local[c],
         ReleaseLocks(c, chosen) \/ ReleaseAnyway(c, chosen)
  PROVE  IInv'
<1> USE DEF IInv, ReleaseLocks, ReleaseAnyway, stores, asked, pushing
<1>0. /\ vault' \subseteq vault /\ nextId' = nextId /\ local' \in [Client -> SUBSET Id]
      /\ \A d \in Client : local'[d] \subseteq local[d] /\ (pc'[d] = "push" => local'[d] = local[d] /\ tokens'[d] = tokens[d])
      /\ \A d \in Client : pc'[d] = pc[d] \/ pc'[d] = "released"
    BY DEF TypeOK
<1>1. TypeOK'
    BY <1>0 DEF TypeOK
<1>2. Drawn' /\ OwnTokens' /\ OffIsEmpty'
    BY <1>0 DEF TypeOK, OffIsEmpty, Drawn, OwnTokens
<1>3. PushTokens' /\ ReceivedBefore' /\ PushChecked'
    BY <1>0 DEF TypeOK, PushTokens, ReceivedBefore, PushChecked, Covers
<1>4. GrantChecked'
    BY <1>0 DEF TypeOK, GrantChecked
<1>5. LocksExclude'
    BY <1>0 DEF LocksExclude, CheckedLater
<1>6. NeverBlockedBySelf'
    BY <1>0 DEF NeverBlockedBySelf, ConflictIds
<1> QED
    BY <1>1, <1>2, <1>3, <1>4, <1>5, <1>6

\* A push begins.
LEMMA PushKeeps ==
  ASSUME IInv, NEW c \in Client, Push(c)
  PROVE  IInv'
<1> USE DEF IInv, Push, stores, asked, pushing
<1>1. TypeOK'
    BY DEF TypeOK
<1>2. Drawn' /\ OwnTokens' /\ OffIsEmpty' /\ PushTokens' /\ ReceivedBefore' /\ PushChecked'
    BY DEF TypeOK, OffIsEmpty, Drawn, OwnTokens, PushTokens, ReceivedBefore, PushChecked, Covers
<1>3. GrantChecked' /\ LocksExclude' /\ NeverBlockedBySelf'
    BY DEF TypeOK, GrantChecked, LocksExclude, CheckedLater, NeverBlockedBySelf, ConflictIds
<1> QED
    BY <1>1, <1>2, <1>3

\* A version is received and its record checked.
LEMMA ReceiveVersionKeeps ==
  ASSUME IInv, NEW c \in Client, NEW v \in Version, ReceiveVersion(c, v)
  PROVE  IInv'
<1> USE DEF IInv, ReceiveVersion, stores, asked
<1> DEFINE skipped == v.record \in unknown[c]
           found == IF skipped THEN {} ELSE CheckLocks(PathOf[v.record], v.branch, FALSE, tokens[c])
           e == [version |-> v, at |-> nextId, checked |-> ~skipped]
<1>0. found \subseteq vault /\ \A l \in found : l.id \notin tokens[c]
    BY CheckInVault
<1> HIDE DEF found
<1>1. /\ pushed' = [pushed EXCEPT ![c] = @ \cup {e}]
      /\ conflicts' = [conflicts EXCEPT ![c] = found]
      /\ pc' = [pc EXCEPT ![c] = IF found = {} THEN "push" ELSE "refused"]
      /\ pc[c] = "push"
      /\ UNCHANGED <<vault, nextId, imported, local, tokens, request, lockID, checkedAt>>
    BY DEF found
<1>a. unknown' \in [Client -> SUBSET Record]
    BY DEF TypeOK, Version
<1>b. e \in Receipt
    BY DEF TypeOK, Receipt
<1> HIDE DEF ReceiveVersion, e
<1>c. /\ pc'[c] \in {"push", "refused"} /\ (pc'[c] = "push" => found = {}) /\ (pc'[c] = "refused" => conflicts'[c] = found)
      /\ \A d \in Client : d # c => pc'[d] = pc[d] /\ conflicts'[d] = conflicts[d] /\ pushed'[d] = pushed[d]
      /\ pushed'[c] = pushed[c] \cup {e}
    BY <1>1 DEF TypeOK
<1>2. TypeOK'
  <2>1. conflicts' \in [Client -> SUBSET Row]
      BY <1>0, <1>1 DEF TypeOK
  <2>2. pushed' \in [Client -> SUBSET Receipt]
      BY <1>1, <1>b DEF TypeOK
  <2> QED
      BY <1>1, <1>a, <2>1, <2>2 DEF TypeOK
<1>3. Drawn' /\ OwnTokens' /\ OffIsEmpty' /\ PushTokens'
    BY <1>1, <1>c DEF TypeOK, OffIsEmpty, Drawn, OwnTokens, PushTokens
<1>4. ReceivedBefore'
    BY <1>1, <1>c DEF TypeOK, ReceivedBefore, e
<1>5. PushChecked'
  <2> SUFFICES ASSUME NEW d \in Client, pc'[d] = "push", NEW g \in pushed'[d], NEW l \in vault,
                      l.owner # d, Covers(l, PathOf[g.version.record], g.version.branch)
               PROVE  ~g.checked \/ g.at <= l.id
      BY <1>1 DEF PushChecked, Covers
  <2>1. CASE d = c /\ g = e
    <3>1. l.id \notin tokens[c]
        BY <1>1, <2>1 DEF OwnTokens, PushTokens
    <3>2. found = {}
        BY <1>c, <2>1
    <3>3. tokens[c] \in SUBSET Id
        BY DEF TypeOK
    <3>4. l \in CheckLocks(PathOf[v.record], v.branch, FALSE, tokens[c])
        BY <2>1, <3>1, <3>3, PushCheckFinds DEF e
    <3> QED
        BY <2>1, <3>2, <3>4 DEF e, found
  <2>2. CASE d # c \/ g \in pushed[c]
      BY <1>1, <1>c, <2>2 DEF TypeOK, PushChecked
  <2> QED
      BY <1>c, <2>1, <2>2
<1>6. GrantChecked' /\ LocksExclude'
    BY <1>1, <1>c DEF TypeOK, GrantChecked, LocksExclude, CheckedLater
<1>7. NeverBlockedBySelf'
    BY <1>0, <1>1, <1>c DEF TypeOK, NeverBlockedBySelf, ConflictIds, PushTokens
<1> QED
    BY <1>2, <1>3, <1>4, <1>5, <1>6, <1>7

\* Every step of every client keeps the inductive invariant.
LEMMA NextIInv == IInv /\ [Next]_vars => IInv'
<1> SUFFICES ASSUME IInv, [Next]_vars PROVE IInv'
    OBVIOUS
<1>1. CASE UNCHANGED vars
    BY <1>1 DEF vars, stores, asked, pushing, IInv, TypeOK, OffIsEmpty, Drawn, OwnTokens, PushTokens,
                ReceivedBefore, GrantChecked, PushChecked, Covers, LocksExclude, CheckedLater,
                NeverBlockedBySelf, ConflictIds
<1>2. CASE Next
  <2> PICK c \in Client : Command(c) \/ Step(c) \/ Disconnect(c)
      BY <1>2 DEF Next
  <2>1. ASSUME NEW t \in Target, BreakLocks(c, t[1], t[2])
        PROVE  IInv'
    <3> DEFINE r == [path |-> t[1], branch |-> t[2], steal |-> TRUE, grant |-> FALSE]
    <3>1. r \in Request /\ Ask(c, r, {})
        BY <2>1, TargetAssumption DEF BreakLocks, Request
    <3> QED
        BY <3>1, AskKeeps
  <2>2. ASSUME NEW t \in Target, NEW steal \in BOOLEAN, AcquireLock(c, t[1], t[2], steal)
        PROVE  IInv'
    <3> DEFINE r == [path |-> t[1], branch |-> t[2], steal |-> steal, grant |-> TRUE]
    <3>1. r \in Request /\ Ask(c, r, local[c])
        BY <2>2, TargetAssumption DEF AcquireLock, Request
    <3>2. local[c] \in SUBSET Id
        BY DEF IInv, TypeOK
    <3> QED
        BY <3>1, <3>2, AskKeeps
  <2>3. CASE \E chosen \in SUBSET local[c] : ReleaseLocks(c, chosen) \/ ReleaseAnyway(c, chosen)
      BY <2>3, ReleaseKeeps
  <2>4. CASE Push(c)
      BY <2>4, PushKeeps
  <2>5. CASE GrantRequest(c)
      BY <2>5, GrantKeeps
  <2>6. CASE ReceiveGrant(c)
      BY <2>6, ReceiveGrantKeeps
  <2>7. CASE ReceiveRefusal(c) \/ Disconnect(c)
    <3>1. Close(c) /\ UNCHANGED <<vault, nextId, imported, local>>
        BY <2>7 DEF ReceiveRefusal, Disconnect, stores
    <3> QED
        BY <3>1, CloseKeeps DEF IInv, TypeOK
  <2>8. CASE ReceiveRelease(c)
    <3>1. /\ Close(c) /\ UNCHANGED <<vault, nextId, imported>>
          /\ local' \in [Client -> SUBSET Id] /\ local'[c] \subseteq local[c]
          /\ \A d \in Client : d # c => local'[d] = local[d]
        BY <2>8 DEF ReceiveRelease, stores, IInv, TypeOK
    <3> QED
        BY <3>1, CloseKeeps DEF IInv, TypeOK
  <2>9. CASE PushHead(c)
    <3>1. Close(c) /\ UNCHANGED <<vault, nextId, local>> /\ imported' \subseteq Version
        BY <2>9 DEF PushHead, IInv, TypeOK, Receipt
    <3> QED
        BY <3>1, CloseKeeps DEF IInv, TypeOK
  <2>10. CASE \E v \in Version : ReceiveVersion(c, v)
      BY <2>10, ReceiveVersionKeeps
  <2> QED
      BY <2>1, <2>2, <2>3, <2>4, <2>5, <2>6, <2>7, <2>8, <2>9, <2>10 DEF Command, Step
<1> QED
    BY <1>1, <1>2

\* The inductive invariant holds throughout.
THEOREM Inductive == Spec => []IInv
  BY InitIInv, NextIInv, PTL DEF Spec

-----------------------------------------------------------------------------
(* The results *)

\* Every variable keeps its type.
THEOREM TypeCorrect == Spec => []TypeOK
  BY Inductive, PTL DEF IInv

\* Two clients hold locks on one path only after a race, or a directory over a file.
THEOREM LocksExcludeHolds == Spec => []LocksExclude
  BY Inductive, PTL DEF IInv

\* No client is refused for a lock it holds.
THEOREM NeverBlockedBySelfHolds == Spec => []NeverBlockedBySelf
  BY Inductive, PTL DEF IInv

\* What other clients had locked when a version was checked is not overwritten.
THEOREM LockedPathsKeptHolds == Spec => LockedPathsKept
<1> DEFINE A == \A c \in Client : pc[c] = "push" /\ pc'[c] = "off" /\ imported' # imported =>
                  \A e \in pushed[c], l \in vault :
                    l.owner # c /\ Covers(l, PathOf[e.version.record], e.version.branch)
                      => ~e.checked \/ e.at <= l.id
<1>1. IInv => A
    BY DEF IInv, PushChecked
<1>2. IInv /\ [Next]_vars => [A]_vars
    BY <1>1
<1> QED
    BY <1>2, Inductive, PTL DEF Spec, LockedPathsKept

\* What a request that goes on may break meets it, and is none of the locks
\* whose tokens came with it.
ConflictsMeet ==
  \A c \in Client : pc[c] = "grant" =>
    \A l \in conflicts[c] : Meets(request[c], l) /\ l.id \notin tokens[c]

\* A lock that stands in the way of a request meets it.
LEMMA FoundMeets ==
  ASSUME TypeOK, NEW r \in Request, NEW held,
         NEW l \in CheckLocks(r.path, r.branch, r.grant, held)
  PROVE  Meets(r, l) /\ l.id \notin held
<1>1. l.path \in Path /\ r.path \in Path
    BY DEF CheckLocks, TypeOK, Row, Request
<1>2. SameBranch(r.branch, l.branch) /\ l.id \notin held
    BY DEF CheckLocks
<1>3. CASE l.path = Full \/ r.path = Full
    BY <1>2, <1>3 DEF Meets
<1>4. CASE l.path # Full /\ r.path # Full
  <2>1. Overlaps(r.path, l.path, r.grant)
      BY <1>4 DEF CheckLocks
  <2>2. r.path \in PrefixesOf[r.path]
      BY <1>1, <1>4
  <2>3. StartsWith(r.path, l.path) \/ StartsWith(l.path, r.path)
      BY <2>1, <2>2 DEF Overlaps, StartsWith
  <2> QED
      BY <1>2, <2>3 DEF Meets
<1> QED
    BY <1>3, <1>4

\* Only a check of a request changes what its session may break.
LEMMA ConflictsMeetKeeps == IInv /\ ConflictsMeet /\ [Next]_vars => ConflictsMeet'
<1> SUFFICES ASSUME IInv, ConflictsMeet, [Next]_vars,
                    NEW d \in Client, pc'[d] = "grant", NEW l \in conflicts'[d]
             PROVE  Meets(request'[d], l) /\ l.id \notin tokens'[d]
    BY DEF ConflictsMeet
<1>1. CASE UNCHANGED <<pc[d], conflicts[d], request[d], tokens[d]>>
    BY <1>1 DEF ConflictsMeet
<1>2. ASSUME NEW r \in Request, NEW held \in SUBSET Id, Ask(d, r, held)
      PROVE  Meets(request'[d], l) /\ l.id \notin tokens'[d]
  <2>1. /\ request'[d] = r /\ tokens'[d] = held
        /\ l \in CheckLocks(r.path, r.branch, r.grant, held)
      BY <1>2 DEF Ask, IInv, TypeOK
  <2> QED
      BY <2>1, FoundMeets DEF IInv
<1>3. CASE UNCHANGED vars
    BY <1>1, <1>3 DEF vars, asked
<1>4. CASE Next
  <2> PICK c \in Client : Command(c) \/ Step(c) \/ Disconnect(c)
      BY <1>4 DEF Next
  <2>1. CASE \E t \in Target : BreakLocks(c, t[1], t[2])
    <3> PICK t \in Target : BreakLocks(c, t[1], t[2])
        BY <2>1
    <3> DEFINE r == [path |-> t[1], branch |-> t[2], steal |-> TRUE, grant |-> FALSE]
    <3>1. r \in Request /\ Ask(c, r, {})
        BY TargetAssumption DEF BreakLocks, Request
    <3>2. CASE d = c
        BY <3>1, <3>2, <1>2
    <3>3. CASE d # c
        BY <3>1, <3>3, <1>1 DEF Ask, IInv, TypeOK
    <3> QED BY <3>2, <3>3
  <2>2. CASE \E t \in Target, steal \in BOOLEAN : AcquireLock(c, t[1], t[2], steal)
    <3> PICK t \in Target, steal \in BOOLEAN : AcquireLock(c, t[1], t[2], steal)
        BY <2>2
    <3> DEFINE r == [path |-> t[1], branch |-> t[2], steal |-> steal, grant |-> TRUE]
    <3>1. r \in Request /\ Ask(c, r, local[c])
        BY TargetAssumption DEF AcquireLock, Request
    <3>2. CASE d = c
        BY <3>1, <3>2, <1>2 DEF IInv, TypeOK
    <3>3. CASE d # c
        BY <3>1, <3>3, <1>1 DEF Ask, IInv, TypeOK
    <3> QED BY <3>2, <3>3
  <2>3. CASE Close(c) \/ Push(c) \/ GrantRequest(c)
             \/ (\E v \in Version : ReceiveVersion(c, v))
             \/ (\E chosen \in SUBSET local[c] : ReleaseLocks(c, chosen) \/ ReleaseAnyway(c, chosen))
    <3>1. d # c \/ UNCHANGED pc
        BY <2>3 DEF Close, Push, GrantRequest, ReceiveVersion, ReleaseLocks, ReleaseAnyway, IInv, TypeOK
    <3> QED
        BY <2>3, <3>1, <1>1 DEF Close, Push, GrantRequest, ReceiveVersion, ReleaseLocks,
           ReleaseAnyway, asked, IInv, TypeOK
  <2> QED
      BY <2>1, <2>2, <2>3 DEF Command, Step, Disconnect, ReceiveGrant, ReceiveRefusal,
         ReceiveRelease, PushHead
<1> QED
    BY <1>3, <1>4

\* A lock goes only by its holder's release, or in the very step that serves a
\* request to steal or break that meets it.
THEOREM NoTheftUnaskedHolds == Spec => NoTheftUnasked
<1> DEFINE A == \A l \in vault \ vault' :
                  \/ pc'[l.owner] = "released" /\ l.id \in tokens'[l.owner]
                  \/ \E c \in Client : /\ pc[c] = "grant" /\ pc'[c] = "reply"
                                       /\ request[c].steal /\ Meets(request[c], l)
                                       /\ l.id \notin tokens[c]
<1>1. IInv /\ ConflictsMeet /\ Next => A
  <2> SUFFICES ASSUME IInv, ConflictsMeet, Next, NEW l \in vault, l \notin vault'
               PROVE  \/ pc'[l.owner] = "released" /\ l.id \in tokens'[l.owner]
                      \/ \E c \in Client : /\ pc[c] = "grant" /\ pc'[c] = "reply"
                                           /\ request[c].steal /\ Meets(request[c], l)
                                           /\ l.id \notin tokens[c]
      OBVIOUS
  <2> PICK c \in Client : Command(c) \/ Step(c) \/ Disconnect(c)
      BY DEF Next
  <2>1. CASE GrantRequest(c)
    <3>1. l \in conflicts[c]
        BY <2>1 DEF GrantRequest
    <3>2. Meets(request[c], l) /\ l.id \notin tokens[c]
        BY <2>1, <3>1 DEF GrantRequest, ConflictsMeet
    <3>3. pc[c] = "grant" /\ pc'[c] = "reply" /\ request[c].steal
        BY <2>1, <3>1 DEF GrantRequest, GrantChecked, IInv, TypeOK
    <3> QED
        BY <3>2, <3>3
  <2>2. CASE \E chosen \in SUBSET local[c] : ReleaseLocks(c, chosen)
    <3> PICK chosen \in SUBSET local[c] : ReleaseLocks(c, chosen)
        BY <2>2
    <3>1. l.id \in chosen /\ l.owner = c
        BY DEF ReleaseLocks, IInv, OwnTokens
    <3> QED
        BY <3>1 DEF ReleaseLocks, IInv, TypeOK
  <2>3. CASE UNCHANGED vault
      BY <2>3
  <2>4. \/ GrantRequest(c)
        \/ \E chosen \in SUBSET local[c] : ReleaseLocks(c, chosen)
        \/ UNCHANGED vault
      BY DEF Command, Step, BreakLocks, AcquireLock, Ask, ReleaseAnyway, Push, ReceiveGrant,
             ReceiveRefusal, ReceiveRelease, PushHead, ReceiveVersion, Disconnect, stores
  <2> QED
      BY <2>1, <2>2, <2>3, <2>4
<1>2. IInv /\ ConflictsMeet /\ [Next]_vars => [A]_vars
    BY <1>1
<1>3. Init => ConflictsMeet
    BY DEF Init, ConflictsMeet
<1>4. Spec => []ConflictsMeet
    BY <1>3, Inductive, ConflictsMeetKeeps, PTL DEF Spec
<1> QED
    BY <1>2, <1>4, Inductive, PTL DEF Spec, NoTheftUnasked
=============================================================================
