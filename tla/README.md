# A verification development for Versionr

Versionr is a distributed version-control system: every user has a workspace
with a full version database, and workspaces exchange versions, branches, file
data, tags and annotations with other workspaces, some of which are served as
vaults.  Its documentation promises one thing above all: "you **should not
lose any data**" (`src/Readme.md:53`).  This directory holds TLA+ models of the
parts of the program on which that promise rests, the TLC configurations that
check them on small instances, and theorems proved with TLAPS for instances of
any size.

Contents: 1 inventory, 2 the models, 3 the runs, 4 the theorems, 5 where the
code and its documentation disagree and what else does not hold, 6 what is not
modelled, 7 the plan.

## 1. Inventory

Paths are relative to the root of the repository; `Area.cs` and the files named
without a directory are those of `src/VersionrCore` and `src/VersionrCore/Network`.

### 1.1 Components, their state and their operations

| component | code | state | operations |
|---|---|---|---|
| workspace lock and transactions | `Area.cs` (`RunLocked`), `LocalDB.cs`, `WorkspaceDB.cs`, `Utilities/SQLiteExtensions.cs`, `src/SQLite/SQLite.cs` | per `Area`, a LocalDB and a WorkspaceDB connection, each with a transaction depth; SQLite's write locks and snapshots | `BeginImmediate`, `AcquireLock`, `BeginTransaction`, `InsertSafe`, `UpdateSafe`, `DeleteSafe`, `Commit`, `Rollback` |
| push to a vault | `Client.cs` (`Push`), `SharedNetwork.cs`, `Server.cs` (`PushHead`, `AcceptHeads`, `ImportVersions`), `Area.cs` (`ImportHeadNoCommit`, `MergeRemote`) | versions, heads and branches of the vault; per connection the pushed versions, received branches, temporary and result heads, merges | object queries by chunks, send, accept or reject, automerge, import, commit |
| workspace commands | `Area.cs` (`Commit`, `Merge`, `Update`, `RebaseCollapse`, `RecordChanges`, `Resolve`) | version database, object store, LocalDB (Tip, stage), working files | the commands |
| object store | `ObjectStore/StandardObjectStore.cs`, `SharedNetwork.cs` (`RequestRecordData`), `Area.cs` (`Prune`) | a row database, a blob database, loose files, temporary files, the storage transaction in memory | record, receive, complete, abort, erase, look up |
| branch journal | `Area.cs` (`ImportBranchJournal`, `ReplayBranchJournal`, ...), `SharedNetwork.cs`, `Objects/BranchJournal.cs` | entries, links to their parents, the journal tip; name, terminus and heads of branches | rename, delete, undelete, send, receive, import, replay, merge |
| pull | `Client.cs` (`Pull`, `PullVersions`), `Server.cs`, `SharedNetwork.cs` (`SendBranchHeads`), `Area.cs` (`MergeRemote`) | versions, heads and branches of the repository; per connection what was received, temporary heads, automerges | object queries by chunks, receive, work out heads, automerge, import, commit; one branch or all |
| vault locks | `Area.cs` (`GrantLock`, `CheckLocks`, `BreakLocks`), `Server.cs`, `Client.cs`, `SharedNetwork.cs` (`CheckRecord`) | lock rows of the vault, lock tokens of clients, per session the tokens sent, the request and the conflicts found | request, grant, steal, break, release, check of a push |
| tags and annotations | `Area.cs` (`ReplayTags`, ...), `SharedNetwork.cs` (`SyncJournalData`) | a journal for each repository, a map of the tips known | add, remove, exchange, replay |
| record and data transfer | `SharedNetwork.cs`, `Utilities/ChunkedStream.cs` | unknown records, requested data | ask for, send and store metadata and data |
| server | `Server.cs`, `ClientProvider.cs` | connections, backups with a reference count | accept, authenticate, serve, full clone |
| write-ahead log | `src/sqlite3/sqlite3.c` (`Wal`, the mode all databases of the program are in: `LocalDB.cs:28`, `WorkspaceDB.cs:26,37`, `StandardObjectStore.cs:186,193`, `SQLite.cs:178-187`) | database file, log file, wal-index, locks, what is synced | read, write, restart the log, checkpoint, recover, close |
| task scheduler | `Utilities/LimitedConcurrencyScheduler.cs` | a queue, a count of delegates | queue, run, inline |
| status, differences, directives, hooks, codecs, front ends, tools, vendored libraries | see `PROJECT.json` | files, configuration, streams | sequential computations and input/output |

### 1.2 How they interact

- A command and a connection of the server each load an `Area` of their own; all
  the areas of one workspace meet in its SQLite databases.  Shared state is
  protected by `RunLocked` (the write lock of LocalDB) where the code takes it,
  and only by SQLite's own locking where it does not.
- Push and pull are conversations over a connection.  What was received is
  kept in memory (`SharedNetworkInfo`) until one import under `RunLocked` and
  in one WorkspaceDB transaction.  The branch journal goes first and is the
  first thing imported; records and data are stored before the import.
- A commit writes to the object store, to WorkspaceDB and to LocalDB, which
  commit one after another.
- Locks of a vault are granted, broken and released by short handlers that take
  no workspace lock; the same tables are read when a push sends records.
- Every database is a SQLite file with a write-ahead log; processes meet in its
  shared memory, and what survives a crash is what the log says.
- Hooks are called from commit and push and can refuse or throw.

### 1.3 Behaviours that are hard

Several sessions on one workspace; an import that decides on what it read;
negotiations that go on while the other side changes; databases and files that
commit separately, with crashes and exceptions in between; retries without end;
journals that diverge and are merged; deltas that depend on other data.
`PROJECT.json` lists each hazard at its line, with the properties that cover it
or the reason why none does.

### 1.4 What makes each component correct

| component | properties |
|---|---|
| lock and transactions | bodies exclude each other after any failure; no transaction writes on what is no longer so; waiters are served |
| push | the history in the vault stays complete, nothing accepted is lost, heads only move forward, a push is atomic and is answered |
| workspace commands | data before versions, versions before the Tip, every commit under a head, merges recorded |
| object store | a row has its payload, what was stored can be read, sessions do not deadlock |
| branch journal | the journal is what the tip follows, imports are complete, no head is lost, a deleted branch has no head |
| pull | what a pull reports as done is stored with its history and under a head; no head stays that another descends from; nothing local is lost |
| vault locks | no two clients hold overlapping locks, no push bypasses a lock, nobody is stopped by a lock of their own, no lock vanishes unasked |
| write-ahead log | transactions see one image, writers extend the latest one, published transactions survive whole |
| tags and annotations | repositories that have exchanged their journals agree |

## 2. The models

| module | models | extends / instances |
|---|---|---|
| `WorkspaceLock` | `RunLocked` and the transactions of both databases | |
| `WorkspaceLock_proof` | its theorems | `WorkspaceLock`, `TLAPS` |
| `VersionStore` | the abstract specification: a store that takes in sets of versions atomically and loses none | |
| `VaultPush` | the push protocol, several clients against one vault | `Vault == INSTANCE VersionStore` |
| `VaultPush_proof` | its theorems | `VaultPush`, `TLAPS` |
| `Workspace` | commands in one workspace, its four stores, crashes | `Repository == INSTANCE VersionStore` |
| `Workspace_proof` | its theorems | `Workspace`, `TLAPS` |
| `ObjectStore` | rows, blobs and files, storage transactions, transfers, prune | |
| `ObjectStore_proof` | its theorems | `ObjectStore`, `TLAPS` |
| `BranchJournal` | the journal of branch changes across repositories | |
| `BranchJournal_proof` | its theorems | `BranchJournal`, `TLAPS` |
| `VaultLocks` | the locks a vault grants, their tokens, and the check of pushes | |
| `VaultLocks_proof` | its theorems | `VaultLocks`, `TLAPS` |
| `PullClient` | pulling one branch or all, while others push and commit | `Repository == INSTANCE VersionStore` |
| `PullClient_proof` | its theorems | `PullClient`, `TLAPS` |
| `SnapshotStore` | the abstract specification: a database with one writer, snapshots and durable commits | |
| `WriteAheadLog` | SQLite's log, wal-index, checkpoints and recovery | `Store == INSTANCE SnapshotStore` |
| `WriteAheadLog_proof` | its theorems | `WriteAheadLog`, `TLAPS` |
| `MC*` | constants for TLC | the module they are named after |

`VersionStore` is what a vault that is pushed to, a workspace and a repository
that pulls are shown to implement: one promise, three implementations.  The lock that `VaultPush` and `Workspace`
take in one step is the one `WorkspaceLock` opens up, and its `Exclusion` and
`WritesOnLatest` are the reason why they may: a body of `RunLocked` sees no
other body, and what a WorkspaceDB transaction has read is still so when it
writes.  What `WorkspaceLock`, `Workspace` and `ObjectStore` in turn take from
SQLite (one writer at a time, snapshots, "busy" for a writer whose snapshot is
stale, commits that are atomic and survive a crash) is what `WriteAheadLog` is
shown to provide: `SnapshotStore` is that contract.

Each module names its variables after the code's where there is one, has one
action per operation or step, and carries *faulty variants*, definitions named
`X_Something` for the definition `X` (in `VaultLocks`, `X_Name_Something` for
`Name`): the same operation with a bug one could
write (a missing guard, two steps swapped, a lock not taken).  No specification
uses them.  `PROJECT.json` pairs each property with a variant that breaks it.
`PROJECT.json` also maps each definition to the lines it models.

### 2.1 WorkspaceLock

A session is an `Area`.  `TryLock`, `TryLockBusy`, `WaitLock` and `LockFails`
are the outcomes of `BeginImmediate` (SQLite.cs:1101-1160) as `RunLocked` calls
it (Area.cs:8374-8399): a first attempt, then, after "busy", one that spins.
`ldepth` and `ddepth` are `_transactionDepth` of the two connections.  `snap`
says whether the snapshot of a WorkspaceDB transaction is still the latest
state, which is what SQLite looks at when a reader becomes a writer.  A session
of `Direct` also runs transactions outside `RunLocked`, as `SyncJournalData`,
`RequestLock` and `ReleaseLocks` do.  `BodyThrows`, `Refuse` and `Crash` leave
a body in every way the code has; `Unlock` is the `finally` that commits after a
`catch` that has already rolled back.

### 2.2 VaultPush

Clients commit, branch and pull in repositories of their own (`ClientCommit`,
`CreateBranch`, `ClientPull`); the vault's own user commits too (`VaultCommit`).
A push is `StartPush`, `QueryChunk` (one round of `GetVersionListInternal`: the
vault answers from its state at that moment), `SendVersions`, `BeginPushHead`
(the lock), `Consider` (one version in the loop of `AcceptHeads`), `Open` and
`Automerge` (`MergeRemote` for two heads), `HeadsResolved`, `CommitPush` and
`Reply`, or `Reject`; `Abort` is the connection breaking, in any of these.

### 2.3 Workspace

The state is the four stores and, for each process, where its command stands
and the Tip it read when it was loaded.  A commit is `BeginCommit`,
`EnterCommit`, `InsertTags`, `StoreData`, `CommitDatabase`, `FinishCommit`,
`Leave`; merge, update and rebase write files, stage and databases in the
order of the code and without the lock.  `Die` ends a process of a `Fragile`
command anywhere.  `content`, a history variable, remembers what each version
contains, so that a merge whose merge information is lost can be seen; `lost` holds the
versions of rebases that died after they had moved the Tip.

A merge or update of the files is three-way (`MergeFiles`): what the other
version has is added, what a base of the two had and the other version has not is
removed.  The removal matters for `MergeRecorded`: an update to a branch that
never took a merge takes that merge's content out of the files again, and a
commit after it needs no merge information for it.

### 2.4 ObjectStore

A store is `rows`, `blobs` and `files`.  A session collects `pending` items;
`CompleteTransaction` is `BeginComplete`, then for each item `InsertRow` and
`PutBlob`, `MoveFile` or `WriteFile`/`FinishFile`, then `CommitBlobs` and
`CommitRows`.  Receiving asks the remote, stores what came, and asks again for
the bases of the deltas (`MissingBases`, `RequestBases`).  `Fail` is an
exception, a crash or a broken connection.  `Readable` follows the chain of
deltas as `GetStreamForLookup` does.

### 2.5 BranchJournal

Several repositories have one branch in common.  `log` is the set of all
entries ever written, numbered; a repository has a subset of them, a tip, and
the branch's name, terminus and Head rows.  `RenameBranch`, `DeleteBranch`,
`Commit` and `CommitUndeletes` change them; a session sends entry by entry
(`SendEntry`), then versions, and `Import` replays the received entries
(`Replay`), adds what the conflicts ask for or a Merge entry (`Additions`), and
brings in versions and heads.  `Refuse` is an import that throws or a push that
is rejected; `NextBranch` is the next branch of a pull of all branches.  The
code's loops over heads (`DeleteHeads`), received entries (`AcceptAll`, whose
passes are `Pass`) and new entries (`AddEntries`) are recursive functions of the
number of turns taken.

The versions form a chain: a commit has the newest version as its parent, as
when users update before they commit.  Forks are the subject of `VaultPush` and
`PullClient`.

### 2.6 VaultLocks

The vault's rows are `vault`; the tokens a client keeps are `local[c]`.  A client
has one session at a time, whose handler on the server takes these steps:
`AcquireLock` and `BreakLocks` check the request (`CheckLocks`, Area.cs:1615-1661)
and `GrantRequest` is the transaction that follows, in which others may have
come before; `ReceiveGrant` is the reply, `Disconnect` its loss.  `ReleaseLocks`
and `ReceiveRelease`, or `ReleaseAnyway` when the vault cannot be reached, give
locks up.  `Push` sends the tokens, `ReceiveVersion` checks the record of each
version that arrives (`CheckRecord`), and `PushHead` imports later what was
received.  A lock row carries, as history, who holds it and how many locks had
been granted when it was checked (`since`), so that races can be named.

Paths are compared as text: `PrefixesOf` is "starts with", for which the theorems
assume only that two prefixes of a path are prefixes of each other.

### 2.7 PullClient

One repository pulls over one connection; `Others` push to the vault and commit
beside it.  `StartPull` reads the head of a branch, `QueryChunk` is one round of
`GetVersionListInternal`, `SendVersions` what `SendBranchHeads` sends,
`BeginImport` to `Commit` the body of `PullVersions`, in one transaction and under
`RunLocked`: `Consider` is a turn of its loop over versions, `Automerge` a
`MergeRemote` that succeeds.  `pushed`, `received` and `headInfo` are kept from
one branch to the next, as `pull --all` does.  `anc` is the ancestry the code
computes by walking parents and merge sources.

### 2.8 WriteAheadLog

Connections, each in a process of its own, share the database file (`db`), the
log (`log`, `logSalt`) and the wal-index (`index`).  `unsynced` and `synced` say
what a power failure can leave.  A reader takes `Choose`, `LockMark`, `Confirm`;
a writer `BeginWrite`, `RestartLog`, `WriteHeader`, `WriteFrame` for each page,
`SyncLog`, `Publish`; a checkpoint `BeginCheckpoint`, `Plan`, `CheckMark` for each
mark, `StartCopy`, `Copy` for each page, `FinishCopy`.  `Recover` rebuilds the
wal-index, `CloseLast` deletes the log.  `Crash` ends a process anywhere, and
`PowerFail` all of them.

A page holds the number of the transaction that wrote it last, a checksum the
number of the transaction before: two frames agree where the code's checksums
would, but for collisions.  Assumptions and simplifications:

- synchronous is FULL, the default, which nothing in the program changes;
- a power failure loses or keeps the frames that were not synced, from some
  point on; it does not bring back what such a frame has overwritten;
- steps the code protects by an exclusive lock of microseconds are one step
  (`walRestartHdr`; a mark that is locked, set and unlocked; recovery), and so are
  the reading of the header and the choice of the mark, which `Confirm` checks;
- to close a connection that is not the last one is the same as to crash;
- the change of a writer that died before it published may survive as a whole
  (`survivors` of `SnapshotStore`), and a change that recovery found unsynced may
  still vanish when the power fails;
- `MayOverrun = FALSE`: section 5.2.

## 3. The runs

Deadlock is checked in every run.  States are distinct states.

| run | module, configuration | states | what it shows |
|---|---|---|---|
| `lock` | `MCWorkspaceLock`, `WorkspaceLock.cfg` | small | three sessions, one of which also writes outside `RunLocked`: `Exclusion`, `WritesOnLatest`, `StaleOnlyByDirect`, `ServedUnlessStale` |
| `push` | `MCVaultPush`, `VaultPush.cfg` | 537,604 | two clients, three versions, one automerge, one branch: `HistoryComplete`, `NothingLost`, `OneHeadAtImport`, `VaultKeepsPromise` (which contains that heads only move forward) |
| `push_branches` | `MCVaultPush`, `VaultPushBranches.cfg` | 238,996 | two branches, one of them new, under fairness: `AcceptedIsStored`, `PushEnds` |
| `workspace` | `MCWorkspace`, `Workspace.cfg` | 433,548 | two processes that can die anywhere, all commands but rebase: `DataStored`, `UnforcedKeepsHeads`, `CommitBecomesHead`, `RepositoryKeepsPromise` |
| `workspace_merge` | `MCWorkspace`, `WorkspaceMerge.cfg` | 301,846 | one process, all commands, commits and rebases that die anywhere, three versions on two branches: `MergeRecorded`, `TipStored`, `RepositoryKeepsPromise` |
| `workspace_rebase` | `MCWorkspace`, `WorkspaceRebase.cfg` | violation | a commit beside a rebase: section 5.1 |
| `objects` | `MCObjectStore`, `ObjectStore.cfg` | 243,358 | two sessions that fail anywhere, deltas on recorded and on received data: `RowsHavePayload`, `KeptIsReadable` |
| `objects_complete` | `MCObjectStore`, `ObjectStoreLive.cfg` | 70,527 | recording, receiving and pruning with all kinds of payload, under fairness: `CompleteEnds` |
| `journal` | `MCBranchJournal`, `BranchJournal.cfg` | 806,146 | two clients and a vault, three entries: `TipIsLast`, `NothingMissing`, `ImportDelivers`, `HeadsSurvive` |
| `vault_locks` | `MCVaultLocks`, `VaultLocks.cfg` | 3.27 million | two clients, a directory and a file in it: `LocksExclude`, `NeverBlockedBySelf`, `LockedPathsKept`, `NoTheftUnasked` |
| `pull` | `MCPullClient`, `PullClient.cfg` | 139,034 | a repository that pulls two branches while others commit and push on both sides: `PulledIsStored`, `HeadsApart`, `RepositoryKeepsPromise` |
| `wal` | `MCWriteAheadLog`, `WriteAheadLog.cfg` | 139,474 | two processes, crashes anywhere and power failures: `StoreIsKept`, the refinement of `SnapshotStore` |

### 3.1 Bounds, and why they are enough

- *Lock.* Three sessions: a holder, a waiter, and one that writes outside the
  lock.  The theorems cover any number.
- *Push.* A lost or rewound head needs two writers on one branch and versions of
  both sides: two clients and the vault's user, three commits and one automerge
  give a push that queries while another imports, a push onto a head that
  moved, an automerge and a push after it.  Two branches with two versions
  give a branch created at a version that is not pushed yet and a push that
  updates two heads.  The theorems cover any number.
- *Workspace.* Every interleaving of two processes at one commit each, with a
  merge, update or pull in between; for `MergeRecorded`, three versions so that
  a merge of a merge occurs.  `Edit` stands for any change of the user.  The
  theorems cover any number.
- *Object store.* Three data: a base, a delta received on it and a delta
  recorded on it.  `objects` puts all payloads in blobs and does not prune; this
  is where `RowsHavePayload` holds (section 5.2).  `objects_complete` has all
  kinds of payload and prune, and sessions that do not fail.
- *Journal.* Three entries, the ones imports write included: two concurrent
  changes and the Merge entry that joins them, or a deletion and the entries of
  the conflict it meets.  Only clients make changes (`Writers`); the vault still
  merges diverged journals.  Users answer a contradicted deletion by undeleting
  the branch or by moving the terminus: to accept it is to drop the newer
  head, by request.  The theorems cover any number of entries, versions and
  repositories, and all answers.
- *Vault locks.* Two locks, one of which is asked for, stolen or broken by the
  other client; a full lock, a directory and a file in it are the three ways one
  path can cover another; two versions in a push let the second one be skipped.
  The theorems cover any clients, paths, branches, locks and versions.
- *Pull.* Three versions and an automerge on two branches: two versions are
  received and one is committed locally, or a branch is created, pulled after
  the other and has versions of its own; versions of one branch reach the
  other as merge sources.  The theorems cover any number.
- *Write-ahead log.* Two connections: a writer or checkpoint, and a reader, writer
  or checkpoint beside it.  Two transactions of one or two pages: the second
  follows the first in the log, or restarts it, or is overwritten after a
  rollback.  Two read marks of the four the code has: one that is taken and one that is free, and a
  request with none free.

### 3.2 Fairness

- A thread that is inside `RunLocked` or a transaction runs on (weak fairness of
  `Advance`, `Serve`, `Gather`/`Complete`/`Erase`): these are straight-line code
  with loops over finite lists.
- The loops of `BeginImmediate(true)` and of `InsertSafe` and `UpdateSafe`
  poll for ever.  They get a lock that becomes free again and again: strong
  fairness of `WaitLock`, `Write`, `BeginPushHead`, `Put` and `PutBlob`.  It is
  an assumption about scheduling, since the code has no queue.
- Nothing is assumed about users, about exceptions or about crashes: none has to
  happen, and no session has to start.
- `ServedUnlessStale` has the exception in its statement: a transaction outside
  `RunLocked` that commits under the holder of the lock makes the holder's
  writes busy for ever, and `InsertSafe` never gives up.

## 4. The theorems

All are proved by `tlapm` to the last leaf, from the assumptions the modules
state on their constants, which every run evaluates.

**`WorkspaceLock_proof`**, for any set of sessions.  `TypeCorrect`,
`RunLockedExcludes` (`Exclusion`), `NoLostUpdate` (`WritesOnLatest`) and
`OnlyDirectDisturbs` (`StaleOnlyByDirect`).  The invariant says who holds which
write lock: a session past `waiting` in `RunLocked` is `lwriter` with depth 1, a
session that is `dirty` is `dwriter` and its snapshot is fresh.

**`VaultPush_proof`**, for any clients, versions and branches.  `TypeCorrect`,
`VaultHistoryComplete`, `NoVersionLost`, `HeadsForward`, `ImportFindsOneHead`,
`AcceptedStored` and `VaultImplementsStore` (every step of the protocol is a step
of `VersionStore` or a stutter).  None of the properties is inductive: that the
history stays complete depends on what a connection has in memory.  The
invariant is

    IInv == /\ TypeOK /\ GraphOK /\ AncestryIsLeast /\ BranchesRooted
            /\ VaultOK /\ AcceptedIsStored /\ LockOK
            /\ \A c \in Clients : PushedOK(c) /\ TransactionOK(c)

- `GraphOK`, `AncestryIsLeast`: the version graph is closed under parents and
  `anc` is the least set that is, which stands in for induction over it;
- `BranchesRooted`: every branch has an origin and its versions descend from it;
- `VaultOK`: `HistoryComplete`, `NothingLost` and heads that are stored;
- `LockOK`: a connection inside `PushHead` is the one that holds the lock;
- `PushedOK(c)`: what the connection was sent is closed, together with what the
  vault has: what the vault answered in an earlier chunk stays true, because
  the vault only grows;
- `TransactionOK(c)`: inside `PushHead`, every version considered so far is
  under a temporary head, and so is every old head.

`OthersUndisturbed` and `OwnStep` divide each action: what the other
connections know stays true because the graph and the vault only grow, and
what its own connection knows is shown action by action.

**`ObjectStore_proof`**, for any sessions, data and remotes.  `TypeCorrect`,
which contains that no datum is recorded or received as a delta on itself.
`PayloadsComplete`: every committed row has its payload, in a store that is not
pruned and whose files are renamed into place (`Erasable = {}`,
`"written" \notin Places`), with

    IInv == Typed /\ OnlyPuts /\ PayloadsPut /\ BlobsFirst /\ RowsWhole

(no session erases; a row inserted and not committed has its payload put by the
same session or found; blobs commit before rows; committed rows are whole).  The
two assumptions are needed: section 5.2.

`KeptReadable` (`KeptIsReadable`): what a commit recorded or a push delivered can be
read through its chain of deltas.  These assumptions and three more are needed
(section 5.2): the remotes encode data alike (`Alike`), each without circles
(`Founded`), and have flat what is also recorded here (`RecordedFlat`).  TLC finds
`KeptIsReadable` violated when any one of the five is dropped; the run `objects`
satisfies them all.  The proof has two layers:

- *Chains.*  `Reaches` asks for a chain no longer than there are data.
  `DeltaReaches`: a row whose base is reached is reached, because a shortest chain
  has no datum twice (`ShortestChain`, `RestOfChain`) and so has room for one more
  (the pigeonhole principle).  `ReachesMore`: rows that are added take nothing away.
- *The invariant* `KInv` adds to `IInv`: each row is flat, a delta on data that is
  reached, or as a remote encodes it (`RowsBased`); what is kept is reached
  (`KeptReached`); and, for each session, there is a set of data it has
  `Gathered` so far, in this request and in earlier ones, that has all it is for
  and all that depends on, as far as that is not still to be looked up
  (`SessionOK`).  This set is needed because `requested` and `bases` start anew with
  each request.  When nothing is missing at the end, data of the set that could not
  be reached would depend on such data without end, against `Founded`
  (`AllReached`).

**`VaultLocks_proof`**, for any clients, branches, paths, bounds.  `TypeCorrect`,
`LocksExcludeHolds`, `NeverBlockedBySelfHolds`, `LockedPathsKeptHolds` and
`NoTheftUnaskedHolds`.  None is inductive: the decision is taken in one step and
carried out in another, and the invariant says what is still true in between:

- `Drawn`, `OwnTokens`: tokens are drawn in order, and only the holder of a lock
  has its token; `PushTokens`, `OffIsEmpty`: what a session was sent is what the
  client has, and nothing is left when a session ends;
- `GrantChecked`, `PushChecked`: every lock in the way of a request or of a
  version was found when it was checked, or is younger; `ReceivedBefore`: no
  version was checked in the future.

**`PullClient_proof`**, for any branches, versions and others at work on both
sides.  `TypeCorrect`, `PulledStored` (`PulledIsStored`), `HeadsStayApart`
(`HeadsApart`) and `RepositoryImplementsStore`.  The invariant is the push's with
the sides exchanged: `VaultOK` is little, since the vault only answers;
`RepositoryOK` is completeness, heads above everything and heads on their branch;
`PulledOK` says that what was received is closed together with what the
repository has, from one branch of a `pull --all` to the next; `TransactionOK`
that the temporary heads of a branch cover its heads and every version the loop
has considered, and that none of them can be reached from another if that was so
of the heads the import began with.  That condition is what `HeadsApart` needs.

**`Workspace_proof`**, for any processes, commands, versions and branches, with
crashes.  Three groups, by what they need:

- `TypeCorrect`, `DataIsStored` and `TipIsStored` hold as they stand, whatever
  runs beside whatever and dies wherever.  The invariant `IInv` has `GraphOK`
  and `HeadsStored` for the database, and `ProcessOK` for each process: it has the
  lock in `locked`, `stored` and `saved` only; the identifier it has chosen is
  free and no other process has chosen it; its data is stored before the
  version is.
- `HeadOfTheBranch` (`CommitBecomesHead`), `HeadsNotAdded` (`UnforcedKeepsHeads`)
  and `WorkspaceImplementsStore` assume `Calm`: no command rebases, or one process
  runs alone.  `HeadsOK` adds to the invariant that every version is under a head
  and that what a commit has found of the heads (`headMode`) is still so when it
  writes.  A rebase moves heads without the lock, and the run
  `workspace_rebase` shows that the second half fails then (section 5.1).
- `MergesAreRecorded` (`MergeRecorded`) assumes `OneByOne`: one process, whose merges
  and updates do not die.  `ContentOK` says where each thing in the files comes
  from: from the version the workspace is based on, or from the ancestors of a
  merge that is staged, and in between which of the two a command that has
  written the files is about to make it.  A merge that dies before it stages leaves
  merged files without merge information (section 5.2).

**`BranchJournal_proof`**, for any repositories, sessions, names and bounds.
`TypeCorrect`, `JournalIsTip` (`TipIsLast`), `NothingIsMissing` (`NothingMissing`)
and `ImportsDeliver` (`ImportDelivers`).  The proof has three layers:

- *Induction.*  `FromBelow`: what holds of a number when it holds of all before it
  holds of all numbers, from the least counterexample in a set (the library's own
  induction theorems cannot be instantiated here).  With it `AncestryExists` and
  `Recursion` show that the recursive functions of the model are functions, and
  `EachTurn` that what one turn of a loop keeps is kept by any number of turns.
- *Operators.*  `FollowedFacts`: what an entry follows are older entries, with all
  they follow; `FollowedStays`: it does not change when the log grows; `Walk`: while
  an import accepts entries, the journal has the parents of what it has, and once it
  has the entry the sender started from, that one is the last accepted; hence
  `AllAccepted` and `ImportKeeps`, what a whole import leaves.
- *The invariant* `IInv` is `TypeOK`, `LogOK`, `Journals`, `TipIsLast` and, for each
  session `s`, `SessionOK(s)`.  `LogOK`: the log is ordered, parents before children.  `SessionOK(s)`: what was sent
  follows the entry `from[s]`; each of its parents is received, known to the
  receiver, or on the stack.  Together with `TipIsLast` this says that an entry the
  receiver acknowledged has all below it, which is why the sender may stop there.

**`WriteAheadLog_proof`**, for any connections, pages, transactions and read marks.
`TypeCorrect` (`TypeOK`) contains what sqlite3.c:54806 says, that `nBackfill` is never
greater than `mxFrame`.  The invariant `IInv` adds to it

- `LogOK`: the wal-index speaks of frames that are in the log;
- `ReaderOK`: a reader that is to ignore the log, because all of it has been copied,
  finds that still so as long as the header is the one it read.  This is why the
  writer it may become restarts the log only when no checkpoint is copying, and is
  what the code asserts there (sqlite3.c:57360);
- `WriterOK`: a writer extends the header of the wal-index, or restarts it, and the
  frames it has written and has left are as many as its pages, so that the log
  stays within its bound;
- `CheckpointOK`: a checkpoint that copies has a header of the same log, and that log
  is not copied completely; `Exclusive`: there is one writer and one checkpoint.

It has two hypotheses, and `TypeOK` fails without either (section 5.2): no checkpoint
overruns a restart (`MayOverrun = FALSE`, as in the run), and no recovery comes between
a reader's decision to ignore the log and its lock (`RecoveryApart`).  The run `wal`
does not assume the second; its bounds are too small for it to matter.

**Only model-checked.**  Liveness (`ServedUnlessStale`, `PushEnds`,
`CompleteEnds`), which is beyond this prover; `HeadsSurvive` of `BranchJournal`;
`StoreIsKept` of `WriteAheadLog`.

## 5. Where the code does something else, and limits of what holds

### 5.1 A commit beside a rebase ends under no head (`workspace_rebase`)

`RebaseCollapse` does not use `RunLocked`, and commits LocalDB (Area.cs:2350)
before WorkspaceDB (2351).  A commit that enters in between finds the Head row
of its parent (7896), opens its transaction after the rebase has deleted that
row, and moves the head with `UpdateSafe` (8313), which ignores that no row
changed.  `Commands/Commit.cs:28` says that commit "will then update the current
branch head information to point to the newly created version."

### 5.2 Known limits of what holds, without a run

These were met while modelling.  Each is in the model unless it says otherwise;
where a property would fail because of it, the run or theorem excludes it and
says so.

*Workspace*

- A rebase that dies between its two commits leaves a Tip the database lacks;
  the next command (`RecoverTip`) moves the workspace to the initial version with
  all its files as changes.  The history variable `lost` holds the versions of
  such rebases; `TipStored` allows for them and `MergeRecorded` claims nothing
  once there is one.
- A merge that dies before its last step leaves merged files without merge
  information; in `workspace_merge` merges and updates do not die.
- Initial tags of a commit are written outside its transaction and stay when a
  hook refuses the commit; the post-commit hook throws after the version is saved.

*Object store*

- `EraseData` deletes files at once and rows in a transaction, so that a busy
  delete leaves rows without files; a file written in place can be left partial
  by a crash and be adopted later.
- `Prune` erases the data of all records it does not preserve
  (Area.cs:9463-9481) without a look at `DeltaBase`, nor at preserved records
  with the same data: what was a delta on them cannot be read any more
  (`Erasable`; `Commands/Prune.cs:18` says "Prunes object data from older
  versions.").
- `RequestRecordData` commits deltas before it asks for what they depend on
  (SharedNetwork.cs:1174, 1198).  If the connection breaks in between, the row of a
  delta without its base stays; the same data received in another encoding is then
  dropped (StandardObjectStore.cs:1029-1033), counts as received, and cannot be
  read.  With `Encodings <- TwoRemotes`, TLC shows `KeptIsReadable` violated.  The
  same happens to a commit that records the data while such a transfer runs: its
  item is dropped too, and the commit succeeds (`Recordable <- AandB`).

*Branch journal*

- `AcceptHeads` and `ImportHeadNoCommit` do not look at `Branch.Terminus`: a client
  that has not seen the deletion of a branch makes the vault insert a Head row
  for it.  The client does look when it pulls (Client.cs:910).  A later undeletion
  inserts a second row, after which every push to the branch is rejected.
- Two repositories that rename a branch at the same time, and then exchange and
  merge their journals, can have the same journal tip and different names: the
  Merge entry settles nothing, and each replays the other's change last.  The
  same goes for the terminus.
- Undeleting a branch that is not deleted is an exception on replay (Area.cs:3117
  parses a null operand), and so is a conflict met by an entry that an import
  writes (4077 passes null for the conflicts).
- A pull of all branches keeps the entries it has received from branch to branch
  (Client.cs:786-836) and fails at the second branch when there were any.

*Tags* (not modelled)

- Tag entries that change nothing are skipped and not recorded, and are replayed
  when they arrive again; overlapping exchanges can replay an older batch after
  a newer one and set the tip back; `AddTag` looks for duplicates outside its
  transaction; a clock that is set back reorders entries.

*Vault locks*

- `Commands/Lock.cs:46` says that stealing "Invalidates other locks on the server
  that conflict with your lock."  A request for a directory or for the whole vault
  does not find locks on files below it (Area.cs:1652), nor is it stopped by
  them; `LocksExclude` excepts this.
- Two requests that are checked before either is granted are both granted; a lock
  granted after a version was checked does not keep it out; a record that the
  session has met, even on another branch, is not checked again
  (SharedNetwork.cs:1533).  The properties name these cases.
- Paths are prefixes as text.  `BreakLocks` is asked without tokens and breaks the
  client's own locks too, whose tokens stay behind; a lost reply leaves a lock
  whose token nobody has, until it is broken.  `push --release-locks`
  (`Commands/Push.cs:35-36`) is read by nothing.

*Pull*

- "Too many heads in local branch to merge remote head. Please merge locally and
  try again" is printed, and the merge is made all the same: the filter before it
  (Client.cs:1010-1027) lets every local head pass.
- The heads of new branches are read when they are sent, after the walk: a branch
  whose head moved in between can stay without one until the next pull.
- A pull of all branches sends alterations and merge information of earlier
  branches again and inserts them again (data, not in the model).
- `MergeRemote` may merge on a base that is not the nearest (Area.cs:4903), which
  changes what conflicts, a choice here.
- A pull whose journal import returns false leaves its transaction open until the
  process ends.

*Write-ahead log*

- `walCheckpoint` works with a header it read before it looks at `nBackfill`
  (sqlite3.c:56227).  If a writer restarts the log in between, the checkpoint
  copies frames and sets `nBackfill` by the numbers of the log that was, and
  "The nBackfill number is never greater than WalIndexHdr.mxFrame"
  (sqlite3.c:54806) is no longer so: frames are taken to be in the database that
  are not, and a later restart drops them.  With `MayOverrun = TRUE` TLC finds
  both `TypeOK` and `StoreIsKept` violated.  It takes a log that is
  copied completely, and a write by another process between two lines of the
  next checkpoint.
- A reader decides to ignore a log that has been copied completely, and compares
  the header once it has its lock (sqlite3.c:56849).  A recovery in between, after a
  writer died with one copy of the header written, restores the header as it was,
  if no transaction was published since the recovery before, but sets `nBackfill`
  to 0.  A checkpoint that copies a part of the log, held back by the mark of an
  older reader, then makes `nBackfill` neither 0 nor `mxFrame`; the reader's
  comparison succeeds, it becomes a writer and restarts the log although
  `nBackfill==pWal->hdr.mxFrame`, asserted at sqlite3.c:57360, is false; and another
  checkpoint that is between its marks and its copies makes `nBackfill` greater than
  `mxFrame`.  The model has this behaviour, with three connections and five
  transactions, beyond the bounds of the run `wal`; `RecoveryApart` excludes it.

## 6. What is not modelled

- *Data.* File contents, hashes, compression, differences and merges of texts;
  whether a merge conflicts is a choice.  Records and alterations of a version
  are part of the version.
- *The network.* Messages of one connection arrive in order or the connection
  breaks; encryption, authentication, packing and chunking are left out.
- *SQLite* is modelled from its use (one writer, snapshots, busy answers, atomic
  commits that survive a crash), and the part on which this rests, its
  write-ahead log, from its source.  Of that part: pages spilled to the log before
  a commit and savepoints (with the checksums rewritten for them), padding to
  sectors, checkpoints that are not passive, reads of a header while it is
  written, I/O errors other than as a rollback or a crash.  The rest of SQLite,
  LZHAM, LZHL, libxdiff and Grapevine are libraries: nearly all the C and C++ of the
  repository is theirs, while the program itself is written in C#.
- *Commands:* checkout, stash, restricted paths, externals, branch creation
  beside journals, ChangeMetadata entries.
- *In `BranchJournal`:* forks of versions (concurrent commits on the branch),
  several branches beyond what `NextBranch` keeps, entries about branches the
  repository does not know (their replay does nothing), clones.
- *In `PullClient`:* the records, tags and journal that travel with a pull, branches
  that were deleted, the base of a merge.
- *In `VaultLocks`:* listing locks, which changes nothing; alterations that name a
  record the vault knows, which are always checked.
- *In `VaultPush`:* pushes to a vault that is itself a client of another; hooks
  are a refusal at any time.
- Components with status `not_modelled` in `PROJECT.json`, each with its reason.

## 7. Plan

Done: the lock, the push protocol with its abstract store, the workspace, the
object store, the branch journal, vault locks, the pull and the write-ahead log.
In this order comes next:

1. `WriteAheadLog_proof`: that the pages of the database a reader relies on are those
   of its image, and with it `StoreIsKept`.
2. `TagJournal`: the exchange of tag and annotation journals (Area.cs:1069-1160,
   SharedNetwork.cs:484-544): repositories that exchanged everything agree.
3. `MergeBase`: `GetSharedParentGraphMinimal` and `GetParentGraphRemote`
   (Area.cs:4840-5000, 6502-6595) against a definition of the nearest common
   ancestors, on all small graphs.
4. Checkout and stash in `Workspace`; `FullClone`, the shared backup of the
   server (Server.cs:757-850); `Scheduler`,
   `Utilities/LimitedConcurrencyScheduler.cs`.

A new module takes over a run of an older one where their questions can be asked
together, so that the set of runs stays one that is worth reading.
