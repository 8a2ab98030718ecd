---------------------------- MODULE WorkspaceLock ----------------------------
(***************************************************************************)
(* How sessions share one workspace on disk.  A session is one Area object *)
(* (a command-line process, or one connection of the server, which loads   *)
(* its own Area): it owns one connection to the local state database       *)
(* (LocalDB) and one to the version database (WorkspaceDB).                *)
(*                                                                         *)
(* Area.RunLocked takes the write lock of LocalDB (BEGIN IMMEDIATE), runs  *)
(* its body and gives the lock back; the bodies that change the version    *)
(* database (commit, the server's PushHead, the client's pull) open a      *)
(* WorkspaceDB transaction inside.  Other handlers (SyncJournalData,       *)
(* RequestLock, ReleaseLocks) open a WorkspaceDB transaction WITHOUT       *)
(* RunLocked: the sessions of Direct may do so.                            *)
(*                                                                         *)
(* Both databases are SQLite files in WAL mode.  A transaction begun with  *)
(* "begin transaction" takes its snapshot at its first read, and may write *)
(* only while nobody else holds the write lock and nobody committed since  *)
(* that snapshot; otherwise the statement answers Busy, and InsertSafe,    *)
(* UpdateSafe and DeleteSafe retry it for ever.                            *)
(*                                                                         *)
(* A session may stop and wait for an answer from outside while it holds   *)
(* these locks: PullVersions asks the user what to do with a deleted       *)
(* branch (Console.ReadLine in ReplayBranchJournal), a commit runs its     *)
(* hooks, and Revert asks the user inside a LocalDB transaction that it    *)
(* begins without RunLocked.                                               *)
(***************************************************************************)
EXTENDS Integers

CONSTANTS Sessions,   \* the Area objects open on this workspace
          Direct,     \* those that also run transactions outside RunLocked
          None        \* "nobody holds this write lock"

ASSUME DirectAssumption == Direct \subseteq Sessions
ASSUME NoneAssumption == None \notin Sessions

VARIABLES
  pc,        \* pc[s]: where the session's thread stands
  mode,      \* mode[s]: "none", "locked" (in RunLocked), "direct" or "local"
  ldepth,    \* ldepth[s]: _transactionDepth of its LocalDB connection
  lwriter,   \* who holds the write lock of LocalDB
  ddepth,    \* ddepth[s]: _transactionDepth of its WorkspaceDB connection
  snap,      \* snap[s]: its WorkspaceDB snapshot: "none", "fresh" or "stale"
  dwriter    \* who holds the write lock of WorkspaceDB

vars == <<pc, mode, ldepth, lwriter, ddepth, snap, dwriter>>

Places == {"idle", "waiting", "stamp", "begin", "read", "work", "writing",
           "dirty", "asking", "local", "unlock", "failed"}

Init ==
  /\ pc = [s \in Sessions |-> "idle"]
  /\ mode = [s \in Sessions |-> "none"]
  /\ ldepth = [s \in Sessions |-> 0]
  /\ lwriter = None
  /\ ddepth = [s \in Sessions |-> 0]
  /\ snap = [s \in Sessions |-> "none"]
  /\ dwriter = None

localVars == <<ldepth, lwriter>>
dbVars == <<ddepth, snap, dwriter>>

Goto(s, place) == pc' = [pc EXCEPT ![s] = place]

----------------------------------------------------------------------------
(* RunLocked, up to its body *)

\* Faulty variant of TryLock: a deferred "begin", which nobody is refused.
TryLock_Deferred(s) ==
  /\ pc[s] = "idle" /\ ldepth[s] = 0
  /\ ldepth' = [ldepth EXCEPT ![s] = 1]
  /\ lwriter' = s
  /\ mode' = [mode EXCEPT ![s] = "locked"]
  /\ Goto(s, "stamp")
  /\ UNCHANGED dbVars

\* BeginImmediate(false): the compare-and-swap on _transactionDepth, then
\* BEGIN IMMEDIATE, which succeeds when LocalDB has no writer.
TryLock(s) ==
  /\ pc[s] = "idle" /\ ldepth[s] = 0
  /\ lwriter = None
  /\ ldepth' = [ldepth EXCEPT ![s] = 1]
  /\ lwriter' = s
  /\ mode' = [mode EXCEPT ![s] = "locked"]
  /\ Goto(s, "stamp")
  /\ UNCHANGED dbVars

\* BEGIN IMMEDIATE answers Busy: the depth goes back to 0, RunLocked warns
\* and calls BeginImmediate(true), which takes the depth again and spins.
TryLockBusy(s) ==
  /\ pc[s] = "idle" /\ ldepth[s] = 0
  /\ lwriter # None
  /\ ldepth' = [ldepth EXCEPT ![s] = 1]
  /\ mode' = [mode EXCEPT ![s] = "locked"]
  /\ Goto(s, "waiting")
  /\ UNCHANGED <<lwriter, dbVars>>

\* Faulty variant of WaitLock: the spin ends whether or not it got the lock.
WaitLock_GivesUp(s) ==
  /\ pc[s] = "waiting"
  /\ Goto(s, "stamp")
  /\ UNCHANGED <<mode, ldepth, lwriter, dbVars>>

\* One turn of the spin finds LocalDB without a writer.
WaitLock(s) ==
  /\ pc[s] = "waiting"
  /\ lwriter = None
  /\ lwriter' = s
  /\ Goto(s, "stamp")
  /\ UNCHANGED <<mode, ldepth, dbVars>>

\* BEGIN IMMEDIATE fails for another reason (disk full, I/O error): the depth
\* is cleared, by RollbackTo or by the Rollback in RunLocked's catch, and the
\* exception leaves RunLocked.
LockFails(s) ==
  /\ pc[s] = "waiting"
  /\ ldepth' = [ldepth EXCEPT ![s] = 0]
  /\ mode' = [mode EXCEPT ![s] = "none"]
  /\ Goto(s, "idle")
  /\ UNCHANGED <<lwriter, dbVars>>

\* LocalDB.AcquireLock stamps the LockingObject row inside the transaction.
AcquireLock(s) ==
  /\ pc[s] = "stamp"
  /\ Goto(s, "begin")
  /\ UNCHANGED <<mode, localVars, dbVars>>

\* A body that opens no transaction: Area.Load runs an empty one.
EmptyBody(s) ==
  /\ pc[s] = "begin"
  /\ Goto(s, "unlock")
  /\ UNCHANGED <<mode, localVars, dbVars>>

----------------------------------------------------------------------------
(* A WorkspaceDB transaction *)

\* BeginTransaction: "begin transaction" takes no lock and no snapshot.
BeginTransaction(s) ==
  /\ \/ pc[s] = "begin" /\ UNCHANGED mode
     \/ pc[s] = "idle" /\ s \in Direct /\ mode' = [mode EXCEPT ![s] = "direct"]
  /\ ddepth[s] = 0
  /\ ddepth' = [ddepth EXCEPT ![s] = 1]
  /\ Goto(s, "read")
  /\ UNCHANGED <<localVars, snap, dwriter>>

\* The first query of the transaction fixes its snapshot.
Read(s) ==
  /\ pc[s] = "read"
  /\ snap' = [snap EXCEPT ![s] = "fresh"]
  /\ Goto(s, "work")
  /\ UNCHANGED <<mode, localVars, ddepth, dwriter>>

\* The handler calls InsertSafe / UpdateSafe / DeleteSafe; GrantLock and
\* ImportBranches do so before any query of their transaction.
StartWrite(s) ==
  /\ pc[s] \in {"read", "work"}
  /\ Goto(s, "writing")
  /\ UNCHANGED <<mode, localVars, dbVars>>

\* Faulty variant of Write: a snapshot that is no longer the latest is written
\* on all the same.
Write_OnAnySnapshot(s) ==
  /\ pc[s] = "writing"
  /\ dwriter = None
  /\ dwriter' = s
  /\ snap' = [snap EXCEPT ![s] = IF @ = "none" THEN "fresh" ELSE @]
  /\ Goto(s, "dirty")
  /\ UNCHANGED <<mode, localVars, ddepth>>

\* A turn of the retry loop that is not answered Busy.
Write(s) ==
  /\ pc[s] = "writing"
  /\ dwriter = None
  /\ snap[s] # "stale"
  /\ dwriter' = s
  /\ snap' = [snap EXCEPT ![s] = "fresh"]
  /\ Goto(s, "dirty")
  /\ UNCHANGED <<mode, localVars, ddepth>>

EndTransaction(s) ==
  /\ ddepth' = [ddepth EXCEPT ![s] = 0]
  /\ dwriter' = IF dwriter = s THEN None ELSE dwriter

AfterTransaction(s) ==
  IF mode[s] = "locked"
    THEN Goto(s, "unlock") /\ UNCHANGED mode
    ELSE Goto(s, "idle") /\ mode' = [mode EXCEPT ![s] = "none"]

\* Commit of a transaction that wrote: every other open snapshot is now old.
Commit(s) ==
  /\ pc[s] = "dirty"
  /\ EndTransaction(s)
  /\ snap' = [t \in Sessions |->
                IF t = s THEN "none"
                ELSE IF snap[t] = "none" THEN "none" ELSE "stale"]
  /\ AfterTransaction(s)
  /\ UNCHANGED localVars

\* The body refuses the operation (RejectPush, nothing to do): it rolls the
\* transaction back, and returns normally.  PullVersions also has a return that
\* leaves its transaction open, for an ImportBranchJournal that returns false
\* (Client.cs:883-884); but every path of ReplayBranchJournal returns true or
\* throws, so ImportBranchJournal never returns false.
Refuse(s) ==
  /\ pc[s] \in {"work", "dirty"}
  /\ EndTransaction(s)
  /\ snap' = [snap EXCEPT ![s] = "none"]
  /\ AfterTransaction(s)
  /\ UNCHANGED localVars

\* The body stops to wait for an answer from outside: the user at the console,
\* or the program of a hook.
Ask(s) ==
  /\ \/ pc[s] \in {"work", "dirty"} /\ mode[s] = "locked"
     \/ pc[s] = "local"
  /\ Goto(s, "asking")
  /\ UNCHANGED <<mode, localVars, dbVars>>

\* The answer comes; the loop around Console.ReadLine may ask again.
Answer(s) ==
  /\ pc[s] = "asking"
  /\ Goto(s, IF mode[s] = "local" THEN "local"
             ELSE IF dwriter = s THEN "dirty" ELSE "work")
  /\ UNCHANGED <<mode, localVars, dbVars>>

\* An exception in the body: its catch clause rolls the transaction back and
\* rethrows.  The retry loop only throws when it is not answered Busy.
BodyThrows(s) ==
  /\ \/ pc[s] \in {"begin", "read", "work", "dirty"}
     \/ pc[s] = "asking" /\ mode[s] = "locked"
     \/ pc[s] = "writing" /\ dwriter = None /\ snap[s] # "stale"
  /\ EndTransaction(s)
  /\ snap' = [snap EXCEPT ![s] = "none"]
  /\ IF mode[s] = "locked"
       THEN Goto(s, "failed") /\ UNCHANGED mode
       ELSE Goto(s, "idle") /\ mode' = [mode EXCEPT ![s] = "none"]
  /\ UNCHANGED localVars

----------------------------------------------------------------------------
(* RunLocked, after its body *)

\* Faulty variants of Unlock: the exception path leaves without giving the lock
\* back; the Commit of finally counts the depth down once more after the
\* Rollback of catch.
Unlock_OnlyOnSuccess(s) ==
  /\ pc[s] \in {"unlock", "failed"}
  /\ ldepth' = [ldepth EXCEPT ![s] = IF pc[s] = "unlock" THEN 0 ELSE @]
  /\ lwriter' = IF pc[s] = "unlock" THEN None ELSE lwriter
  /\ mode' = [mode EXCEPT ![s] = "none"]
  /\ Goto(s, "idle")
  /\ UNCHANGED dbVars

Unlock_Twice(s) ==
  /\ pc[s] \in {"unlock", "failed"}
  /\ ldepth' = [ldepth EXCEPT ![s] = IF pc[s] = "unlock" THEN 0 ELSE 0 - 1]
  /\ lwriter' = None
  /\ mode' = [mode EXCEPT ![s] = "none"]
  /\ Goto(s, "idle")
  /\ UNCHANGED dbVars

\* finally: LocalData.Commit() ends the transaction; catch: LocalData.Rollback()
\* ends it too, and the Commit that follows finds depth 0 and does nothing.
Unlock(s) ==
  /\ pc[s] \in {"unlock", "failed"}
  /\ ldepth' = [ldepth EXCEPT ![s] = 0]
  /\ lwriter' = IF ldepth[s] > 0 THEN None ELSE lwriter
  /\ mode' = [mode EXCEPT ![s] = "none"]
  /\ Goto(s, "idle")
  /\ UNCHANGED dbVars

----------------------------------------------------------------------------
(* A LocalDB transaction outside RunLocked: Revert, RecordChanges, SetHead... *)

\* LocalData.BeginTransaction and its first write, which waits for LocalDB to
\* have no writer.
BeginLocal(s) ==
  /\ pc[s] = "idle" /\ ldepth[s] = 0
  /\ lwriter = None
  /\ ldepth' = [ldepth EXCEPT ![s] = 1]
  /\ lwriter' = s
  /\ mode' = [mode EXCEPT ![s] = "local"]
  /\ Goto(s, "local")
  /\ UNCHANGED dbVars

\* LocalData.Commit, or Rollback in the catch clause.
EndLocal(s) ==
  /\ pc[s] = "local"
  /\ ldepth' = [ldepth EXCEPT ![s] = 0]
  /\ lwriter' = None
  /\ mode' = [mode EXCEPT ![s] = "none"]
  /\ Goto(s, "idle")
  /\ UNCHANGED dbVars

----------------------------------------------------------------------------
\* The process dies: SQLite drops its locks and its uncommitted pages.
Crash(s) ==
  /\ pc[s] # "idle"
  /\ ldepth' = [ldepth EXCEPT ![s] = 0]
  /\ lwriter' = IF lwriter = s THEN None ELSE lwriter
  /\ EndTransaction(s)
  /\ snap' = [snap EXCEPT ![s] = "none"]
  /\ mode' = [mode EXCEPT ![s] = "none"]
  /\ Goto(s, "idle")

Advance(s) ==
  \/ TryLock(s) \/ TryLockBusy(s) \/ WaitLock(s) \/ AcquireLock(s)
  \/ EmptyBody(s)
  \/ BeginTransaction(s) \/ Read(s) \/ StartWrite(s) \/ Write(s)
  \/ Commit(s) \/ Refuse(s) \/ Unlock(s) \/ EndLocal(s)

Step(s) ==
  \/ Advance(s) \/ LockFails(s) \/ BodyThrows(s) \/ Crash(s)
  \/ BeginLocal(s) \/ Ask(s) \/ Answer(s)

Next == \E s \in Sessions : Step(s)

Spec == Init /\ [][Next]_vars

\* A thread that is inside RunLocked or inside a transaction keeps running,
\* unless it waits for an answer: nothing says that one ever comes.  The two
\* retry loops, on LocalDB's lock and on WorkspaceDB's, poll without end: one
\* of their turns falls on an instant at which the lock is free, if the lock
\* is free again and again (strong fairness).  Nothing forces a session to
\* start an operation, to crash or to fail.
Running(s) == pc[s] \notin {"idle", "waiting", "asking"}

Fairness ==
  \A s \in Sessions : /\ WF_vars(Running(s) /\ Advance(s))
                      /\ SF_vars(Write(s))
                      /\ SF_vars(WaitLock(s))

FairSpec == Spec /\ Fairness

----------------------------------------------------------------------------
(* Properties *)

InBody(s) == mode[s] = "locked" /\ pc[s] \notin {"idle", "waiting"}

\* Every variable holds a value of its kind.
TypeOK ==
  /\ pc \in [Sessions -> Places]
  /\ mode \in [Sessions -> {"none", "locked", "direct", "local"}]
  /\ ldepth \in [Sessions -> {0, 1}]
  /\ lwriter \in Sessions \cup {None}
  /\ ddepth \in [Sessions -> {0, 1}]
  /\ snap \in [Sessions -> {"none", "fresh", "stale"}]
  /\ dwriter \in Sessions \cup {None}

\* RunLocked is a lock: whatever failed, was refused or crashed before, two
\* sessions never execute the body of RunLocked at the same time.
Exclusion == \A s, t \in Sessions : InBody(s) /\ InBody(t) => s = t

\* No lost update: a WorkspaceDB transaction that has begun to write still
\* holds the snapshot of the last committed state, however long it waits for
\* an answer, so that what it read before deciding to write (the branch heads
\* of AcceptHeads, say) is true.
WritesOnLatest == \A s \in Sessions : dwriter = s => snap[s] = "fresh"

\* Under RunLocked a transaction can lose its snapshot only to a transaction
\* that was run outside RunLocked: two locked bodies never disturb each other.
StaleOnlyByDirect ==
  [][\A s \in Sessions :
       InBody(s) /\ snap[s] = "fresh" /\ snap'[s] = "stale"
         => \E t \in Sessions : mode[t] = "direct" /\ pc[t] = "dirty"]_vars

Waiting(s) == pc[s] = "waiting"

\* The holder of LocalDB's lock cannot go on by itself: a transaction run outside
\* RunLocked committed under it and its next InsertSafe is answered Busy for
\* ever, or it waits for an answer.
Stuck(s) == snap[s] = "stale" \/ pc[s] = "asking"

\* A session that waits for RunLocked is served, unless from some moment on one
\* and the same session keeps LocalDB's lock for ever and is stuck, again and
\* again, on a stale snapshot or on an answer.
ServedUnlessStuck ==
  \A s \in Sessions :
    \/ Waiting(s) ~> ~Waiting(s)
    \/ \E t \in Sessions : <>[](lwriter = t) /\ []<>Stuck(t)
=============================================================================
