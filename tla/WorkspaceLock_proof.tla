------------------------- MODULE WorkspaceLock_proof -------------------------
(***************************************************************************)
(* Theorems about WorkspaceLock, for any number of sessions and any choice *)
(* of the sessions that bypass RunLocked.                                  *)
(*                                                                         *)
(* Exclusion and WritesOnLatest are not inductive: that two bodies never   *)
(* overlap rests on each body owning the write lock of LocalDB (LockOwned),*)
(* and that a writer's snapshot is the latest on every transaction that    *)
(* commits owning the write lock of WorkspaceDB (WriterOwned).             *)
(***************************************************************************)
EXTENDS WorkspaceLock, TLAPS

\* The places of a thread inside a WorkspaceDB transaction.
InTransaction == {"read", "work", "writing", "dirty"}

ModeOK ==
  \A s \in Sessions :
    /\ pc[s] = "idle" <=> mode[s] = "none"
    /\ mode[s] = "direct" => pc[s] \in InTransaction
    /\ mode[s] = "local" => pc[s] \in {"local", "asking"}
    /\ pc[s] = "local" => mode[s] = "local"

LockOwned ==
  \A s \in Sessions : InBody(s) \/ mode[s] = "local" => lwriter = s

WriterOwned ==
  \A s \in Sessions :
    /\ pc[s] = "dirty" => dwriter = s
    /\ dwriter = s => /\ snap[s] = "fresh"
                      /\ pc[s] \in {"dirty", "asking"} /\ mode[s] # "local"

IInv == TypeOK /\ ModeOK /\ LockOwned /\ WriterOwned

\* The initial state satisfies the inductive invariant.
LEMMA InitIInv == Init => IInv
<1> SUFFICES ASSUME Init PROVE IInv
    OBVIOUS
<1> USE NoneAssumption DEF Init
<1>1. TypeOK /\ ModeOK
    BY DEF TypeOK, ModeOK, Places
<1>2. LockOwned /\ WriterOwned
    BY DEF LockOwned, WriterOwned, InBody
<1> QED BY <1>1, <1>2 DEF IInv

\* Every step of every session keeps the inductive invariant.
LEMMA NextIInv == IInv /\ [Next]_vars => IInv'
<1> SUFFICES ASSUME IInv, [Next]_vars PROVE IInv'
    OBVIOUS
<1> USE NoneAssumption
<1>1. CASE UNCHANGED vars
    BY <1>1 DEF vars, IInv, TypeOK, ModeOK, LockOwned, WriterOwned, InBody
<1>2. CASE Next
  <2> PICK s \in Sessions : Step(s)
      BY <1>2 DEF Next
  <2> USE DEF IInv, ModeOK, LockOwned, WriterOwned, InBody, InTransaction, Goto
  <2>1. CASE TryLock(s)
      BY <2>1 DEF TryLock, TypeOK, Places, dbVars
  <2>2. CASE TryLockBusy(s)
      BY <2>2 DEF TryLockBusy, TypeOK, Places, dbVars
  <2>3. CASE WaitLock(s)
      BY <2>3 DEF WaitLock, TypeOK, Places, dbVars
  <2>4. CASE AcquireLock(s)
      BY <2>4 DEF AcquireLock, TypeOK, Places, localVars, dbVars
  <2>5. CASE EmptyBody(s)
      BY <2>5 DEF EmptyBody, TypeOK, Places, localVars, dbVars
  <2>6. CASE BeginTransaction(s)
      BY <2>6 DEF BeginTransaction, TypeOK, Places, localVars
  <2>7. CASE Read(s)
      BY <2>7 DEF Read, TypeOK, Places, localVars
  <2>8. CASE StartWrite(s)
      BY <2>8 DEF StartWrite, TypeOK, Places, localVars, dbVars
  <2>9. CASE Write(s)
      BY <2>9 DEF Write, TypeOK, Places, localVars
  <2>10. CASE Commit(s)
    <3>1. TypeOK'
        BY <2>10 DEF Commit, EndTransaction, AfterTransaction, TypeOK, Places, localVars
    <3>2. ModeOK' /\ LockOwned'
        BY <2>10 DEF Commit, EndTransaction, AfterTransaction, TypeOK, Places, localVars
    <3>3. WriterOwned'
        BY <2>10 DEF Commit, EndTransaction, AfterTransaction, TypeOK, Places, localVars
    <3> QED BY <3>1, <3>2, <3>3
  <2>11. CASE Refuse(s)
      BY <2>11 DEF Refuse, EndTransaction, AfterTransaction, TypeOK, Places, localVars
  <2>12. CASE Unlock(s)
      BY <2>12 DEF Unlock, TypeOK, Places, dbVars
  <2>13. CASE LockFails(s)
      BY <2>13 DEF LockFails, TypeOK, Places, dbVars
  <2>14. CASE BodyThrows(s)
      BY <2>14 DEF BodyThrows, EndTransaction, TypeOK, Places, localVars
  <2>15. CASE Crash(s)
      BY <2>15 DEF Crash, EndTransaction, TypeOK, Places
  <2>16. CASE BeginLocal(s)
      BY <2>16 DEF BeginLocal, TypeOK, Places, dbVars
  <2>17. CASE EndLocal(s)
      BY <2>17 DEF EndLocal, TypeOK, Places, dbVars
  <2>18. CASE Ask(s)
      BY <2>18 DEF Ask, TypeOK, Places, localVars, dbVars
  <2>19. CASE Answer(s)
      BY <2>19 DEF Answer, TypeOK, Places, localVars, dbVars
  <2> QED
      BY <2>1, <2>2, <2>3, <2>4, <2>5, <2>6, <2>7, <2>8, <2>9, <2>10, <2>11,
         <2>12, <2>13, <2>14, <2>15, <2>16, <2>17, <2>18, <2>19 DEF Advance, Step
<1> QED BY <1>1, <1>2

\* The inductive invariant holds in every reachable state.
THEOREM InductiveInvariant == Spec => []IInv
  BY InitIInv, NextIInv, PTL DEF Spec

\* Type correctness of the workspace's locks, transactions and threads.
THEOREM TypeCorrect == Spec => []TypeOK
<1>1. IInv => TypeOK
    BY DEF IInv
<1> QED BY <1>1, InductiveInvariant, PTL

\* RunLocked excludes: two bodies never run at once, for any number of
\* sessions, with crashes, failures and transactions outside RunLocked.
THEOREM RunLockedExcludes == Spec => []Exclusion
<1>1. IInv => Exclusion
    BY DEF IInv, LockOwned, Exclusion
<1> QED BY <1>1, InductiveInvariant, PTL

\* A transaction that writes has read the last committed state.
THEOREM NoLostUpdate == Spec => []WritesOnLatest
<1>1. IInv => WritesOnLatest
    BY DEF IInv, WriterOwned, WritesOnLatest
<1> QED BY <1>1, InductiveInvariant, PTL

\* Two locked bodies never make each other's snapshot stale: only a
\* transaction run outside RunLocked can.
THEOREM OnlyDirectDisturbs == Spec => StaleOnlyByDirect
<1> DEFINE Undisturbed ==
      \A s \in Sessions :
        InBody(s) /\ snap[s] = "fresh" /\ snap'[s] = "stale"
          => \E t \in Sessions : mode[t] = "direct" /\ pc[t] = "dirty"
<1>1. IInv /\ [Next]_vars => [Undisturbed]_vars
  <2> SUFFICES ASSUME IInv, Next,
                      NEW s \in Sessions,
                      InBody(s), snap[s] = "fresh", snap'[s] = "stale"
               PROVE  \E t \in Sessions : mode[t] = "direct" /\ pc[t] = "dirty"
      OBVIOUS
  <2> PICK t \in Sessions : Step(t)
      BY DEF Next
  <2>1. Commit(t)
      BY DEF Advance, TryLock, TryLockBusy, WaitLock, AcquireLock, EmptyBody,
             BeginTransaction, Read, StartWrite, Write, Refuse, Unlock, LockFails,
             BodyThrows, Crash, BeginLocal, EndLocal, Ask, Answer, Step, dbVars,
             IInv, TypeOK
  <2>2. t # s /\ pc[t] = "dirty"
      BY <2>1 DEF Commit, IInv, TypeOK
  <2>3. ~InBody(t)
      BY <2>2 DEF IInv, LockOwned
  <2>4. mode[t] = "direct"
      BY <2>2, <2>3 DEF InBody, IInv, ModeOK, TypeOK
  <2> QED BY <2>2, <2>4
<1> QED BY <1>1, InductiveInvariant, PTL DEF Spec, StaleOnlyByDirect
=============================================================================
