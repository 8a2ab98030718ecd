--------------------------- MODULE ObjectStore_proof ---------------------------
(***************************************************************************)
(* Proofs about ObjectStore, for any sessions, data, remotes and kinds of  *)
(* payload, with pruning and failures: its types; that a row never lacks   *)
(* its payload; and that what sessions were told the store has can be      *)
(* read; both but for the exceptions that the properties name.             *)
(***************************************************************************)
EXTENDS ObjectStore, TLAPS

USE DEF Goto

\* The steps of a session that has an item at hand.
AtItem == {"payload", "writing", "erasePayload", "eraseRow"}

\* TypeOK, and what a step assumes of the variables it reads.
Typed ==
  /\ TypeOK
  /\ \A s \in Sessions : task[s] = "receive" => encoding[s] # None
  /\ \A s \in Sessions : pc[s] \in AtItem => item[s] # None
  /\ \A s \in Sessions : pc[s] \in {"erasePayload", "eraseRow"} => snap[s] # None

----------------------------------------------------------------------------
(* What bases lead to *)

\* The ends are grounded.
LEMMA GroundedEnds ==
  ASSUME NEW items, NEW ends, NEW d \in ends, d \in Data \cup {None}
  PROVE  d \in Grounded(items, ends)
BY DEF Grounded

\* The data of an item whose base is grounded is grounded.
LEMMA GroundedStep ==
  ASSUME NEW items, NEW ends, NEW i \in items, i.data \in Data,
         i.base \in Grounded(items, ends)
  PROVE  i.data \in Grounded(items, ends)
BY DEF Grounded

\* Any set that has the ends and the data of items whose base it has, has all that
\* is grounded.
LEMMA GroundedLeast ==
  ASSUME NEW items, NEW ends, NEW T \in SUBSET (Data \cup {None}), ends \subseteq T,
         \A i \in items : i.base \in T => i.data \in T
  PROVE  Grounded(items, ends) \subseteq T
BY DEF Grounded

\* What is grounded stays so, if the ends do and each item keeps its data so.
LEMMA GroundedKeeps ==
  ASSUME NEW items, NEW ends, NEW more, NEW limits,
         ends \subseteq Grounded(more, limits),
         \A i \in items : i.base \in Grounded(more, limits) => i.data \in Grounded(more, limits)
  PROVE  Grounded(items, ends) \subseteq Grounded(more, limits)
<1> DEFINE T == Grounded(more, limits)
<1>1. T \in SUBSET (Data \cup {None})
  BY DEF Grounded
<1> HIDE DEF T
<1>2. ends \subseteq T /\ \A i \in items : i.base \in T => i.data \in T
  BY DEF T
<1>3. Grounded(items, ends) \subseteq T
  BY <1>1, <1>2, GroundedLeast
<1> QED BY <1>3 DEF T

----------------------------------------------------------------------------
(* Types *)

\* Initially every variable has a value of its type.
LEMMA InitTyped == Init => Typed
  BY DEF Init, Typed, TypeOK, Steps, AtItem, NoFile, File

\* A snapshot that is not fresh any more is one.
LEMMA OutdatedTyped ==
  ASSUME Typed, NEW s \in Sessions
  PROVE  /\ Outdated(s) \in [Sessions -> Snapshots \cup {None}]
         /\ \A t \in Sessions \ {s} : snap[t] # None => Outdated(s)[t] # None
<1>1. \A t \in Sessions : snap[t] # None => [snap[t] EXCEPT !.fresh = FALSE] \in Snapshots
  BY DEF Typed, TypeOK, Snapshots
<1>2. None \notin Snapshots
  BY DataAssumption
<1> QED BY <1>1, <1>2 DEF Outdated

\* What ends a session gives every variable of it a value of its type.
LEMMA EndTyped ==
  ASSUME Typed, NEW s \in Sessions, Close(s),
         snap' = [snap EXCEPT ![s] = None] \/ snap' = Outdated(s),
         rows' \subseteq Items, blobs' \subseteq Data, files' = files,
         kept' \subseteq Data, left' \subseteq Data, dropped' = dropped, erased' = erased
  PROVE  Typed'
<1>1. /\ snap' \in [Sessions -> Snapshots \cup {None}]
      /\ \A t \in Sessions \ {s} : snap[t] # None => snap'[t] # None
  <2>1. CASE snap' = [snap EXCEPT ![s] = None]
    BY <2>1 DEF Typed, TypeOK
  <2>2. CASE snap' = Outdated(s)
    BY <2>2, OutdatedTyped
  <2> QED BY <2>1, <2>2
<1>2. TypeOK'
  BY <1>1 DEF Close, Typed, TypeOK, Steps
<1>3. \A t \in Sessions : task'[t] = "receive" => encoding'[t] # None
  BY DEF Close, Typed, TypeOK
<1>4. \A t \in Sessions : /\ pc'[t] \in AtItem => item'[t] # None
                          /\ pc'[t] \in {"erasePayload", "eraseRow"} => snap'[t] # None
  BY <1>1 DEF Close, Typed, TypeOK, AtItem
<1> QED BY <1>2, <1>3, <1>4 DEF Typed

\* The data that a datum is recorded as a delta on is other data: it is that of
\* a flat row, and HasDataDirect finds no row of the datum that is flat.
LEMMA BasesDiffer ==
  ASSUME TypeOK, NEW d \in Data, ~HasDataDirect(d), NEW prior \in Data
  PROVE  DeltaBases(prior) \subseteq Data \ {d}
<1> SUFFICES ASSUME NEW x \in rows, x.base = None  PROVE x.data \in Data \ {d}
  BY DEF DeltaBases
<1>1. x.data \in Data
  BY DEF TypeOK, Items
<1>2. None \in Grounded(rows, {None})
  BY GroundedEnds
<1>3. x.data \in Grounded(rows, {None})
  BY <1>1, <1>2, GroundedStep
<1> QED BY <1>1, <1>3 DEF HasDataDirect

\* What a session has at hand is data.
LEMMA HandledTyped ==
  ASSUME Typed, NEW s \in Sessions
  PROVE  Handled(s) \subseteq Data
<1>1. InHand(s) \subseteq Items
  BY DEF InHand, Typed, TypeOK, AtItem
<1> QED BY <1>1 DEF Handled, Items

\* Every step keeps the types.
LEMMA StepTyped ==
  ASSUME Typed, [Next]_vars
  PROVE  Typed'
<1> USE DataAssumption DEF storeVars, lockVars, txVars, askVars, history
<1>1. ASSUME NEW s \in Sessions, NEW want \in SUBSET Data, BeginRecord(s, want)  PROVE Typed'
  BY <1>1 DEF BeginRecord, Typed, TypeOK, Steps, AtItem, Items
<1>2. ASSUME NEW s \in Sessions, NEW want \in SUBSET Data, NEW remote \in Encodings,
            BeginReceive(s, want, remote)
      PROVE Typed'
  BY <1>2 DEF BeginReceive, Typed, TypeOK, Steps, AtItem, Items
<1>3. ASSUME NEW s \in Sessions, NEW want \in SUBSET Data, BeginErase(s, want)  PROVE Typed'
  BY <1>3 DEF BeginErase, Typed, TypeOK, Steps, AtItem, Items
<1>4. ASSUME NEW s \in Sessions, NEW d \in Data, SkipRecord(s, d)  PROVE Typed'
  BY <1>4 DEF SkipRecord, Typed, TypeOK, Steps, AtItem, Items
<1>5. ASSUME NEW s \in Sessions, BeginComplete(s)  PROVE Typed'
  BY <1>5 DEF BeginComplete, Typed, TypeOK, Steps, AtItem, Items
<1>6. ASSUME NEW s \in Sessions, RequestBases(s)  PROVE Typed'
  BY <1>6 DEF RequestBases, MissingBases, Typed, TypeOK, Steps, AtItem, Items
<1>7. ASSUME NEW s \in Sessions, NEW i \in pending[s], InsertRow(s, i)  PROVE Typed'
  <2>1. i \in Items /\ i # None
    BY DEF Typed, TypeOK
  <2>2. CASE RowsOf(s, i.data) # {}
    <3>1. dropped' \subseteq Data
      BY <1>7, <2>1, <2>2 DEF InsertRow, Items, Typed, TypeOK
    <3> QED BY <1>7, <2>2, <3>1 DEF InsertRow, Typed, TypeOK, Steps, AtItem
  <2>3. CASE RowsOf(s, i.data) = {}
    <3>1. TypeOK'
      <4>1. /\ pending' = [pending EXCEPT ![s] = @ \ {i}]
            /\ newRows' = [newRows EXCEPT ![s] = @ \cup {i}]
            /\ item' = [item EXCEPT ![s] = i]
            /\ pc' = [pc EXCEPT ![s] = "payload"]
            /\ rowWriter' = s
        BY <1>7, <2>3 DEF InsertRow
      <4>2. /\ pending' \in [Sessions -> SUBSET Items]
            /\ newRows' \in [Sessions -> SUBSET Items]
            /\ item' \in [Sessions -> Items \cup {None}]
            /\ pc' \in [Sessions -> Steps]
        BY <2>1, <4>1 DEF Typed, TypeOK, Steps
      <4> QED BY <1>7, <4>1, <4>2 DEF InsertRow, Typed, TypeOK
    <3>2. \A t \in Sessions : /\ pc'[t] \in AtItem => item'[t] # None
                              /\ pc'[t] \in {"erasePayload", "eraseRow"} => snap'[t] # None
      BY <1>7, <2>1, <2>3 DEF InsertRow, Typed, TypeOK, AtItem
    <3> QED BY <1>7, <3>1, <3>2 DEF InsertRow, Typed
  <2> QED BY <2>2, <2>3
<1>8. ASSUME NEW s \in Sessions, PutBlob(s)  PROVE Typed'
  BY <1>8 DEF PutBlob, Typed, TypeOK, Steps, AtItem, Items
<1>9. ASSUME NEW s \in Sessions, MoveFile(s)  PROVE Typed'
  <2>1. item[s].data \in Data /\ item[s].base \in Data \cup {None}
    BY <1>9 DEF MoveFile, Typed, TypeOK, AtItem, Items
  <2>2. File("whole", item[s].base) \in [state : {"none", "partial", "whole"},
                                        base : Data \cup {None}]
    BY <2>1 DEF File
  <2> QED BY <1>9, <2>1, <2>2 DEF MoveFile, Typed, TypeOK, Steps, AtItem
<1>10. ASSUME NEW s \in Sessions, WriteFile(s)  PROVE Typed'
  <2>1. item[s].data \in Data /\ item[s].base \in Data \cup {None}
    BY <1>10 DEF WriteFile, Typed, TypeOK, AtItem, Items
  <2>2. CASE files[item[s].data] = NoFile
    <3>1. File("partial", item[s].base) \in [state : {"none", "partial", "whole"},
                                            base : Data \cup {None}]
      BY <2>1 DEF File
    <3>2. files' \in [Data -> [state : {"none", "partial", "whole"}, base : Data \cup {None}]]
      BY <1>10, <2>1, <2>2, <3>1 DEF WriteFile, Typed, TypeOK
    <3>3. pc' = [pc EXCEPT ![s] = "writing"] /\ UNCHANGED <<item, snap, task, encoding>>
      BY <1>10, <2>2 DEF WriteFile
    <3>4. TypeOK'
      BY <1>10, <3>2, <3>3 DEF WriteFile, Typed, TypeOK, Steps
    <3>5. \A t \in Sessions : /\ pc'[t] \in AtItem => item'[t] # None
                              /\ pc'[t] \in {"erasePayload", "eraseRow"} => snap'[t] # None
      BY <1>10, <3>3 DEF WriteFile, Typed, TypeOK, AtItem
    <3> QED BY <3>3, <3>4, <3>5 DEF Typed
  <2>3. CASE files[item[s].data] # NoFile
    <3>1. /\ item' = [item EXCEPT ![s] = None]
          /\ pc' = [pc EXCEPT ![s] = "rows"]
          /\ UNCHANGED <<files, task, encoding, snap>>
      BY <1>10, <2>3 DEF WriteFile
    <3>2. TypeOK'
      BY <1>10, <3>1 DEF WriteFile, Typed, TypeOK, Steps
    <3>3. \A t \in Sessions : /\ pc'[t] \in AtItem => item'[t] # None
                              /\ pc'[t] \in {"erasePayload", "eraseRow"} => snap'[t] # None
      BY <3>1 DEF Typed, TypeOK, AtItem
    <3> QED BY <3>1, <3>2, <3>3 DEF Typed
  <2> QED BY <2>2, <2>3
<1>11. ASSUME NEW s \in Sessions, FinishFile(s)  PROVE Typed'
  <2>1. item[s].data \in Data /\ item[s].base \in Data \cup {None}
    BY <1>11 DEF FinishFile, Typed, TypeOK, AtItem, Items
  <2>2. File("whole", item[s].base) \in [state : {"none", "partial", "whole"},
                                        base : Data \cup {None}]
    BY <2>1 DEF File
  <2> QED BY <1>11, <2>1, <2>2 DEF FinishFile, Typed, TypeOK, Steps, AtItem
<1>12. ASSUME NEW s \in Sessions, CommitBlobs(s)  PROVE Typed'
  BY <1>12 DEF CommitBlobs, Typed, TypeOK, Steps, AtItem, Items
<1>13. ASSUME NEW s \in Sessions, CommitRows(s)  PROVE Typed'
  <2>1. /\ snap' \in [Sessions -> Snapshots \cup {None}]
        /\ \A t \in Sessions \ {s} : snap[t] # None => snap'[t] # None
    <3>2. CASE newRows[s] = {}
      BY <1>13, <3>2 DEF CommitRows, Typed, TypeOK
    <3>3. CASE newRows[s] # {}
      <4>1. snap' = Outdated(s)
        BY <1>13, <3>3 DEF CommitRows
      <4> QED BY <4>1, OutdatedTyped
    <3> QED BY <3>2, <3>3
  <2>2. /\ rows' \subseteq Items
        /\ newRows' \in [Sessions -> SUBSET Items]
        /\ rowWriter' \in Sessions \cup {None}
        /\ pc' \in [Sessions -> Steps]
    BY <1>13 DEF CommitRows, Typed, TypeOK, Steps
  <2>3. TypeOK'
    BY <1>13, <2>1, <2>2 DEF CommitRows, Typed, TypeOK
  <2>4. \A t \in Sessions : /\ pc'[t] \in AtItem => item'[t] # None
                            /\ pc'[t] \in {"erasePayload", "eraseRow"} => snap'[t] # None
    BY <1>13, <2>1 DEF CommitRows, Typed, TypeOK, AtItem
  <2> QED BY <1>13, <2>3, <2>4 DEF CommitRows, Typed
<1>14. ASSUME NEW s \in Sessions, NEW d \in Data, FindRow(s, d)  PROVE Typed'
  <2>1. Snapshot(s) \in Snapshots
    BY DEF Snapshot, Snapshots, Typed, TypeOK
  <2>2. /\ todo' \in [Sessions -> SUBSET Data]
        /\ snap' \in [Sessions -> Snapshots \cup {None}]
        /\ snap'[s] = Snapshot(s) /\ \A t \in Sessions \ {s} : snap'[t] = snap[t]
    BY <1>14, <2>1 DEF FindRow, Typed, TypeOK
  <2>3. CASE UNCHANGED <<item, pc>>
    BY <1>14, <2>1, <2>2, <2>3 DEF FindRow, Typed, TypeOK
  <2>4. ASSUME NEW r \in Snapshot(s).rows, item' = [item EXCEPT ![s] = r],
               Goto(s, "erasePayload")
        PROVE  Typed'
    <3>1. r \in Items /\ r # None
      BY <2>1 DEF Snapshots
    <3>2. item' \in [Sessions -> Items \cup {None}] /\ pc' \in [Sessions -> Steps]
      BY <2>4, <3>1 DEF Typed, TypeOK, Steps
    <3>3. \A t \in Sessions : /\ pc'[t] \in AtItem => item'[t] # None
                              /\ pc'[t] \in {"erasePayload", "eraseRow"} => snap'[t] # None
      BY <2>1, <2>2, <2>4, <3>1 DEF Typed, TypeOK, AtItem
    <3>4. TypeOK'
      BY <1>14, <2>2, <3>2 DEF FindRow, Typed, TypeOK
    <3> QED BY <1>14, <3>3, <3>4 DEF FindRow, Typed
  <2> QED BY <1>14, <2>3, <2>4 DEF FindRow
<1>15. ASSUME NEW s \in Sessions, ErasePayload(s)  PROVE Typed'
  <2>1. NoFile \in [state : {"none", "partial", "whole"}, base : Data \cup {None}]
    BY DEF NoFile, File
  <2>2. item[s].data \in Data
    BY <1>15 DEF ErasePayload, Typed, TypeOK, AtItem, Items
  <2>3. /\ files' \in [Data -> [state : {"none", "partial", "whole"}, base : Data \cup {None}]]
        /\ blobWriter' \in Sessions \cup {None}
        /\ newBlobs' \in [Sessions -> SUBSET Data]
    BY <1>15, <2>1, <2>2 DEF ErasePayload, Typed, TypeOK
  <2>4. TypeOK'
    BY <1>15, <2>3 DEF ErasePayload, Typed, TypeOK, Steps
  <2>5. \A t \in Sessions : /\ pc'[t] \in AtItem => item'[t] # None
                            /\ pc'[t] \in {"erasePayload", "eraseRow"} => snap'[t] # None
    BY <1>15 DEF ErasePayload, Typed, TypeOK, AtItem
  <2> QED BY <1>15, <2>4, <2>5 DEF ErasePayload, Typed
<1>16. ASSUME NEW s \in Sessions, EraseRow(s)  PROVE Typed'
  BY <1>16 DEF EraseRow, Typed, TypeOK, Steps, AtItem, Items
<1>17. ASSUME NEW s \in Sessions, CommitErasedBlobs(s)  PROVE Typed'
  BY <1>17 DEF CommitErasedBlobs, Typed, TypeOK, Steps, AtItem, Items
<1>18. ASSUME NEW s \in Sessions, NEW d \in Data, ReceiveThrows(s, d)  PROVE Typed'
  BY <1>18, EndTyped DEF ReceiveThrows, EndSession, Typed, TypeOK
<1>19. ASSUME NEW s \in Sessions, Finish(s)  PROVE Typed'
  BY <1>19, EndTyped DEF Finish, EndSession, Typed, TypeOK
<1>20. ASSUME NEW s \in Sessions, EraseThrows(s)  PROVE Typed'
  <2>1. pc[s] \in {"erasePayload", "eraseRow"}
    BY <1>20 DEF EraseThrows, EraseBusy
  <2>2. left' \subseteq Data
    BY <1>20, <2>1, HandledTyped DEF EraseThrows, Typed, TypeOK
  <2> QED BY <1>20, <2>2, EndTyped DEF EraseThrows, EndSession, Typed, TypeOK
<1>21. ASSUME NEW s \in Sessions, CommitErasedRows(s)  PROVE Typed'
  BY <1>21, EndTyped DEF CommitErasedRows, Typed, TypeOK
<1>22. ASSUME NEW s \in Sessions, Fail(s)  PROVE Typed'
  <2>1. left' \subseteq Data
    BY <1>22, HandledTyped DEF Fail, Typed, TypeOK
  <2> QED BY <1>22, <2>1, EndTyped DEF Fail, EndSession, Typed, TypeOK
<1>23. ASSUME NEW s \in Sessions, NEW d \in Data, NEW prior \in Data, NEW place \in Places[d],
            RecordData(s, d, prior, place)
       PROVE Typed'
  <2>1. PICK base \in DeltaBases(prior) \cup {None} :
          pending' = [pending EXCEPT ![s] = @ \cup {[data |-> d, base |-> base, place |-> place]}]
    BY <1>23 DEF RecordData
  <2>2. base \in Data \cup {None} /\ base # d
    BY <1>23, BasesDiffer DEF RecordData, Typed
  <2>3. [data |-> d, base |-> base, place |-> place] \in Items
    BY <2>2 DEF Items
  <2> QED BY <1>23, <2>1, <2>3 DEF RecordData, Typed, TypeOK, Steps, AtItem
<1>24. ASSUME NEW s \in Sessions, NEW d \in Data, NEW place \in Places[d], Receive(s, d, place)
       PROVE Typed'
  <2>1. encoding[s] \in Encodings
    BY <1>24 DEF Receive, Typed, TypeOK
  <2>2. [data |-> d, base |-> encoding[s][d], place |-> place] \in Items
    BY <2>1 DEF Items
  <2>3. {encoding[s][d]} \ {None} \subseteq Data
    BY <2>1
  <2> QED BY <1>24, <2>2, <2>3 DEF Receive, Typed, TypeOK, Steps, AtItem
<1>25. CASE UNCHANGED vars
  BY <1>25 DEF vars, Typed, TypeOK, Steps, AtItem
<1> QED
  BY <1>1, <1>2, <1>3, <1>4, <1>5, <1>6, <1>7, <1>8, <1>9, <1>10, <1>11, <1>12, <1>13,
     <1>14, <1>15, <1>16, <1>17, <1>18, <1>19, <1>20, <1>21, <1>22, <1>23, <1>24, <1>25
     DEF Next, Begin, Gather, Put, Complete, Erase

\* Every variable of the object store holds a value of its kind, and no datum is
\* recorded as a delta on itself, however sessions interleave and fail.
THEOREM TypeCorrect == Spec => []TypeOK
<1>1. Init => Typed
  BY InitTyped
<1>2. Typed /\ [Next]_vars => Typed'
  BY StepTyped
<1>3. Typed => TypeOK
  BY DEF Typed
<1> QED BY <1>1, <1>2, <1>3, PTL DEF Spec


----------------------------------------------------------------------------
(* Payloads *)

PutSteps == {"rows", "payload", "writing", "commit"}
EraseSteps == {"erase", "erasePayload", "eraseRow", "erased"}

\* The loose file of an item is there, as the item is encoded.
FileOf(i) == files[i.data] = File("whole", i.base)

\* The payload of the data may be gone, or be another: see RowsHavePayload.
Gone(d) == d \in left \/ \E s \in Sessions : task[s] = "erase" /\ d \in Handled(s)

\* Only a session that has the write lock has rows that are not committed, and its
\* blobs are committed before.
TaskOK(s) ==
  /\ task[s] = "erase" <=> pc[s] \in EraseSteps
  /\ newRows[s] # {} => rowWriter = s /\ pc[s] \in PutSteps \cup EraseSteps
  /\ newBlobs[s] # {} => pc[s] \in (PutSteps \cup EraseSteps) \ {"commit", "erased"}
  /\ snap[s] # None => pc[s] \in EraseSteps

\* Data has one row.
Keyed == \A r, q \in rows : r.data = q.data => r = q

\* A row has its payload.
RowsWhole ==
  \A r \in rows : IF r.place = "blob" THEN r.data \in blobs \/ Gone(r.data)
                                      ELSE FileOf(r) \/ Gone(r.data)

\* The payload of a row that is inserted is in place, but for the current item.
PutOK(s) ==
  pc[s] \in PutSteps =>
    /\ pc[s] \in {"payload", "writing"} => item[s] \in newRows[s]
    /\ pc[s] = "writing" => item[s].place # "blob"
    /\ \A i \in newRows[s] :
         /\ \A r \in rows : r.data # i.data
         /\ \A j \in newRows[s] : j.data = i.data => j = i
         /\ \/ i = item[s] /\ pc[s] \in {"payload", "writing"}
            \/ i.place = "blob" /\ pc[s] = "commit" /\ i.data \in blobs
            \/ i.place = "blob" /\ pc[s] # "commit" /\ i.data \in newBlobs[s]
            \/ i.place # "blob" /\ (FileOf(i) \/ Gone(i.data))

\* A file belongs to a row, committed or not, or was left behind.
Owned(d) ==
  \/ d \in left
  \/ \E r \in rows : r.data = d /\ r.place # "blob" /\ FileOf(r)
  \/ \E s \in Sessions : \E i \in newRows[s] :
       /\ pc[s] \in PutSteps
       /\ i.data = d /\ i.place # "blob"
       /\ FileOf(i) \/ (pc[s] = "writing" /\ item[s] = i)
FilesOwned == \A d \in Data : files[d] # NoFile => Owned(d)

\* The rows that are deleted are there, and their files are not; the snapshot is
\* the rows while it is fresh.
EraseOK(s) ==
  pc[s] \in EraseSteps =>
    /\ newRows[s] \subseteq rows
    /\ \A i \in newRows[s] : i.place # "blob" => files[i.data] = NoFile
    /\ \A d \in newBlobs[s] : \E i \in InHand(s) : i.data = d /\ i.place = "blob"
    /\ snap[s] # None /\ snap[s].fresh => snap[s].rows = rows
    /\ pc[s] \in {"erasePayload", "eraseRow"} => item[s] \in snap[s].rows
    /\ pc[s] = "eraseRow" /\ snap[s].fresh /\ item[s].place # "blob" =>
         files[item[s].data] = NoFile

Puts == /\ Keyed /\ RowsWhole /\ FilesOwned
        /\ \A s \in Sessions : TaskOK(s) /\ PutOK(s) /\ EraseOK(s)

PInv == Typed /\ Puts

\* Nothing of a session that the others' invariants name changes.
Same(t) == /\ pc'[t] = pc[t] /\ task'[t] = task[t] /\ item'[t] = item[t]
           /\ newRows'[t] = newRows[t] /\ newBlobs'[t] = newBlobs[t] /\ snap'[t] = snap[t]

\* Initially there is no row and no file.
LEMMA InitPuts == Init => PInv
<1> SUFFICES ASSUME Init  PROVE Puts
  BY InitTyped DEF PInv
<1>1. \A s \in Sessions : TaskOK(s) /\ PutOK(s) /\ EraseOK(s)
  BY DEF Init, TaskOK, PutOK, EraseOK, PutSteps, EraseSteps
<1>2. Keyed /\ RowsWhole /\ FilesOwned
  BY DEF Init, Keyed, RowsWhole, FilesOwned
<1> QED BY <1>1, <1>2 DEF Puts

\* One session at a time has rows that are not committed.
LEMMA OneWriter ==
  ASSUME PInv, NEW s \in Sessions, NEW t \in Sessions, newRows[s] # {}, newRows[t] # {}
  PROVE  s = t
BY DEF PInv, Puts, TaskOK

\* What a session has at hand is the same while its step is.
LEMMA SameHandled ==
  ASSUME NEW t \in Sessions, Same(t)
  PROVE  Handled(t)' = Handled(t)
BY DEF Same, Handled, InHand

\* A step of session s that leaves the rows and the other sessions alone keeps what
\* holds of both, if the payloads it takes away are Gone, and the files that it
\* makes are those of a row it has inserted.
LEMMA OthersPut ==
  ASSUME PInv, Typed', NEW s \in Sessions,
         \A t \in Sessions \ {s} : Same(t) /\ (rowWriter = t => rowWriter' = t),
         rows' = rows,
         \A d : Gone(d) => Gone(d)',
         \A d \in Data : \/ files'[d] = files[d]
                         \/ files'[d] = NoFile /\ Gone(d)'
                         \/ newRows[s] # {} /\ \A r \in rows : r.data # d,
         \A d \in Data : d \in blobs /\ d \notin blobs' =>
                           Gone(d)' /\ \A t \in Sessions \ {s} : newRows[t] = {}
  PROVE  /\ Keyed' /\ RowsWhole'
         /\ \A t \in Sessions \ {s} : TaskOK(t)' /\ PutOK(t)' /\ EraseOK(t)'
<1>0. /\ \A i \in Items : i.data \in Data
      /\ rows \subseteq Items /\ \A t \in Sessions : newRows[t] \subseteq Items
  BY DEF PInv, Typed, TypeOK, Items
<1>1. Keyed'
  BY DEF PInv, Puts, Keyed
<1>2. RowsWhole'
  <2> SUFFICES ASSUME NEW r \in rows
               PROVE  IF r.place = "blob" THEN r.data \in blobs' \/ Gone(r.data)'
                                          ELSE FileOf(r)' \/ Gone(r.data)'
    BY DEF RowsWhole
  <2>1. r.data \in Data
    BY <1>0
  <2>2. IF r.place = "blob" THEN r.data \in blobs \/ Gone(r.data)
                            ELSE FileOf(r) \/ Gone(r.data)
    BY DEF PInv, Puts, RowsWhole
  <2>3. FileOf(r) => FileOf(r)' \/ Gone(r.data)'
    BY <2>1 DEF FileOf
  <2> QED BY <2>1, <2>2, <2>3
<1>3. ASSUME NEW t \in Sessions \ {s}  PROVE TaskOK(t)' /\ PutOK(t)' /\ EraseOK(t)'
  <2>1. TaskOK(t) /\ PutOK(t) /\ EraseOK(t) /\ Same(t)
    BY DEF PInv, Puts
  <2>2. TaskOK(t)'
    BY <2>1 DEF TaskOK, Same
  <2>3. PutOK(t)'
    <3> SUFFICES ASSUME pc[t] \in PutSteps, NEW i \in newRows[t], i.place # "blob", FileOf(i)
                 PROVE  FileOf(i)' \/ Gone(i.data)'
      <4> SUFFICES ASSUME pc[t] \in PutSteps  PROVE PutOK(t)'
        BY <2>1 DEF Same, PutOK
      <4>1. \A i \in newRows[t] : i.data \in blobs => i.data \in blobs'
        BY <1>0
      <4> QED BY <2>1, <4>1 DEF Same, PutOK
    <3>1. newRows[s] = {}
      BY OneWriter
    <3> QED BY <1>0, <3>1 DEF FileOf
  <2>4. EraseOK(t)'
    <3> SUFFICES ASSUME pc[t] \in EraseSteps
                 PROVE  EraseOK(t)'
      BY <2>1 DEF Same, EraseOK
    <3>1. \A i \in newRows[t] : i.place # "blob" => files'[i.data] = NoFile
      <4> SUFFICES ASSUME NEW i \in newRows[t], i.place # "blob"
                   PROVE  files'[i.data] = NoFile
        OBVIOUS
      <4>1. newRows[s] = {}
        BY OneWriter
      <4> QED BY <1>0, <2>1, <4>1 DEF EraseOK
    <3>2. pc[t] = "eraseRow" /\ snap[t].fresh /\ item[t].place # "blob" =>
            files'[item[t].data] = NoFile
      <4> SUFFICES ASSUME pc[t] = "eraseRow", snap[t].fresh, item[t].place # "blob"
                   PROVE  files'[item[t].data] = NoFile
        OBVIOUS
      <4>1. item[t] \in rows /\ files[item[t].data] = NoFile
        BY <2>1 DEF EraseOK, PInv, Typed
      <4> QED BY <1>0, <4>1
    <3>3. InHand(t)' = InHand(t)
      BY <2>1 DEF Same, InHand
    <3> QED BY <2>1, <3>1, <3>2, <3>3 DEF Same, EraseOK
  <2> QED BY <2>2, <2>3, <2>4
<1> QED BY <1>1, <1>2, <1>3

\* A file that a step leaves alone keeps its owner, if session s keeps its rows.
LEMMA OwnedKeeps ==
  ASSUME PInv, NEW s \in Sessions, \A t \in Sessions \ {s} : Same(t),
         rows' = rows, left \subseteq left',
         NEW d \in Data, files'[d] = files[d], Owned(d),
         pc[s] \in PutSteps =>
           /\ pc'[s] \in PutSteps /\ newRows[s] \subseteq newRows'[s]
           /\ pc[s] = "writing" => item[s].data # d
  PROVE  Owned(d)'
<1>1. CASE d \in left
  BY <1>1 DEF Owned
<1>2. CASE \E r \in rows : r.data = d /\ r.place # "blob" /\ FileOf(r)
  BY <1>2 DEF Owned, FileOf
<1>3. ASSUME NEW t \in Sessions, NEW i \in newRows[t], pc[t] \in PutSteps,
             i.data = d, i.place # "blob", FileOf(i) \/ (pc[t] = "writing" /\ item[t] = i)
      PROVE  Owned(d)'
  <2>1. CASE t = s
    BY <1>3, <2>1 DEF Owned, FileOf
  <2>2. CASE t # s
    <3>1. Same(t)
      BY <2>2
    <3> QED BY <1>3, <3>1 DEF Owned, FileOf, Same
  <2> QED BY <2>1, <2>2
<1> QED BY <1>1, <1>2, <1>3 DEF Owned

\* Steps of a session that has no row or blob in a transaction, before and after.
LEMMA QuietPuts ==
  ASSUME PInv, Typed', NEW s \in Sessions,
         \A t \in Sessions \ {s} : Same(t) /\ (rowWriter = t => rowWriter' = t),
         UNCHANGED <<rows, blobs, files, left>>,
         pc[s] \in {"idle", "open", "ended"},
         pc'[s] \in {"idle", "open", "ended", "rows", "erase"},
         task'[s] = "erase" <=> pc'[s] = "erase",
         newRows'[s] = {}, newBlobs'[s] = {}, snap'[s] = None
  PROVE  Puts'
<1>1. newRows[s] = {} /\ task[s] # "erase"
  BY DEF PInv, Puts, TaskOK, PutSteps, EraseSteps
<1>2. \A d : Gone(d) => Gone(d)'
  BY <1>1, SameHandled DEF Gone, Same
<1>3. /\ Keyed' /\ RowsWhole'
      /\ \A t \in Sessions \ {s} : TaskOK(t)' /\ PutOK(t)' /\ EraseOK(t)'
  BY <1>2, OthersPut
<1>4. TaskOK(s)' /\ PutOK(s)' /\ EraseOK(s)'
  BY DEF TaskOK, PutOK, EraseOK, PutSteps, EraseSteps
<1>5. FilesOwned'
  BY OwnedKeeps DEF FilesOwned, PutSteps, PInv, Puts
<1> QED BY <1>3, <1>4, <1>5 DEF Puts

\* What a session had at hand when it failed is left.
LEMMA FailPuts ==
  ASSUME PInv, Typed', NEW s \in Sessions, EndSession(s), UNCHANGED storeVars,
         left' = left \cup Handled(s)
  PROVE  Puts'
<1>1. /\ \A t \in Sessions \ {s} : Same(t) /\ (rowWriter = t => rowWriter' = t)
      /\ pc'[s] = "idle" /\ task'[s] = "none"
      /\ newRows'[s] = {} /\ newBlobs'[s] = {} /\ snap'[s] = None
  BY DEF EndSession, Close, Same, PInv, Typed, TypeOK
<1>2. UNCHANGED <<rows, blobs, files>>
  BY DEF storeVars
<1>3. \A d : Gone(d) => Gone(d)'
  <2> SUFFICES ASSUME NEW d, Gone(d)  PROVE Gone(d)'
    OBVIOUS
  <2>1. CASE d \in left \cup Handled(s)
    BY <2>1 DEF Gone
  <2>2. ASSUME NEW t \in Sessions \ {s}, task[t] = "erase", d \in Handled(t)
        PROVE  Gone(d)'
    <3>1. Handled(t)' = Handled(t) /\ task'[t] = task[t]
      BY <1>1, SameHandled DEF Same
    <3> QED BY <2>2, <3>1 DEF Gone
  <2> QED BY <2>1, <2>2 DEF Gone
<1>4. /\ Keyed' /\ RowsWhole'
      /\ \A t \in Sessions \ {s} : TaskOK(t)' /\ PutOK(t)' /\ EraseOK(t)'
  BY <1>1, <1>2, <1>3, OthersPut
<1>5. TaskOK(s)' /\ PutOK(s)' /\ EraseOK(s)'
  BY <1>1 DEF TaskOK, PutOK, EraseOK, PutSteps, EraseSteps
<1>6. ASSUME NEW d \in Data, files[d] # NoFile  PROVE Owned(d)'
  <2>1. Owned(d)
    BY <1>6 DEF PInv, Puts, FilesOwned
  <2>2. CASE d \in left
    BY <2>2 DEF Owned
  <2>3. CASE \E r \in rows : r.data = d /\ r.place # "blob" /\ FileOf(r)
    BY <1>2, <2>3 DEF Owned, FileOf
  <2>4. ASSUME NEW t \in Sessions, NEW i \in newRows[t], pc[t] \in PutSteps,
               i.data = d, i.place # "blob", FileOf(i) \/ (pc[t] = "writing" /\ item[t] = i)
        PROVE  Owned(d)'
    <3>1. CASE t = s
      <4>1. d \in Handled(s)
        BY <2>4, <3>1 DEF Handled, InHand
      <4> QED BY <4>1 DEF Owned
    <3>2. CASE t # s
      <4>1. Same(t)
        BY <1>1, <3>2
      <4> QED BY <1>2, <2>4, <4>1 DEF Owned, FileOf, Same
    <3> QED BY <3>1, <3>2
  <2> QED BY <2>1, <2>2, <2>3, <2>4 DEF Owned
<1>7. FilesOwned'
  BY <1>2, <1>6 DEF FilesOwned
<1> QED BY <1>4, <1>5, <1>7 DEF Puts

\* Facts of the state that the steps on payloads start from.
LEMMA PutFacts ==
  ASSUME PInv, NEW s \in Sessions
  PROVE  /\ TaskOK(s) /\ PutOK(s) /\ EraseOK(s)
         /\ \A i \in Items : i.data \in Data
         /\ rows \subseteq Items /\ newRows[s] \subseteq Items
         /\ pc[s] \in AtItem => item[s] \in Items
         /\ task[s] # "erase" => \A d : Gone(d) <=>
              d \in left \/ \E t \in Sessions \ {s} : task[t] = "erase" /\ d \in Handled(t)
<1>1. TaskOK(s) /\ PutOK(s) /\ EraseOK(s)
  BY DEF PInv, Puts
<1>2. /\ \A i \in Items : i.data \in Data
      /\ rows \subseteq Items /\ newRows[s] \subseteq Items
      /\ pc[s] \in AtItem => item[s] \in Items
  BY DEF PInv, Typed, TypeOK, Items
<1> QED BY <1>1, <1>2 DEF Gone

\* What is gone stays so, while other sessions do and s does not erase.
LEMMA GoneKeeps ==
  ASSUME PInv, NEW s \in Sessions, task[s] # "erase", left' = left,
         \A t \in Sessions \ {s} : Same(t)
  PROVE  \A d : Gone(d) => Gone(d)'
<1> SUFFICES ASSUME NEW d, Gone(d)  PROVE Gone(d)'
  OBVIOUS
<1>1. CASE d \in left
  BY <1>1 DEF Gone
<1>2. ASSUME NEW t \in Sessions \ {s}, task[t] = "erase", d \in Handled(t)  PROVE Gone(d)'
  <2>1. Handled(t)' = Handled(t) /\ task'[t] = task[t]
    BY SameHandled DEF Same
  <2> QED BY <1>2, <2>1 DEF Gone
<1> QED BY <1>1, <1>2, PutFacts

\* A row is inserted where there is none; its payload comes next.
LEMMA InsertPuts ==
  ASSUME PInv, Typed', NEW s \in Sessions, NEW i \in pending[s], InsertRow(s, i)
  PROVE  Puts'
<1> USE DEF storeVars, lockVars, txVars, askVars, history
<1>1. /\ pc[s] = "rows" /\ rowWriter \in {None, s} /\ rowWriter' = s
      /\ \A t \in Sessions \ {s} : Same(t)
      /\ UNCHANGED <<rows, blobs, files, left, newBlobs, snap, task>>
      /\ None \notin Sessions
  BY DataAssumption DEF InsertRow, Same, PInv, Typed, TypeOK
<1>2. task[s] # "erase"
  BY <1>1, PutFacts DEF TaskOK, EraseSteps
<1>3. \A t \in Sessions \ {s} : newRows[t] = {} /\ rowWriter # t
  BY <1>1 DEF PInv, Puts, TaskOK
<1>4. \A d : Gone(d) => Gone(d)'
  BY <1>1, <1>2, GoneKeeps
<1>5. /\ Keyed' /\ RowsWhole'
      /\ \A t \in Sessions \ {s} : TaskOK(t)' /\ PutOK(t)' /\ EraseOK(t)'
  BY <1>1, <1>3, <1>4, OthersPut
<1>6. CASE RowsOf(s, i.data) # {}
  <2>1. UNCHANGED <<pc, newRows, item>>
    BY <1>6 DEF InsertRow
  <2>2. TaskOK(s)' /\ PutOK(s)' /\ EraseOK(s)'
    <3>1. TaskOK(s)'
      BY <1>1, <2>1, PutFacts DEF TaskOK, PutSteps
    <3>2. PutOK(s)'
      BY <1>1, <1>4, <2>1, PutFacts DEF PutOK, FileOf, PutSteps
    <3>3. EraseOK(s)'
      BY <1>1, <2>1 DEF EraseOK, EraseSteps
    <3> QED BY <3>1, <3>2, <3>3
  <2>3. FilesOwned'
    BY <1>1, <2>1, OwnedKeeps DEF FilesOwned, PutSteps, PInv, Puts
  <2> QED BY <1>5, <2>2, <2>3 DEF Puts
<1>7. CASE RowsOf(s, i.data) = {}
  <2>1. /\ newRows'[s] = newRows[s] \cup {i} /\ item'[s] = i /\ pc'[s] = "payload"
    BY <1>7 DEF InsertRow, PInv, Typed, TypeOK
  <2>2. \A r \in rows \cup newRows[s] : r.data # i.data
    BY <1>7 DEF RowsOf
  <2>3. TaskOK(s)'
    BY <1>1, <2>1, PutFacts DEF TaskOK, PutSteps, EraseSteps
  <2>4. PutOK(s)'
    BY <1>1, <1>4, <2>1, <2>2, PutFacts DEF PutOK, FileOf, PutSteps
  <2>5. EraseOK(s)'
    BY <2>1 DEF EraseOK, EraseSteps
  <2>6. FilesOwned'
    BY <1>1, <2>1, OwnedKeeps DEF FilesOwned, PutSteps, PInv, Puts
  <2> QED BY <1>5, <2>3, <2>4, <2>5, <2>6 DEF Puts
<1> QED BY <1>6, <1>7

\* The payload of the current item is a blob, in the transaction.
LEMMA BlobPuts ==
  ASSUME PInv, Typed', NEW s \in Sessions, PutBlob(s)
  PROVE  Puts'
<1> USE DEF storeVars, lockVars, txVars, askVars, history
<1>1. /\ pc[s] = "payload" /\ pc'[s] = "rows" /\ item[s].place = "blob"
      /\ newBlobs'[s] = newBlobs[s] \cup {item[s].data}
      /\ \A t \in Sessions \ {s} : Same(t)
      /\ UNCHANGED <<rows, blobs, files, left, newRows, snap, task, rowWriter>>
  BY DEF PutBlob, Same, PInv, Typed, TypeOK
<1>2. task[s] # "erase"
  BY <1>1, PutFacts DEF TaskOK, EraseSteps
<1>3. \A d : Gone(d) => Gone(d)'
  BY <1>1, <1>2, GoneKeeps
<1>4. /\ Keyed' /\ RowsWhole'
      /\ \A t \in Sessions \ {s} : TaskOK(t)' /\ PutOK(t)' /\ EraseOK(t)'
  BY <1>1, <1>3, OthersPut
<1>5. TaskOK(s)'
  BY <1>1, PutFacts DEF TaskOK, PutSteps, EraseSteps
<1>6. PutOK(s)'
  BY <1>1, <1>3, PutFacts DEF PutOK, FileOf, PutSteps
<1>7. EraseOK(s)'
  BY <1>1 DEF EraseOK, EraseSteps
<1>8. FilesOwned'
  BY <1>1, OwnedKeeps DEF FilesOwned, PutSteps, PInv, Puts
<1> QED BY <1>4, <1>5, <1>6, <1>7, <1>8 DEF Puts

\* A file that is there before the payload is put has no row: it was left.
LEMMA AdoptedIsLeft ==
  ASSUME PInv, NEW s \in Sessions, pc[s] = "payload", files[item[s].data] # NoFile
  PROVE  item[s].data \in left \/ (item[s].place # "blob" => FileOf(item[s]))
<1>1. /\ item[s] \in newRows[s] /\ item[s].data \in Data
      /\ \A r \in rows : r.data # item[s].data
      /\ \A j \in newRows[s] : j.data = item[s].data => j = item[s]
  BY PutFacts DEF PutOK, PutSteps
<1>2. Owned(item[s].data)
  BY <1>1 DEF PInv, Puts, FilesOwned
<1>3. SUFFICES ASSUME NEW t \in Sessions, NEW i \in newRows[t], i.data = item[s].data,
                      FileOf(i) \/ (pc[t] = "writing" /\ item[t] = i)
               PROVE  FileOf(item[s])
  BY <1>1, <1>2 DEF Owned
<1>4. t = s /\ i = item[s]
  BY <1>1, <1>3, OneWriter
<1> QED BY <1>3, <1>4

\* The payload of the current item is a file: its own, or one that was left.
LEMMA FilePuts ==
  ASSUME PInv, Typed', NEW s \in Sessions, MoveFile(s) \/ WriteFile(s) \/ FinishFile(s)
  PROVE  Puts'
<1> USE DEF storeVars, lockVars, txVars, askVars, history
<1>0. PICK i : i = item[s]
  OBVIOUS
<1>1. /\ \/ pc[s] = "payload" /\ i.place # "blob"
         \/ pc[s] = "writing" /\ pc'[s] = "rows" /\ files'[i.data] = File("whole", i.base)
      /\ pc'[s] \in {"rows", "writing"} /\ (pc'[s] = "writing" => item'[s] = i)
      /\ \A t \in Sessions \ {s} : Same(t)
      /\ UNCHANGED <<rows, blobs, left, newRows, newBlobs, snap, task, rowWriter>>
  <2>1. CASE MoveFile(s)
    BY <1>0, <2>1 DEF MoveFile, Same, PInv, Typed, TypeOK
  <2>2. CASE WriteFile(s)
    <3>1. /\ pc[s] = "payload" /\ item[s].place = "written"
          /\ \/ pc' = [pc EXCEPT ![s] = "writing"] /\ item' = item
             \/ pc' = [pc EXCEPT ![s] = "rows"] /\ item' = [item EXCEPT ![s] = None]
          /\ UNCHANGED <<rows, blobs, left, newRows, newBlobs, snap, task, rowWriter>>
      BY <2>2 DEF WriteFile
    <3> QED BY <1>0, <3>1 DEF Same, PInv, Typed, TypeOK
  <2>3. CASE FinishFile(s)
    BY <1>0, <2>3 DEF FinishFile, Same, PInv, Typed, TypeOK
  <2> QED BY <2>1, <2>2, <2>3
<1>2. /\ i \in newRows[s] /\ i.data \in Data /\ i.place # "blob"
      /\ \A r \in rows : r.data # i.data
      /\ \A j \in newRows[s] : j.data = i.data => j = i
  BY <1>0, <1>1, PutFacts DEF PutOK, PutSteps
<1>3. \A d \in Data \ {i.data} : files'[d] = files[d]
  BY <1>0, <1>2 DEF MoveFile, WriteFile, FinishFile, PInv, Typed, TypeOK
<1>4. \/ pc'[s] = "writing" /\ item'[s] = i
      \/ pc'[s] = "rows" /\ (i.data \in left \/ files'[i.data] = File("whole", i.base))
  <2>1. CASE MoveFile(s) \/ WriteFile(s)
    <3>1. pc[s] = "payload"
      BY <2>1 DEF MoveFile, WriteFile
    <3>2. \/ pc'[s] = "writing" /\ item'[s] = i
          \/ pc'[s] = "rows" /\ files'[i.data] = File("whole", i.base)
          \/ pc'[s] = "rows" /\ files'[i.data] = files[i.data] /\ files[i.data] # NoFile
      BY <1>0, <1>2, <2>1 DEF MoveFile, WriteFile, PInv, Typed, TypeOK
    <3>3. files[i.data] # NoFile => i.data \in left \/ FileOf(i)
      BY <1>0, <1>2, <3>1, AdoptedIsLeft
    <3> QED BY <3>2, <3>3 DEF FileOf
  <2>2. CASE FinishFile(s)
    BY <1>0, <1>2, <2>2 DEF FinishFile, PInv, Typed, TypeOK
  <2> QED BY <2>1, <2>2
<1>5. \A d : Gone(d) => Gone(d)'
  <2>1. task[s] # "erase"
    BY <1>1, PutFacts DEF TaskOK, EraseSteps
  <2> QED BY <1>1, <2>1, GoneKeeps
<1>6. /\ Keyed' /\ RowsWhole'
      /\ \A t \in Sessions \ {s} : TaskOK(t)' /\ PutOK(t)' /\ EraseOK(t)'
  BY <1>1, <1>2, <1>3, <1>5, OthersPut
<1>7. TaskOK(s)'
  BY <1>1, PutFacts DEF TaskOK, PutSteps, EraseSteps
<1>8. i.data \in left => Gone(i.data)'
  BY <1>1 DEF Gone
<1> DEFINE PutIn(j) ==
      \/ j = item[s] /\ pc[s] \in {"payload", "writing"}
      \/ j.place = "blob" /\ j.data \in newBlobs[s]
      \/ j.place # "blob" /\ (FileOf(j) \/ Gone(j.data))
<1>9. PutOK(s)'
  <2>1. \A j \in newRows[s] : PutIn(j) /\ j.data \in Data
    BY <1>0, <1>1, PutFacts DEF PutOK, PutSteps
  <2>2. \A j \in newRows[s] : j.data # i.data => PutIn(j)' \/ j = i
    <3> SUFFICES ASSUME NEW j \in newRows[s], j.data # i.data, j # i  PROVE PutIn(j)'
      OBVIOUS
    <3>1. FileOf(j)' <=> FileOf(j)
      BY <1>3, <2>1 DEF FileOf
    <3> QED BY <1>0, <1>1, <1>5, <2>1, <3>1
  <2>3. PutIn(i)'
    BY <1>1, <1>2, <1>4, <1>8 DEF FileOf
  <2>4. \A j \in newRows[s] : PutIn(j)'
    BY <1>2, <2>2, <2>3
  <2>5. pc'[s] = "writing" => item'[s] = i
    BY <1>1
  <2>6. pc'[s] # "payload" /\ pc'[s] # "commit"
    BY <1>1
  <2>7. /\ newRows'[s] = newRows[s] /\ rows' = rows
        /\ \A j \in newRows[s] : /\ \A r \in rows : r.data # j.data
                                 /\ \A k \in newRows[s] : k.data = j.data => k = j
    BY <1>0, <1>1, PutFacts DEF PutOK, PutSteps
  <2> QED BY <1>2, <2>4, <2>5, <2>6, <2>7 DEF PutOK
<1>10. EraseOK(s)'
  BY <1>1 DEF EraseOK, EraseSteps
<1>11. FilesOwned'
  <2>1. pc[s] \in PutSteps /\ pc'[s] \in PutSteps
    BY <1>1 DEF PutSteps
  <2>2. ASSUME NEW d \in Data, d # i.data, files'[d] # NoFile  PROVE Owned(d)'
    <3>1. files'[d] = files[d] /\ Owned(d)
      BY <1>3, <2>2 DEF PInv, Puts, FilesOwned
    <3> QED BY <1>0, <1>1, <2>1, <2>2, <3>1, OwnedKeeps
  <2>3. Owned(i.data)'
    BY <1>1, <1>2, <1>4, <2>1 DEF Owned, FileOf
  <2> QED BY <2>2, <2>3 DEF FilesOwned
<1> QED BY <1>6, <1>7, <1>9, <1>10, <1>11 DEF Puts

\* The blobs are committed, and those of the rows inserted are there.
LEMMA CommitBlobsPuts ==
  ASSUME PInv, Typed', NEW s \in Sessions, CommitBlobs(s)
  PROVE  Puts'
<1> USE DEF storeVars, lockVars, txVars, askVars, history
<1>1. /\ pc[s] = "rows" /\ pc'[s] = "commit"
      /\ blobs' = blobs \cup newBlobs[s] /\ newBlobs'[s] = {}
      /\ \A t \in Sessions \ {s} : Same(t)
      /\ UNCHANGED <<rows, files, left, newRows, snap, task, rowWriter>>
  BY DEF CommitBlobs, Same, PInv, Typed, TypeOK
<1>2. task[s] # "erase"
  BY <1>1, PutFacts DEF TaskOK, EraseSteps
<1>3. \A d : Gone(d) => Gone(d)'
  BY <1>1, <1>2, GoneKeeps
<1>4. /\ Keyed' /\ RowsWhole'
      /\ \A t \in Sessions \ {s} : TaskOK(t)' /\ PutOK(t)' /\ EraseOK(t)'
  BY <1>1, <1>3, OthersPut
<1>5. TaskOK(s)'
  BY <1>1, PutFacts DEF TaskOK, PutSteps, EraseSteps
<1>6. PutOK(s)'
  BY <1>1, <1>3, PutFacts DEF PutOK, FileOf, PutSteps
<1>7. EraseOK(s)'
  BY <1>1 DEF EraseOK, EraseSteps
<1>8. FilesOwned'
  BY <1>1, OwnedKeeps DEF FilesOwned, PutSteps, PInv, Puts
<1> QED BY <1>4, <1>5, <1>6, <1>7, <1>8 DEF Puts

\* The rows are committed, each with its payload.
LEMMA CommitRowsPuts ==
  ASSUME PInv, Typed', NEW s \in Sessions, CommitRows(s)
  PROVE  Puts'
<1> USE DEF storeVars, lockVars, txVars, askVars, history
<1>1. /\ pc[s] = "commit" /\ pc'[s] \in {"open", "ended"}
      /\ rows' = rows \cup newRows[s] /\ newRows'[s] = {}
      /\ \A t \in Sessions \ {s} : /\ pc'[t] = pc[t] /\ task'[t] = task[t]
                                   /\ item'[t] = item[t] /\ newRows'[t] = newRows[t]
                                   /\ newBlobs'[t] = newBlobs[t]
                                   /\ rowWriter = t => rowWriter' = t
      /\ UNCHANGED <<blobs, files, left, newBlobs, task, item>>
  BY DEF CommitRows, PInv, Typed, TypeOK
<1>2. task[s] # "erase" /\ snap[s] = None /\ newBlobs[s] = {}
  BY <1>1, PutFacts DEF TaskOK, EraseSteps
<1>3. CASE newRows[s] = {}
  <2>1. rows' = rows /\ snap' = snap
    BY <1>1, <1>3 DEF CommitRows
  <2>2. \A t \in Sessions \ {s} : Same(t)
    BY <1>1, <2>1 DEF Same
  <2>3. \A d : Gone(d) => Gone(d)'
    BY <1>1, <1>2, <2>2, GoneKeeps
  <2>4. /\ Keyed' /\ RowsWhole'
        /\ \A t \in Sessions \ {s} : TaskOK(t)' /\ PutOK(t)' /\ EraseOK(t)'
    BY <1>1, <2>1, <2>2, <2>3, OthersPut
  <2>5. TaskOK(s)' /\ PutOK(s)' /\ EraseOK(s)'
    BY <1>1, <1>2, <2>1 DEF TaskOK, PutOK, EraseOK, PutSteps, EraseSteps
  <2>6. FilesOwned'
    BY <1>1, <1>3, <2>1 DEF FilesOwned, Owned, FileOf, PutSteps, PInv, Puts
  <2> QED BY <2>4, <2>5, <2>6 DEF Puts
<1>4. CASE newRows[s] # {}
  <2>1. \A t \in Sessions \ {s} :
          /\ newRows[t] = {}
          /\ snap[t] = None => snap'[t] = None
          /\ snap[t] # None => /\ snap'[t] # None => ~snap'[t].fresh
                               /\ snap'[t].rows = snap[t].rows
    <3>1. \A t \in Sessions : snap[t] # None => snap[t] \in Snapshots
      BY DEF PInv, Typed, TypeOK
    <3> QED BY <1>1, <1>4, <3>1, OneWriter DEF CommitRows, Outdated, Snapshots
  <2>2. snap'[s] = None
    BY <1>1, <1>4 DEF CommitRows, Outdated
  <2>3. \A t \in Sessions \ {s} : Handled(t)' = Handled(t)
    BY <1>1 DEF Handled, InHand
  <2>4. \A d : Gone(d) => Gone(d)'
    BY <1>1, <1>2, <2>3 DEF Gone
  <2>5. \A i \in newRows[s] : /\ \A r \in rows : r.data # i.data
                              /\ \A j \in newRows[s] : j.data = i.data => j = i
                              /\ \/ i.place = "blob" /\ i.data \in blobs
                                 \/ i.place # "blob" /\ (FileOf(i) \/ Gone(i.data))
    BY <1>1, PutFacts DEF PutOK, PutSteps
  <2>6. Keyed'
    BY <1>1, <2>5 DEF Keyed, PInv, Puts
  <2>7. RowsWhole'
    BY <1>1, <2>4, <2>5 DEF RowsWhole, FileOf, PInv, Puts
  <2>8. TaskOK(s)' /\ PutOK(s)' /\ EraseOK(s)'
    BY <1>1, <1>2, <2>2 DEF TaskOK, PutOK, EraseOK, PutSteps, EraseSteps
  <2>9. ASSUME NEW t \in Sessions \ {s}  PROVE TaskOK(t)' /\ PutOK(t)' /\ EraseOK(t)'
    <3>1. TaskOK(t) /\ PutOK(t) /\ EraseOK(t)
      BY DEF PInv, Puts
    <3>2. TaskOK(t)'
      BY <1>1, <2>1, <3>1 DEF TaskOK
    <3>3. PutOK(t)'
      BY <1>1, <2>1, <3>1 DEF PutOK
    <3>4. EraseOK(t)'
      <4>1. InHand(t)' = InHand(t)
        BY <1>1 DEF InHand
      <4>2. pc[t] \in {"erasePayload", "eraseRow"} => snap[t] # None /\ snap'[t] # None
        BY <1>1 DEF PInv, Typed
      <4> QED BY <1>1, <2>1, <3>1, <4>1, <4>2 DEF EraseOK
    <3> QED BY <3>2, <3>3, <3>4
  <2>10. FilesOwned'
    <3> SUFFICES ASSUME NEW d \in Data, Owned(d)  PROVE Owned(d)'
      BY <1>1 DEF FilesOwned, PInv, Puts
    <3>1. \A t \in Sessions : pc[t] = "writing" => newRows[t] = {}
      BY <1>1, <2>1
    <3>2. \/ d \in left
          \/ \E r \in rows \cup newRows[s] : r.data = d /\ r.place # "blob" /\ FileOf(r)
      BY <2>1, <3>1 DEF Owned
    <3> QED BY <1>1, <3>2 DEF Owned, FileOf
  <2> QED BY <2>6, <2>7, <2>8, <2>9, <2>10 DEF Puts
<1> QED BY <1>3, <1>4

\* The row that is found is one of the snapshot.
LEMMA FindPuts ==
  ASSUME PInv, Typed', NEW s \in Sessions, NEW d \in Data, FindRow(s, d)
  PROVE  Puts'
<1> USE DEF storeVars, lockVars, txVars, askVars, history
<1>1. /\ pc[s] = "erase" /\ pc'[s] \in {"erase", "erasePayload"} /\ task'[s] = task[s]
      /\ snap'[s] = Snapshot(s)
      /\ pc'[s] = "erasePayload" => item'[s] \in Snapshot(s).rows
      /\ \A t \in Sessions \ {s} : Same(t)
      /\ UNCHANGED <<rows, blobs, files, left, newRows, newBlobs, rowWriter>>
  BY DEF FindRow, Same, PInv, Typed, TypeOK
<1>2. Handled(s)' = Handled(s) /\ InHand(s)' = InHand(s)
  BY <1>1 DEF Handled, InHand
<1>3. \A d1 : Gone(d1) => Gone(d1)'
  BY <1>1, <1>2, SameHandled DEF Gone, Same
<1>4. /\ Keyed' /\ RowsWhole'
      /\ \A t \in Sessions \ {s} : TaskOK(t)' /\ PutOK(t)' /\ EraseOK(t)'
  BY <1>1, <1>3, OthersPut
<1>5. TaskOK(s)'
  BY <1>1, PutFacts DEF TaskOK, PutSteps, EraseSteps
<1>6. PutOK(s)'
  BY <1>1 DEF PutOK, PutSteps
<1>7. EraseOK(s)'
  <2>1. Snapshot(s).fresh => Snapshot(s).rows = rows
    BY <1>1, PutFacts DEF EraseOK, EraseSteps, Snapshot
  <2> QED BY <1>1, <1>2, <2>1, PutFacts DEF EraseOK, EraseSteps
<1>8. FilesOwned'
  BY <1>1, OwnedKeeps DEF FilesOwned, PutSteps, PInv, Puts
<1> QED BY <1>4, <1>5, <1>6, <1>7, <1>8 DEF Puts

\* A blob is deleted in the transaction; the payload in a file is Gone at once.
LEMMA ErasePayloadPuts ==
  ASSUME PInv, Typed', NEW s \in Sessions, ErasePayload(s)
  PROVE  Puts'
<1> USE DEF storeVars, lockVars, txVars, askVars, history
<1>0. PICK i : i = item[s]
  OBVIOUS
<1>1. /\ pc[s] = "erasePayload" /\ pc'[s] = "eraseRow" /\ task[s] = "erase"
      /\ i \in Items /\ i.data \in Data
      /\ \A t \in Sessions \ {s} : Same(t)
      /\ UNCHANGED <<rows, blobs, left, newRows, item, snap, task, rowWriter>>
  BY <1>0, PutFacts DEF ErasePayload, Same, TaskOK, EraseSteps, AtItem, PInv, Typed, TypeOK
<1>2. \/ /\ i.place = "blob" /\ files' = files
         /\ newBlobs'[s] = newBlobs[s] \cup {i.data}
      \/ /\ i.place # "blob" /\ newBlobs'[s] = newBlobs[s]
         /\ files'[i.data] = NoFile /\ \A d \in Data \ {i.data} : files'[d] = files[d]
  BY <1>0, <1>1 DEF ErasePayload, PInv, Typed, TypeOK
<1>3. InHand(s)' = InHand(s) \cup {i} /\ InHand(s) = newRows[s]
  BY <1>0, <1>1 DEF InHand
<1>4. Handled(s) \subseteq Handled(s)' /\ (i.place # "blob" => i.data \in Handled(s)')
  BY <1>1, <1>3 DEF Handled
<1>5. /\ \A d : Gone(d) => Gone(d)'
      /\ i.place # "blob" => Gone(i.data)'
  BY <1>1, <1>4, SameHandled DEF Gone, Same
<1>6. /\ Keyed' /\ RowsWhole'
      /\ \A t \in Sessions \ {s} : TaskOK(t)' /\ PutOK(t)' /\ EraseOK(t)'
  BY <1>1, <1>2, <1>5, OthersPut
<1>7. TaskOK(s)'
  BY <1>1, PutFacts DEF TaskOK, PutSteps, EraseSteps
<1>8. PutOK(s)'
  BY <1>1 DEF PutOK, PutSteps
<1>9. EraseOK(s)'
  <2>1. EraseOK(s) /\ \A r \in newRows[s] : r.data \in Data
    BY PutFacts
  <2>2. \A r \in newRows[s] : r.place # "blob" => files'[r.data] = NoFile
    BY <1>1, <1>2, <2>1 DEF EraseOK, EraseSteps
  <2>3. \A d \in newBlobs'[s] : \E r \in InHand(s)' : r.data = d /\ r.place = "blob"
    BY <1>1, <1>2, <1>3, <2>1 DEF EraseOK, EraseSteps
  <2>4. i.place # "blob" => files'[i.data] = NoFile
    BY <1>2
  <2> QED BY <1>0, <1>1, <2>1, <2>2, <2>3, <2>4 DEF EraseOK, EraseSteps
<1>10. FilesOwned'
  <2>1. \A d \in Data : files'[d] = files[d] \/ files'[d] = NoFile
    BY <1>2
  <2> QED BY <1>1, <2>1, OwnedKeeps DEF FilesOwned, PutSteps, PInv, Puts
<1> QED BY <1>6, <1>7, <1>8, <1>9, <1>10 DEF Puts

\* The row is deleted while the snapshot is fresh: it is there.
LEMMA EraseRowPuts ==
  ASSUME PInv, Typed', NEW s \in Sessions, EraseRow(s)
  PROVE  Puts'
<1> USE DEF storeVars, lockVars, txVars, askVars, history
<1>0. PICK i : i = item[s]
  OBVIOUS
<1>1. /\ pc[s] = "eraseRow" /\ pc'[s] = "erase" /\ task[s] = "erase"
      /\ rowWriter \in {None, s} /\ rowWriter' = s /\ snap[s].fresh /\ snap[s] # None
      /\ newRows'[s] = newRows[s] \cup {i}
      /\ \A t \in Sessions \ {s} : Same(t)
      /\ UNCHANGED <<rows, blobs, files, left, newBlobs, snap, task>>
      /\ None \notin Sessions
  BY <1>0, PutFacts, DataAssumption DEF EraseRow, Same, TaskOK, EraseSteps, PInv, Typed, TypeOK
<1>2. InHand(s)' = InHand(s)
  BY <1>0, <1>1 DEF InHand
<1>3. Handled(s)' = Handled(s)
  BY <1>1, <1>2 DEF Handled
<1>4. \A d : Gone(d) => Gone(d)'
  BY <1>1, <1>3, SameHandled DEF Gone, Same
<1>5. /\ Keyed' /\ RowsWhole'
      /\ \A t \in Sessions \ {s} : TaskOK(t)' /\ PutOK(t)' /\ EraseOK(t)'
  <2>1. \A t \in Sessions \ {s} : rowWriter # t
    BY <1>1
  <2> QED BY <1>1, <1>4, <2>1, OthersPut
<1>6. TaskOK(s)'
  BY <1>1, PutFacts DEF TaskOK, PutSteps, EraseSteps
<1>7. PutOK(s)'
  BY <1>1 DEF PutOK, PutSteps
<1>8. EraseOK(s)'
  <2>1. i \in rows /\ (i.place # "blob" => files[i.data] = NoFile) /\ EraseOK(s)
    BY <1>0, <1>1, PutFacts DEF EraseOK, EraseSteps
  <2> QED BY <1>1, <1>2, <2>1 DEF EraseOK, EraseSteps
<1>9. FilesOwned'
  BY <1>1, OwnedKeeps DEF FilesOwned, PutSteps, PInv, Puts
<1> QED BY <1>5, <1>6, <1>7, <1>8, <1>9 DEF Puts

\* The blobs go before their rows, which only the session that deletes them can see
\* the end of.
LEMMA EraseBlobsPuts ==
  ASSUME PInv, Typed', NEW s \in Sessions, CommitErasedBlobs(s)
  PROVE  Puts'
<1> USE DEF storeVars, lockVars, txVars, askVars, history
<1>1. /\ pc[s] = "erase" /\ pc'[s] = "erased" /\ task[s] = "erase"
      /\ blobs' = blobs \ newBlobs[s] /\ newBlobs'[s] = {}
      /\ \A t \in Sessions \ {s} : Same(t)
      /\ UNCHANGED <<rows, files, left, newRows, item, snap, task, rowWriter>>
  BY PutFacts DEF CommitErasedBlobs, Same, TaskOK, EraseSteps, PInv, Typed, TypeOK
<1>2. InHand(s)' = InHand(s) /\ InHand(s) = newRows[s]
  BY <1>1 DEF InHand
<1>3. Handled(s) \subseteq Handled(s)' /\ \A i \in newRows[s] : i.data \in Handled(s)'
  BY <1>1, <1>2 DEF Handled
<1>4. /\ \A d : Gone(d) => Gone(d)'
      /\ \A i \in newRows[s] : Gone(i.data)'
  BY <1>1, <1>3, SameHandled DEF Gone, Same
<1>5. \A d \in newBlobs[s] : \E i \in newRows[s] : i.data = d
  BY <1>1, <1>2, PutFacts DEF EraseOK, EraseSteps
<1>6. \A d \in Data : d \in blobs /\ d \notin blobs' =>
                        Gone(d)' /\ \A t \in Sessions \ {s} : newRows[t] = {}
  BY <1>1, <1>4, <1>5, OneWriter
<1>7. /\ Keyed' /\ RowsWhole'
      /\ \A t \in Sessions \ {s} : TaskOK(t)' /\ PutOK(t)' /\ EraseOK(t)'
  BY <1>1, <1>4, <1>6, OthersPut
<1>8. TaskOK(s)'
  BY <1>1, PutFacts DEF TaskOK, PutSteps, EraseSteps
<1>9. PutOK(s)'
  BY <1>1 DEF PutOK, PutSteps
<1>10. EraseOK(s)'
  BY <1>1, PutFacts DEF EraseOK, EraseSteps
<1>11. FilesOwned'
  BY <1>1, OwnedKeeps DEF FilesOwned, PutSteps, PInv, Puts
<1> QED BY <1>7, <1>8, <1>9, <1>10, <1>11 DEF Puts

\* The rows go whose payload is gone.
LEMMA EraseRowsPuts ==
  ASSUME PInv, Typed', NEW s \in Sessions, CommitErasedRows(s)
  PROVE  Puts'
<1> USE DEF storeVars, lockVars, txVars, askVars, history
<1>1. /\ pc[s] = "erased" /\ pc'[s] = "idle" /\ task[s] = "erase" /\ task'[s] = "none"
      /\ rows' = rows \ newRows[s] /\ newRows'[s] = {} /\ newBlobs'[s] = {}
      /\ snap'[s] = None
      /\ \A t \in Sessions \ {s} : /\ pc'[t] = pc[t] /\ task'[t] = task[t]
                                   /\ item'[t] = item[t] /\ newRows'[t] = newRows[t]
                                   /\ newBlobs'[t] = newBlobs[t]
                                   /\ rowWriter = t => rowWriter' = t
      /\ UNCHANGED <<blobs, files, left>>
  BY PutFacts DEF CommitErasedRows, Close, Outdated, TaskOK, EraseSteps, PInv, Typed, TypeOK
<1>2. \A t \in Sessions \ {s} :
        /\ snap[t] = None => snap'[t] = None
        /\ snap'[t] # None => /\ snap[t] # None /\ snap'[t].rows = snap[t].rows
                              /\ snap'[t].fresh => snap[t].fresh /\ newRows[s] = {}
  <2>1. \A t \in Sessions : snap[t] # None => snap[t] \in Snapshots
    BY DEF PInv, Typed, TypeOK
  <2>2. CASE newRows[s] = {}
    BY <2>2 DEF CommitErasedRows, PInv, Typed, TypeOK
  <2>3. CASE newRows[s] # {}
    BY <2>1, <2>3 DEF CommitErasedRows, Outdated, Snapshots
  <2> QED BY <2>2, <2>3
<1>3. newRows[s] \subseteq rows /\ Keyed
  BY <1>1, PutFacts DEF EraseOK, EraseSteps, PInv, Puts
<1>4. Handled(s) = {i.data : i \in newRows[s]}
  BY <1>1 DEF Handled, InHand
<1>5. \A t \in Sessions \ {s} : Handled(t)' = Handled(t)
  BY <1>1 DEF Handled, InHand
<1>6. \A d : Gone(d) => Gone(d)' \/ d \in Handled(s)
  BY <1>1, <1>5 DEF Gone
<1>7. Keyed'
  BY <1>1, <1>3 DEF Keyed
<1>8. RowsWhole'
  <2>1. \A r \in rows' : r \in rows /\ r.data \notin Handled(s)
    BY <1>1, <1>3, <1>4 DEF Keyed
  <2> QED BY <1>1, <1>6, <2>1 DEF RowsWhole, FileOf, PInv, Puts
<1>9. TaskOK(s)' /\ PutOK(s)' /\ EraseOK(s)'
  BY <1>1 DEF TaskOK, PutOK, EraseOK, PutSteps, EraseSteps
<1>10. ASSUME NEW t \in Sessions \ {s}  PROVE TaskOK(t)' /\ PutOK(t)' /\ EraseOK(t)'
  <2>1. TaskOK(t) /\ PutOK(t) /\ EraseOK(t)
    BY DEF PInv, Puts
  <2>2. newRows[t] = {} \/ newRows[s] = {}
    BY OneWriter
  <2>3. TaskOK(t)'
    BY <1>1, <1>2, <2>1 DEF TaskOK
  <2>4. PutOK(t)'
    <3>1. CASE newRows[t] = {}
      BY <1>1, <2>1, <3>1 DEF PutOK
    <3>2. CASE newRows[s] = {}
      <4>1. \A d : Gone(d) => Gone(d)'
        BY <1>4, <1>6, <3>2
      <4>2. rows' = rows
        BY <1>1, <3>2
      <4> QED BY <1>1, <2>1, <4>1, <4>2 DEF PutOK, FileOf
    <3> QED BY <2>2, <3>1, <3>2
  <2>5. EraseOK(t)'
    <3>1. InHand(t)' = InHand(t)
      BY <1>1 DEF InHand
    <3>2. newRows[t] \subseteq rows => newRows[t] \subseteq rows'
      BY <1>1, <2>2
    <3>3. pc[t] \in {"erasePayload", "eraseRow"} => snap[t] # None /\ snap'[t] # None
      BY <1>1 DEF PInv, Typed
    <3>4. newRows[s] = {} => rows' = rows
      BY <1>1
    <3> QED BY <1>1, <1>2, <2>1, <3>1, <3>2, <3>3, <3>4 DEF EraseOK
  <2> QED BY <2>3, <2>4, <2>5
<1>11. FilesOwned'
  <2> SUFFICES ASSUME NEW d \in Data, files[d] # NoFile, Owned(d)  PROVE Owned(d)'
    BY <1>1 DEF FilesOwned, PInv, Puts
  <2>1. CASE d \in left
    BY <1>1, <2>1 DEF Owned
  <2>2. ASSUME NEW r \in rows, r.data = d, r.place # "blob", FileOf(r)  PROVE Owned(d)'
    <3>1. r \notin newRows[s]
      BY <1>1, <2>2, PutFacts DEF EraseOK, EraseSteps
    <3> QED BY <1>1, <2>2, <3>1 DEF Owned, FileOf
  <2>3. ASSUME NEW t \in Sessions, NEW i \in newRows[t], pc[t] \in PutSteps,
               i.data = d, i.place # "blob", FileOf(i) \/ (pc[t] = "writing" /\ item[t] = i)
        PROVE  Owned(d)'
    <3>1. t # s
      BY <1>1, <2>3 DEF PutSteps
    <3> QED BY <1>1, <2>3, <3>1 DEF Owned, FileOf
  <2> QED BY <2>1, <2>2, <2>3 DEF Owned
<1> QED BY <1>7, <1>8, <1>9, <1>10, <1>11 DEF Puts

\* Every step keeps the payloads of the rows, committed or not, in place.
LEMMA StepPuts == PInv /\ [Next]_vars => PInv'
<1> SUFFICES ASSUME PInv, [Next]_vars  PROVE Puts'
  BY StepTyped DEF PInv
<1>0. Typed'
  BY StepTyped DEF PInv
<1> USE DEF storeVars, lockVars, txVars, askVars, history
<1>1. ASSUME NEW s \in Sessions, NEW want \in SUBSET Data,
             \/ BeginRecord(s, want) \/ BeginErase(s, want)
             \/ \E remote \in Encodings : BeginReceive(s, want, remote)
      PROVE  Puts'
  <2>1. /\ pc[s] = "idle" /\ pc'[s] \in {"open", "erase"}
        /\ task'[s] = "erase" <=> pc'[s] = "erase"
        /\ \A t \in Sessions \ {s} : Same(t) /\ (rowWriter = t => rowWriter' = t)
        /\ UNCHANGED <<rows, blobs, files, left, newRows, newBlobs, snap>>
    BY <1>1 DEF BeginRecord, BeginReceive, BeginErase, Same, PInv, Typed, TypeOK
  <2>2. newRows[s] = {} /\ newBlobs[s] = {} /\ snap[s] = None
    BY <2>1, PutFacts DEF TaskOK, PutSteps, EraseSteps
  <2> QED BY <1>0, <2>1, <2>2, QuietPuts
<1>2. ASSUME NEW s \in Sessions,
             \/ \E d \in Data : SkipRecord(s, d)
             \/ \E d \in Data, prior \in Data : \E place \in Places[d] :
                  RecordData(s, d, prior, place)
             \/ \E d \in Data : \E place \in Places[d] : Receive(s, d, place)
             \/ BeginComplete(s) \/ RequestBases(s)
      PROVE  Puts'
  <2>1. /\ pc[s] \in {"open", "ended"} /\ pc'[s] \in {"open", "rows"}
        /\ \A t \in Sessions \ {s} : Same(t) /\ (rowWriter = t => rowWriter' = t)
        /\ UNCHANGED <<rows, blobs, files, left, newRows, newBlobs, snap, task>>
    BY <1>2 DEF SkipRecord, RecordData, Receive, BeginComplete, RequestBases, Same,
                PInv, Typed, TypeOK
  <2>2. newRows[s] = {} /\ newBlobs[s] = {} /\ snap[s] = None /\ task[s] # "erase"
    BY <2>1, PutFacts DEF TaskOK, PutSteps, EraseSteps
  <2>3. task'[s] = "erase" <=> pc'[s] = "erase"
    BY <2>1, <2>2
  <2> QED BY <1>0, <2>1, <2>2, <2>3, QuietPuts
<1>3. ASSUME NEW s \in Sessions, (\E d \in Data : ReceiveThrows(s, d)) \/ Finish(s)
      PROVE  Puts'
  <2>1. /\ pc[s] \in {"open", "ended"} /\ EndSession(s) /\ left' = left
        /\ UNCHANGED <<rows, blobs, files>>
    BY <1>3 DEF ReceiveThrows, Finish
  <2>2. /\ \A t \in Sessions \ {s} : Same(t) /\ (rowWriter = t => rowWriter' = t)
        /\ pc'[s] = "idle" /\ task'[s] = "none"
        /\ newRows'[s] = {} /\ newBlobs'[s] = {} /\ snap'[s] = None
    BY <2>1 DEF EndSession, Close, Same, PInv, Typed, TypeOK
  <2> QED BY <1>0, <2>1, <2>2, QuietPuts
<1>4. ASSUME NEW s \in Sessions, EraseThrows(s) \/ Fail(s)  PROVE Puts'
  <2>1. EndSession(s) /\ UNCHANGED storeVars /\ left' = left \cup Handled(s)
    BY <1>4 DEF EraseThrows, Fail
  <2> QED BY <1>0, <2>1, FailPuts
<1>5. CASE UNCHANGED vars
  <2>1. UNCHANGED <<rows, blobs, files, pc, task, item, newRows, newBlobs, snap, left, rowWriter>>
    BY <1>5 DEF vars
  <2> QED BY <2>1 DEF PInv, Puts, Keyed, RowsWhole, FilesOwned, Owned, FileOf, Gone, Handled,
                      InHand, TaskOK, PutOK, EraseOK
<1>6. ASSUME NEW s \in Sessions, Begin(s)  PROVE Puts'
  BY <1>1, <1>6 DEF Begin
<1>7. ASSUME NEW s \in Sessions, Gather(s)  PROVE Puts'
  <2>1. CASE \E d \in Data : SkipRecord(s, d) \/ ReceiveThrows(s, d)
    BY <1>2, <1>3, <2>1
  <2>2. CASE \E d \in Data, prior \in Data : \E place \in Places[d] : RecordData(s, d, prior, place)
    BY <1>2, <2>2
  <2>3. CASE \E d \in Data : \E place \in Places[d] : Receive(s, d, place)
    BY <1>2, <2>3
  <2>4. CASE BeginComplete(s) \/ RequestBases(s)
    BY <1>2, <2>4
  <2> QED BY <1>3, <1>7, <2>1, <2>2, <2>3, <2>4 DEF Gather
<1>8. ASSUME NEW s \in Sessions, Put(s) \/ Complete(s)  PROVE Puts'
  BY <1>0, <1>8, InsertPuts, BlobPuts, FilePuts, CommitBlobsPuts, CommitRowsPuts
     DEF Put, Complete
<1>9. ASSUME NEW s \in Sessions, Erase(s)  PROVE Puts'
  BY <1>0, <1>4, <1>9, FindPuts, ErasePayloadPuts, EraseRowPuts, EraseBlobsPuts, EraseRowsPuts
     DEF Erase
<1>10. ASSUME NEW s \in Sessions, Fail(s)  PROVE Puts'
  BY <1>4, <1>10
<1> QED BY <1>5, <1>6, <1>7, <1>8, <1>9, <1>10 DEF Next

\* A committed row always has its whole payload as the row names its encoding,
\* whatever fails, whichever sessions store or erase the same data in whatever
\* encodings, and wherever payloads go; but for data that is being erased, and data
\* whose file was left by a session that failed with it at hand.
THEOREM PayloadsComplete == Spec => []RowsHavePayload
<1>1. Init => PInv
  BY InitPuts
<1>2. PInv /\ [Next]_vars => PInv'
  BY StepPuts
<1>3. PInv => RowsHavePayload
  <2> SUFFICES ASSUME PInv, NEW r \in rows  PROVE HasPayload(r) \/ Gone(r.data)
    BY DEF RowsHavePayload, Gone
  <2>1. IF r.place = "blob" THEN r.data \in blobs \/ Gone(r.data)
                            ELSE FileOf(r) \/ Gone(r.data)
    BY DEF PInv, Puts, RowsWhole
  <2> QED BY <2>1 DEF HasPayload, FileOf, File
<1> QED BY <1>1, <1>2, <1>3, PTL DEF Spec

----------------------------------------------------------------------------
(* Readable data *)

\* What can be read, or is excused.
Ends == {None} \cup dropped \cup erased \cup left
Sound == Grounded(rows, Ends)

\* What an erasing session has at hand was erased.
ErasedOK(s) ==
  pc[s] \in EraseSteps =>
    /\ todo[s] \subseteq erased
    /\ \A i \in newRows[s] : i.data \in erased
    /\ pc[s] \in {"erasePayload", "eraseRow"} => item[s].data \in erased

\* Of the data a session gathers: it is sound, or has a row or will have one, on a
\* base that is sound or is gathered or looked up in turn.
Held(s, got, g) ==
  \/ g \in Sound
  \/ \E i \in pending[s] \cup newRows[s] \cup rows :
       /\ i.data = g
       /\ \/ i.base \in Sound
          \/ task[s] = "receive" /\ i.base = encoding[s][g] /\ i.base \in bases[s] \cup got

Gathered(s, got) ==
  /\ asked[s] \subseteq got \cup Sound
  /\ task[s] = "receive" => requested[s] \subseteq got \cup Sound
  /\ \A g \in got : g \in todo[s] \/ Held(s, got, g)

GatheredOK(s) ==
  pc[s] \in PutSteps \cup {"open", "ended"} =>
    /\ task[s] \in {"record", "receive"}
    /\ pc[s] \in {"commit", "ended"} => pending[s] = {}
    /\ pc[s] = "ended" => todo[s] = {}
    /\ \E got \in SUBSET Data : Gathered(s, got)

KInv == PInv /\ kept \subseteq Sound /\ \A s \in Sessions : ErasedOK(s) /\ GatheredOK(s)

\* Nothing that these say of a session changes.
SameAsk(t) ==
  /\ pc'[t] = pc[t] /\ task'[t] = task[t] /\ item'[t] = item[t]
  /\ pending'[t] = pending[t] /\ newRows'[t] = newRows[t] /\ todo'[t] = todo[t]
  /\ asked'[t] = asked[t] /\ requested'[t] = requested[t] /\ bases'[t] = bases[t]
  /\ encoding'[t] = encoding[t]

\* Data with a row on a sound base is sound, and so is what HasDataDirect finds.
LEMMA SoundFacts ==
  ASSUME TypeOK
  PROVE  /\ \A r \in rows : r.base \in Sound => r.data \in Sound
         /\ Ends \subseteq Sound
         /\ \A d : HasDataDirect(d) => d \in Sound
<1>1. \A r \in rows : r.base \in Sound => r.data \in Sound
  <2>1. \A r \in rows : r.data \in Data
    BY DEF TypeOK, Items
  <2> QED BY <2>1, GroundedStep DEF Sound
<1>2. Ends \subseteq Sound
  <2>1. Ends \subseteq Data \cup {None}
    BY DEF Ends, TypeOK
  <2> QED BY <2>1, GroundedEnds DEF Sound
<1>3. Grounded(rows, {None}) \subseteq Sound
  <2>1. {None} \subseteq Sound
    BY <1>2 DEF Ends
  <2> QED BY <1>1, <2>1, GroundedKeeps DEF Sound
<1> QED BY <1>1, <1>2, <1>3 DEF HasDataDirect

\* What is sound stays so: rows go only of data that was erased.
LEMMA SoundGrows ==
  ASSUME TypeOK', Ends \subseteq Ends', \A r \in rows : r \in rows' \/ r.data \in Ends'
  PROVE  Sound \subseteq Sound'
<1> DEFINE E == Ends'
           R == rows'
           S == Grounded(R, E)
<1>1. E \subseteq S
  <2>1. E \subseteq Data \cup {None}
    BY DEF Ends, TypeOK
  <2> HIDE DEF E, R
  <2> QED BY <2>1, GroundedEnds
<1>2. \A r \in R : r.base \in S => r.data \in S
  <2>1. \A r \in R : r.data \in Data
    BY DEF TypeOK, Items
  <2> HIDE DEF E, R
  <2> QED BY <2>1, GroundedStep
<1>3. Ends \subseteq S /\ \A r \in rows : r.base \in S => r.data \in S
  <2> HIDE DEF S
  <2> QED BY <1>1, <1>2
<1>4. Grounded(rows, Ends) \subseteq S
  <2> HIDE DEF E, R
  <2> QED BY <1>3, GroundedKeeps
<1> QED BY <1>4 DEF Sound

\* A step of session s keeps what holds of the others.
LEMMA OthersKept ==
  ASSUME KInv, NEW t \in Sessions, SameAsk(t), Sound \subseteq Sound',
         \A r \in rows : r \in rows' \/ r.data \in Sound',
         erased \subseteq erased'
  PROVE  ErasedOK(t)' /\ GatheredOK(t)'
<1>1. ErasedOK(t) /\ GatheredOK(t)
  BY DEF KInv
<1>2. ErasedOK(t)'
  BY <1>1 DEF ErasedOK, SameAsk
<1>3. GatheredOK(t)'
  <2> SUFFICES ASSUME pc[t] \in PutSteps \cup {"open", "ended"}  PROVE GatheredOK(t)'
    BY DEF GatheredOK, SameAsk
  <2>1. PICK got \in SUBSET Data : Gathered(t, got)
    BY <1>1 DEF GatheredOK
  <2>2. \A g : Held(t, got, g) => Held(t, got, g)'
    BY DEF Held, SameAsk
  <2>3. Gathered(t, got)'
    BY <2>1, <2>2 DEF Gathered, SameAsk
  <2> QED BY <1>1, <2>3 DEF GatheredOK, SameAsk
<1> QED BY <1>2, <1>3

\* Initially nothing is kept, and no session gathers.
LEMMA InitKept == Init => KInv
<1> SUFFICES ASSUME Init  PROVE KInv
  OBVIOUS
<1>1. PInv
  BY InitPuts
<1>2. kept \subseteq Sound /\ \A s \in Sessions : ErasedOK(s) /\ GatheredOK(s)
  BY DEF Init, ErasedOK, GatheredOK, PutSteps, EraseSteps
<1> QED BY <1>1, <1>2 DEF KInv

\* A session that begins is to gather what it was asked for, or the store has it.
LEMMA BeginKept ==
  ASSUME KInv, NEW s \in Sessions, NEW want \in SUBSET Data, Sound \subseteq Sound',
         \/ BeginRecord(s, want)
         \/ \E remote \in Encodings : BeginReceive(s, want, remote)
  PROVE  GatheredOK(s)'
<1> USE DEF storeVars, lockVars, txVars, askVars, history
<1>1. CASE BeginRecord(s, want)
  <2>1. pc'[s] = "open" /\ task'[s] = "record" /\ todo'[s] = want /\ asked'[s] = want
    BY <1>1 DEF BeginRecord, KInv, PInv, Typed, TypeOK
  <2>2. Gathered(s, want)'
    BY <2>1 DEF Gathered
  <2> QED BY <2>1, <2>2 DEF GatheredOK
<1>2. ASSUME NEW remote \in Encodings, BeginReceive(s, want, remote)  PROVE GatheredOK(s)'
  <2>1. PICK missing : missing = {d \in want : ~HasDataDirect(d)}
    OBVIOUS
  <2>2. /\ pc'[s] = "open" /\ task'[s] = "receive" /\ asked'[s] = want
        /\ todo'[s] = missing /\ requested'[s] = missing
    BY <1>2, <2>1 DEF BeginReceive, KInv, PInv, Typed, TypeOK
  <2>3. want \subseteq missing \cup Sound'
    BY <2>1, SoundFacts DEF KInv, PInv, Typed
  <2>4. Gathered(s, missing)'
    BY <2>2, <2>3 DEF Gathered
  <2> QED BY <2>1, <2>2, <2>4 DEF GatheredOK
<1> QED BY <1>1, <1>2

\* Data to be recorded is in the store, or becomes an item on a base that is.
LEMMA RecordKept ==
  ASSUME KInv, NEW s \in Sessions, NEW d \in Data, Sound \subseteq Sound',
         \/ SkipRecord(s, d)
         \/ \E prior \in Data : \E place \in Places[d] : RecordData(s, d, prior, place)
  PROVE  GatheredOK(s)'
<1> USE DEF storeVars, lockVars, txVars, askVars, history
<1>1. /\ pc[s] = "open" /\ task[s] = "record"
      /\ todo'[s] = todo[s] \ {d} /\ pending[s] \subseteq pending'[s]
      /\ UNCHANGED <<rows, pc, newRows, task, asked, encoding, bases>>
  BY DEF SkipRecord, RecordData, KInv, PInv, Typed, TypeOK
<1>2. TypeOK /\ GatheredOK(s)
  BY DEF KInv, PInv, Typed
<1>3. PICK got \in SUBSET Data : Gathered(s, got)
  BY <1>1, <1>2 DEF GatheredOK
<1>4. Held(s, got, d)'
  <2>1. CASE SkipRecord(s, d)
    BY <1>2, <2>1, SoundFacts DEF SkipRecord, Held
  <2>2. ASSUME NEW prior \in Data, NEW place \in Places[d], RecordData(s, d, prior, place)
        PROVE  Held(s, got, d)'
    <3>1. PICK base \in DeltaBases(prior) \cup {None} :
            pending' = [pending EXCEPT ![s] = @ \cup {[data |-> d, base |-> base, place |-> place]}]
      BY <2>2 DEF RecordData
    <3>2. PICK i : i = [data |-> d, base |-> base, place |-> place]
      OBVIOUS
    <3>3. i \in pending'[s] /\ i.data = d /\ i.base = base
      BY <1>2, <3>1, <3>2 DEF TypeOK
    <3>4. base \in Sound
      <4>1. None \in Sound
        BY <1>2, SoundFacts DEF Ends
      <4> QED BY <1>2, <4>1, SoundFacts DEF DeltaBases
    <3> QED BY <3>3, <3>4 DEF Held
  <2> QED BY <2>1, <2>2
<1>5. \A g : Held(s, got, g) => Held(s, got, g)'
  BY <1>1 DEF Held
<1>6. Gathered(s, got)'
  BY <1>1, <1>3, <1>4, <1>5 DEF Gathered
<1> QED BY <1>1, <1>6 DEF GatheredOK

\* An item that is received is on a base that is looked up afterwards.
LEMMA ReceiveKept ==
  ASSUME KInv, NEW s \in Sessions, NEW d \in Data, Sound \subseteq Sound',
         NEW place \in Places[d], Receive(s, d, place)
  PROVE  GatheredOK(s)'
<1> USE DEF storeVars, lockVars, txVars, askVars, history
<1>1. PICK base, i : base = encoding[s][d] /\ i = [data |-> d, base |-> base, place |-> place]
  OBVIOUS
<1>2. /\ pc[s] = "open" /\ task[s] = "receive"
      /\ todo'[s] = todo[s] \ {d} /\ pending'[s] = pending[s] \cup {i}
      /\ bases'[s] = bases[s] \cup ({base} \ {None})
      /\ UNCHANGED <<rows, pc, newRows, task, asked, requested, encoding>>
  BY <1>1 DEF Receive, KInv, PInv, Typed, TypeOK
<1>3. TypeOK /\ GatheredOK(s)
  BY DEF KInv, PInv, Typed
<1>4. PICK got \in SUBSET Data : Gathered(s, got)
  BY <1>2, <1>3 DEF GatheredOK
<1>5. i.data = d /\ i.base = base
  BY <1>1
<1>6. Held(s, got, d)'
  <2>1. None \in Sound'
    BY <1>3, SoundFacts DEF Ends
  <2> QED BY <1>1, <1>2, <1>5, <2>1 DEF Held
<1>7. \A g : Held(s, got, g) => Held(s, got, g)'
  BY <1>2 DEF Held
<1>8. Gathered(s, got)'
  BY <1>2, <1>4, <1>6, <1>7 DEF Gathered
<1> QED BY <1>2, <1>8 DEF GatheredOK

\* The bases that are missing are gathered in turn, and the others are sound.
LEMMA RequestKept ==
  ASSUME KInv, NEW s \in Sessions, Sound \subseteq Sound', RequestBases(s)
  PROVE  GatheredOK(s)'
<1> USE DEF storeVars, lockVars, txVars, askVars, history
<1>1. PICK missing : missing = MissingBases(s)
  OBVIOUS
<1>2. /\ pc[s] = "ended" /\ pc'[s] = "open"
      /\ todo'[s] = missing /\ requested'[s] = missing /\ bases'[s] = {}
      /\ UNCHANGED <<rows, pending, newRows, task, asked, encoding>>
  BY <1>1 DEF RequestBases, KInv, PInv, Typed, TypeOK
<1>3. TypeOK /\ GatheredOK(s)
  BY DEF KInv, PInv, Typed
<1>4. PICK got \in SUBSET Data : Gathered(s, got)
  BY <1>2, <1>3 DEF GatheredOK
<1>5. todo[s] = {} /\ missing \subseteq Data
  BY <1>1, <1>2, <1>3 DEF GatheredOK, MissingBases, TypeOK
<1>6. task[s] = "receive" => bases[s] \subseteq got \cup missing \cup Sound
  BY <1>1, <1>3, <1>4, SoundFacts DEF MissingBases, Gathered
<1>7. ASSUME NEW g \in got  PROVE Held(s, got \cup missing, g)'
  <2>1. Held(s, got, g)
    BY <1>4, <1>5 DEF Gathered
  <2> QED BY <1>2, <1>6, <2>1 DEF Held
<1>8. Gathered(s, got \cup missing)'
  BY <1>2, <1>4, <1>7 DEF Gathered
<1>9. got \cup missing \in SUBSET Data
  BY <1>5
<1> QED BY <1>2, <1>3, <1>8, <1>9 DEF GatheredOK

\* The item has a row: its own, or one with the same base, or it was dropped.
LEMMA InsertKept ==
  ASSUME KInv, NEW s \in Sessions, NEW i \in pending[s], Sound \subseteq Sound', TypeOK',
         InsertRow(s, i)
  PROVE  GatheredOK(s)'
<1> USE DEF storeVars, lockVars, txVars, askVars, history
<1>1. /\ pc[s] = "rows" /\ pc'[s] \in {"rows", "payload"}
      /\ pending'[s] = pending[s] \ {i} /\ newRows[s] \subseteq newRows'[s]
      /\ UNCHANGED <<rows, task, todo, asked, requested, bases, encoding>>
      /\ \/ i \in newRows'[s]
         \/ i.data \in dropped'
         \/ \E r \in rows \cup newRows[s] : r.data = i.data /\ r.base = i.base
  BY DEF InsertRow, RowsOf, KInv, PInv, Typed, TypeOK
<1>2. TypeOK /\ GatheredOK(s)
  BY DEF KInv, PInv, Typed
<1>3. PICK got \in SUBSET Data : Gathered(s, got)
  BY <1>1, <1>2 DEF GatheredOK, PutSteps
<1>4. dropped' \subseteq Sound'
  <2> DEFINE R == rows'
             E == Ends'
  <2>1. E \subseteq Data \cup {None} /\ dropped' \subseteq E
    BY DEF Ends, TypeOK
  <2> HIDE DEF R, E
  <2>2. E \subseteq Grounded(R, E)
    BY <2>1, GroundedEnds
  <2> QED BY <2>1, <2>2 DEF R, E, Sound
<1>5. \A g : Held(s, got, g) => Held(s, got, g)'
  BY <1>1, <1>4 DEF Held
<1>6. Gathered(s, got)'
  BY <1>1, <1>3, <1>5 DEF Gathered
<1> QED BY <1>1, <1>2, <1>6 DEF GatheredOK, PutSteps

\* The other steps of CompleteTransaction; its end makes the new rows rows.
LEMMA CompleteKept ==
  ASSUME KInv, NEW s \in Sessions, Sound \subseteq Sound',
         \/ BeginComplete(s) \/ PutBlob(s) \/ MoveFile(s) \/ WriteFile(s) \/ FinishFile(s)
         \/ CommitBlobs(s) \/ CommitRows(s)
  PROVE  GatheredOK(s)'
<1> USE DEF storeVars, lockVars, txVars, askVars, history
<1>1. /\ pc[s] \in PutSteps \cup {"open"}
      /\ pc'[s] \in PutSteps \cup {"open", "ended"}
      /\ newRows[s] \cup rows \subseteq newRows'[s] \cup rows'
      /\ UNCHANGED <<pending, task, todo, asked, requested, bases, encoding>>
      /\ pc'[s] = "commit" => pending[s] = {}
      /\ pc'[s] = "ended" => pc[s] = "commit" /\ todo[s] = {}
  <2>1. CASE BeginComplete(s) \/ PutBlob(s) \/ MoveFile(s) \/ FinishFile(s) \/ CommitBlobs(s)
    BY <2>1 DEF BeginComplete, PutBlob, MoveFile, FinishFile, CommitBlobs, PutSteps,
                KInv, PInv, Typed, TypeOK
  <2>2. CASE WriteFile(s)
    BY <2>2 DEF WriteFile, PutSteps, KInv, PInv, Typed, TypeOK
  <2>3. CASE CommitRows(s)
    BY <2>3 DEF CommitRows, PutSteps, KInv, PInv, Typed, TypeOK
  <2> QED BY <2>1, <2>2, <2>3
<1>2. GatheredOK(s)
  BY DEF KInv
<1>3. PICK got \in SUBSET Data : Gathered(s, got)
  BY <1>1, <1>2 DEF GatheredOK
<1>4. \A g : Held(s, got, g) => Held(s, got, g)'
  BY <1>1 DEF Held
<1>5. Gathered(s, got)'
  BY <1>1, <1>3, <1>4 DEF Gathered
<1> QED BY <1>1, <1>2, <1>5 DEF GatheredOK

\* When no base is missing, all that was gathered is sound: the remote's encoding
\* leads from it to what is.
LEMMA FinishSound ==
  ASSUME KInv, NEW s \in Sessions, Finish(s)
  PROVE  asked[s] \subseteq Sound
<1>1. /\ pc[s] = "ended" /\ MissingBases(s) = {} /\ TypeOK
      /\ todo[s] = {} /\ pending[s] = {} /\ newRows[s] = {}
      /\ task[s] = "receive" => encoding[s] \in Encodings
  BY DEF Finish, KInv, PInv, Puts, Typed, TypeOK, GatheredOK, TaskOK, PutSteps, EraseSteps
<1>2. PICK got \in SUBSET Data : Gathered(s, got)
  BY <1>1 DEF KInv, GatheredOK
<1>3. ASSUME NEW g \in got
      PROVE  \/ g \in Sound
             \/ task[s] = "receive" /\ encoding[s][g] \in got \cup Sound
                /\ \E r \in rows : r.data = g /\ r.base = encoding[s][g]
  <2>1. Held(s, got, g)
    BY <1>1, <1>2 DEF Gathered
  <2>2. task[s] = "receive" => bases[s] \subseteq got \cup Sound
    BY <1>1, <1>2, SoundFacts DEF MissingBases, Gathered
  <2> QED BY <1>1, <2>1, <2>2, SoundFacts DEF Held
<1>4. got \subseteq Sound
  <2>1. CASE task[s] # "receive"
    BY <1>3, <2>1
  <2>2. CASE task[s] = "receive"
    <3>1. PICK e \in Encodings : e = encoding[s]
      BY <1>1, <2>2
    <3> DEFINE T == {x \in Data \cup {None} : x \in got => x \in Sound}
    <3>2. {None} \subseteq T /\ T \in SUBSET (Data \cup {None})
      BY DataAssumption
    <3>3. \A d \in Data : e[d] \in T => d \in T
      <4> SUFFICES ASSUME NEW d \in Data, e[d] \in T, d \in got  PROVE d \in Sound
        OBVIOUS
      <4>1. e[d] \in got \cup Sound => e[d] \in Sound
        OBVIOUS
      <4> QED BY <1>1, <1>3, <3>1, <4>1, SoundFacts
    <3> HIDE DEF T
    <3>4. \A i \in Sent(e) : i.base \in T => i.data \in T
      BY <3>3 DEF Sent
    <3>5. Grounded(Sent(e), {None}) \subseteq T
      BY <3>2, <3>4, GroundedLeast
    <3>6. \A d \in Data : d \in T
      BY <3>5, DataAssumption
    <3> QED BY <3>6 DEF T
  <2> QED BY <2>1, <2>2
<1> QED BY <1>2, <1>4 DEF Gathered

\* A session that erases takes up only data that it was told to.
LEMMA ErasingKept ==
  ASSUME KInv, NEW s \in Sessions, TypeOK',
         \/ \E which \in SUBSET Data : BeginErase(s, which)
         \/ \E d \in Data : FindRow(s, d)
         \/ ErasePayload(s) \/ EraseRow(s) \/ CommitErasedBlobs(s)
  PROVE  ErasedOK(s)' /\ GatheredOK(s)'
<1> USE DEF storeVars, lockVars, txVars, askVars, history
<1>1. /\ ErasedOK(s) /\ TypeOK /\ TaskOK(s)
      /\ pc[s] = "eraseRow" => item[s] \in Items
  BY DEF KInv, PInv, Puts, Typed, TypeOK, AtItem
<1>2. ASSUME NEW which \in SUBSET Data, BeginErase(s, which)
      PROVE  ErasedOK(s)' /\ GatheredOK(s)'
  <2>1. /\ pc[s] = "idle" /\ pc'[s] = "erase" /\ todo'[s] = which
        /\ erased' = erased \cup which /\ newRows'[s] = newRows[s]
    BY <1>1, <1>2 DEF BeginErase, TypeOK
  <2>2. newRows[s] = {}
    BY <1>1, <2>1 DEF TaskOK, PutSteps, EraseSteps
  <2> QED BY <2>1, <2>2 DEF ErasedOK, GatheredOK, PutSteps
<1>3. ASSUME NEW d \in Data, FindRow(s, d)
      PROVE  ErasedOK(s)' /\ GatheredOK(s)'
  <2>1. /\ pc[s] = "erase" /\ pc'[s] \in {"erase", "erasePayload"} /\ d \in todo[s]
        /\ todo'[s] \subseteq todo[s] /\ newRows'[s] = newRows[s] /\ erased' = erased
        /\ pc'[s] = "erasePayload" => item'[s].data = d
    BY <1>1, <1>3 DEF FindRow, TypeOK
  <2> QED BY <1>1, <2>1 DEF ErasedOK, GatheredOK, PutSteps, EraseSteps
<1>4. CASE ErasePayload(s) \/ CommitErasedBlobs(s)
  <2>1. /\ pc[s] \in {"erasePayload", "erase"} /\ pc'[s] \in {"eraseRow", "erased"}
        /\ pc'[s] = "eraseRow" => pc[s] = "erasePayload"
        /\ UNCHANGED <<todo, newRows, item, erased>>
    BY <1>1, <1>4 DEF ErasePayload, CommitErasedBlobs, TypeOK
  <2> QED BY <1>1, <2>1 DEF ErasedOK, GatheredOK, PutSteps, EraseSteps
<1>5. CASE EraseRow(s)
  <2>1. /\ pc[s] = "eraseRow" /\ pc'[s] = "erase" /\ newRows'[s] = newRows[s] \cup {item[s]}
        /\ UNCHANGED <<todo, erased>>
    BY <1>1, <1>5 DEF EraseRow, TypeOK
  <2> QED BY <1>1, <2>1 DEF ErasedOK, GatheredOK, PutSteps, EraseSteps
<1> QED BY <1>2, <1>3, <1>4, <1>5

\* Rows go only of data that was erased, and what is excused stays so.
LEMMA RowsKept ==
  ASSUME KInv, Next
  PROVE  /\ Ends \subseteq Ends'
         /\ \A r \in rows : r \in rows' \/ r.data \in Ends'
         /\ erased \subseteq erased'
<1> USE DEF storeVars, lockVars, txVars, askVars, history
<1>1. /\ dropped \subseteq dropped' /\ erased \subseteq erased' /\ left \subseteq left'
  BY DEF Next, Begin, Gather, Put, Complete, Erase, BeginRecord, BeginReceive, BeginErase,
         SkipRecord, ReceiveThrows, RecordData, Receive, BeginComplete, RequestBases, Finish,
         InsertRow, PutBlob, MoveFile, WriteFile, FinishFile, CommitBlobs, CommitRows, FindRow,
         ErasePayload, EraseRow, EraseThrows, CommitErasedBlobs, CommitErasedRows, Fail
<1>2. rows \subseteq rows' \/ \E s \in Sessions : CommitErasedRows(s)
  BY DEF Next, Begin, Gather, Put, Complete, Erase, BeginRecord, BeginReceive, BeginErase,
         SkipRecord, ReceiveThrows, RecordData, Receive, BeginComplete, RequestBases, Finish,
         InsertRow, PutBlob, MoveFile, WriteFile, FinishFile, CommitBlobs, CommitRows, FindRow,
         ErasePayload, EraseRow, EraseThrows, CommitErasedBlobs, Fail
<1>3. \A s \in Sessions : CommitErasedRows(s) => \A r \in rows : r \in rows' \/ r.data \in erased
  BY DEF CommitErasedRows, KInv, ErasedOK, EraseSteps
<1> QED BY <1>1, <1>2, <1>3 DEF Ends

\* Every step keeps what is kept sound: sessions that gather hold it, those that erase excuse it.
LEMMA StepKept == KInv /\ [Next]_vars => KInv'
<1> SUFFICES ASSUME KInv, [Next]_vars  PROVE KInv'
  OBVIOUS
<1> USE DEF storeVars, lockVars, txVars, askVars, history
<1>0. PInv' /\ TypeOK' /\ TypeOK
  BY StepPuts DEF KInv, PInv, Typed
<1>1. CASE UNCHANGED vars
  <2>1. /\ UNCHANGED <<rows, dropped, erased, left, kept>>
        /\ UNCHANGED <<pc, task, item, pending, newRows, todo, asked, requested, bases, encoding>>
    BY <1>1 DEF vars
  <2>2. Sound' = Sound
    BY <2>1 DEF Sound, Grounded, Ends
  <2>3. \A t \in Sessions : ErasedOK(t)' /\ GatheredOK(t)'
    BY <2>1, <2>2, OthersKept DEF SameAsk
  <2> QED BY <1>0, <2>1, <2>2, <2>3 DEF KInv
<1>2. CASE Next
  <2>1. /\ Sound \subseteq Sound' /\ Ends' \subseteq Sound'
        /\ erased \subseteq erased' /\ \A r \in rows : r \in rows' \/ r.data \in Sound'
    <3>1. Sound \subseteq Sound'
      BY <1>0, <1>2, RowsKept, SoundGrows
    <3>2. Ends' \subseteq Sound'
      <4> DEFINE E == Ends'
                 R == rows'
      <4>1. E \subseteq Data \cup {None}
        BY <1>0 DEF Ends, TypeOK
      <4> HIDE DEF E, R
      <4>2. E \subseteq Grounded(R, E)
        BY <4>1, GroundedEnds
      <4> QED BY <4>2 DEF E, R, Sound
    <3> QED BY <1>2, <3>1, <3>2, RowsKept
  <2>2. PICK s \in Sessions :
          Begin(s) \/ Gather(s) \/ Put(s) \/ Complete(s) \/ Erase(s) \/ Fail(s)
    BY <1>2 DEF Next
  <2>3. \A t \in Sessions \ {s} : SameAsk(t)
    BY <1>0, <2>2
       DEF Begin, Gather, Put, Complete, Erase, BeginRecord, BeginReceive, BeginErase,
           SkipRecord, ReceiveThrows, RecordData, Receive, BeginComplete, RequestBases, Finish,
           InsertRow, PutBlob, MoveFile, WriteFile, FinishFile, CommitBlobs, CommitRows, FindRow,
           ErasePayload, EraseRow, EraseThrows, CommitErasedBlobs, CommitErasedRows, Fail,
           EndSession, Close, SameAsk, TypeOK
  <2>4. \A t \in Sessions \ {s} : ErasedOK(t)' /\ GatheredOK(t)'
    BY <2>1, <2>3, OthersKept
  <2>5. ASSUME pc'[s] = "idle"  PROVE ErasedOK(s)' /\ GatheredOK(s)'
    BY <2>5 DEF ErasedOK, GatheredOK, PutSteps, EraseSteps
  <2>6. ErasedOK(s)' /\ GatheredOK(s)'
    <3>1. ASSUME pc'[s] \in PutSteps \cup {"open", "ended"}, GatheredOK(s)'
          PROVE  ErasedOK(s)' /\ GatheredOK(s)'
      BY <3>1 DEF ErasedOK, PutSteps, EraseSteps
    <3>2. CASE Begin(s)
      <4>1. ASSUME NEW want \in SUBSET Data,
                   \/ BeginRecord(s, want)
                   \/ \E remote \in Encodings : BeginReceive(s, want, remote)
            PROVE  ErasedOK(s)' /\ GatheredOK(s)'
        <5>1. pc'[s] = "open"
          BY <1>0, <4>1 DEF BeginRecord, BeginReceive, TypeOK
        <5> QED BY <2>1, <3>1, <4>1, <5>1, BeginKept
      <4> QED BY <1>0, <3>2, <4>1, ErasingKept DEF Begin
    <3>3. CASE Gather(s)
      <4>1. ASSUME NEW d \in Data,
                   \/ SkipRecord(s, d)
                   \/ \E prior \in Data : \E place \in Places[d] : RecordData(s, d, prior, place)
            PROVE  ErasedOK(s)' /\ GatheredOK(s)'
        <5>1. pc'[s] = "open"
          BY <1>0, <4>1 DEF SkipRecord, RecordData
        <5> QED BY <2>1, <3>1, <4>1, <5>1, RecordKept
      <4>2. ASSUME NEW d \in Data, NEW place \in Places[d], Receive(s, d, place)
            PROVE  ErasedOK(s)' /\ GatheredOK(s)'
        <5>1. pc'[s] = "open"
          BY <1>0, <4>2 DEF Receive
        <5> QED BY <2>1, <3>1, <4>2, <5>1, ReceiveKept
      <4>3. CASE BeginComplete(s)
        <5>1. pc'[s] = "rows"
          BY <1>0, <4>3 DEF BeginComplete, TypeOK
        <5> QED BY <2>1, <3>1, <4>3, <5>1, CompleteKept DEF PutSteps
      <4>4. CASE RequestBases(s)
        <5>1. pc'[s] = "open"
          BY <1>0, <4>4 DEF RequestBases, TypeOK
        <5> QED BY <2>1, <3>1, <4>4, <5>1, RequestKept
      <4>5. CASE (\E d \in Data : ReceiveThrows(s, d)) \/ Finish(s)
        <5>1. pc'[s] = "idle"
          BY <1>0, <4>5 DEF ReceiveThrows, Finish, EndSession, Close, TypeOK
        <5> QED BY <2>5, <5>1
      <4>6. CASE \E d \in Data : SkipRecord(s, d) \/ ReceiveThrows(s, d)
        BY <4>1, <4>5, <4>6
      <4>7. CASE \E d \in Data, prior \in Data :
                   \E place \in Places[d] : RecordData(s, d, prior, place)
        BY <4>1, <4>7
      <4> QED BY <3>3, <4>2, <4>3, <4>4, <4>5, <4>6, <4>7 DEF Gather
    <3>4. CASE Put(s)
      <4>1. PICK i \in pending[s] : InsertRow(s, i)
        BY <3>4 DEF Put
      <4>2. pc'[s] \in {"rows", "payload"}
        BY <1>0, <4>1 DEF InsertRow, TypeOK
      <4> QED BY <1>0, <2>1, <3>1, <4>1, <4>2, InsertKept DEF PutSteps
    <3>5. CASE Complete(s)
      <4>1. pc'[s] \in PutSteps \cup {"open", "ended"}
        BY <1>0, <3>5 DEF Complete, PutBlob, MoveFile, WriteFile, FinishFile, CommitBlobs,
                          CommitRows, PutSteps, TypeOK
      <4> QED BY <2>1, <3>1, <3>5, <4>1, CompleteKept DEF Complete
    <3>6. CASE EraseThrows(s) \/ CommitErasedRows(s) \/ Fail(s)
      <4>1. pc'[s] = "idle"
        BY <1>0, <3>6 DEF EraseThrows, CommitErasedRows, Fail, EndSession, Close, TypeOK
      <4> QED BY <2>5, <4>1
    <3>7. CASE Erase(s)
      BY <1>0, <3>6, <3>7, ErasingKept DEF Erase
    <3> QED BY <2>2, <3>2, <3>3, <3>4, <3>5, <3>6, <3>7
  <2>7. kept' \subseteq Sound'
    <3>1. CASE Finish(s)
      BY <2>1, <3>1, FinishSound DEF Finish, KInv
    <3>2. CASE kept' \subseteq kept
      BY <2>1, <3>2 DEF KInv
    <3>3. kept' \subseteq kept \/ Finish(s)
      BY <2>2
         DEF Begin, Gather, Put, Complete, Erase, BeginRecord, BeginReceive, BeginErase,
             SkipRecord, ReceiveThrows, RecordData, Receive, BeginComplete, RequestBases,
             InsertRow, PutBlob, MoveFile, WriteFile, FinishFile, CommitBlobs, CommitRows, FindRow,
             ErasePayload, EraseRow, EraseThrows, CommitErasedBlobs, CommitErasedRows, Fail
    <3> QED BY <3>1, <3>2, <3>3
  <2> QED BY <1>0, <2>4, <2>6, <2>7 DEF KInv
<1> QED BY <1>1, <1>2

\* What was recorded or delivered can be read, beside any other sessions and from any
\* remotes, whatever fails and whatever else is pruned: until it is erased itself, and
\* but for what is, or is a delta on, data that was erased, or was dropped for a row
\* with another base, or whose file a failed session left behind.
THEOREM KeptReadable == Spec => []KeptIsReadable
<1>1. Init => KInv
  BY InitKept
<1>2. KInv /\ [Next]_vars => KInv'
  BY StepKept
<1>3. KInv => KeptIsReadable
  <2> SUFFICES ASSUME KInv  PROVE Sound \subseteq Grounded(Payloads, Ends)
    BY DEF KInv, KeptIsReadable, Ends
  <2>1. Ends \subseteq Data \cup {None} /\ \A r \in rows : r.data \in Data
    BY DEF KInv, PInv, Typed, TypeOK, Ends, Items
  <2>2. Ends \subseteq Grounded(Payloads, Ends)
    BY <2>1, GroundedEnds
  <2>4. \A p \in Payloads : p.data \in Data /\ p.base \in Grounded(Payloads, Ends) =>
                             p.data \in Grounded(Payloads, Ends)
    BY GroundedStep
  <2>3. ASSUME NEW r \in rows, r.base \in Grounded(Payloads, Ends)
        PROVE  r.data \in Grounded(Payloads, Ends)
    <3>1. CASE Gone(r.data)
      <4>1. \A s \in Sessions : task[s] = "erase" => Handled(s) \subseteq erased
        <5> SUFFICES ASSUME NEW s \in Sessions, task[s] = "erase"
                     PROVE  \A i \in InHand(s) : i.data \in erased
          BY DEF Handled
        <5>1. ErasedOK(s) /\ pc[s] \in EraseSteps
          BY DEF KInv, PInv, Puts, TaskOK
        <5> QED BY <5>1 DEF ErasedOK, InHand
      <4>2. r.data \in Ends
        BY <3>1, <4>1 DEF Gone, Ends
      <4> QED BY <2>2, <4>2
    <3>2. CASE ~Gone(r.data)
      <4>1. IF r.place = "blob" THEN r.data \in blobs ELSE FileOf(r)
        BY <3>2 DEF KInv, PInv, Puts, RowsWhole
      <4>2. r \in Items
        BY DEF KInv, PInv, Typed, TypeOK
      <4>3. HasPayload(r) /\ PayloadOf(r).data = r.data /\ PayloadOf(r).base = r.base
        BY <4>1, <4>2 DEF HasPayload, PayloadOf, FileOf, File, Items
      <4>4. PICK p \in Payloads : p.data = r.data /\ p.base = r.base
        BY <4>3 DEF Payloads
      <4> QED BY <2>1, <2>4, <2>3, <4>4
    <3> QED BY <3>1, <3>2
  <2> QED BY <2>2, <2>3, GroundedKeeps DEF Sound
<1> QED BY <1>1, <1>2, <1>3, PTL DEF Spec
=============================================================================
