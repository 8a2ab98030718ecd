------------------------------ MODULE ObjectStore ------------------------------
(***************************************************************************)
(* StandardObjectStore keeps the data of file versions, each under an      *)
(* identifier made of its hash and size.  A row of the object database     *)
(* says that data is there, whether it is flat or a delta on the data of   *)
(* another row, and whether its payload is a blob, in a second database,   *)
(* or a loose file.  The three stores commit separately:                   *)
(*                                                                         *)
(*  - a storage transaction collects items in memory and temporary files;  *)
(*    CompleteTransaction then inserts the row of each and puts its        *)
(*    payload in place, commits the blobs, and commits the rows;           *)
(*  - EraseData (prune) removes payloads, then rows.                       *)
(*                                                                         *)
(* A session is a process, or a connection of the server, with an Area and *)
(* so with database connections of its own.  It records the files of a     *)
(* commit, receives data from a remote, or prunes.  Both databases are     *)
(* SQLite files: one writer at a time, and a busy insert is retried for    *)
(* ever (InsertSafe) while a busy delete of EraseData is an exception.     *)
(***************************************************************************)
EXTENDS Naturals, FiniteSets

CONSTANTS Sessions,
          Data,        \* data identifiers (bound)
          None,
          Recordable,  \* the data that commits in this workspace record
          Receivable,  \* the data that is requested from remotes
          Erasable,    \* the data prune may erase, of old versions
          Encodings,   \* the stores of the remotes: [Data -> Data \cup {None}],
                       \* what each datum is a delta on there (None: flat)
          Places,      \* where the payload of each datum may go, by its size: "blob",
                       \* "moved" (a temporary file renamed), "written" (a loose
                       \* file written in place)
          Fragile      \* whether sessions can fail or crash

\* What a storage transaction holds of one datum; its row, once committed.
Items ==
  {i \in [data : Data, base : Data \cup {None}, place : {"blob", "moved", "written"}] :
     i.base # i.data}

\* The rows that a transaction sees, while it can still write (fresh) and after.
Snapshots == [rows : SUBSET Items, fresh : BOOLEAN]

\* The data from which the bases of the given items lead to one of the ends: the
\* least set with the ends in it, and with the data of each item whose base is.
Grounded(items, ends) ==
  {d \in Data \cup {None} :
     \A T \in SUBSET (Data \cup {None}) :
       (ends \subseteq T /\ \A i \in items : i.base \in T => i.data \in T) => d \in T}

\* A remote sends what it can read.
Sent(e) == {[data |-> d, base |-> e[d]] : d \in Data}

ASSUME DataAssumption ==
  /\ IsFiniteSet(Data)
  /\ None \notin Data \cup Sessions \cup Encodings \cup Items /\ None \notin Snapshots
  /\ Recordable \cup Receivable \cup Erasable \subseteq Data
  /\ Encodings \subseteq [Data -> Data \cup {None}]
  /\ \A e \in Encodings, d \in Data : e[d] # d /\ d \in Grounded(Sent(e), {None})
  /\ Places \in [Data -> SUBSET {"blob", "moved", "written"}]
  /\ Fragile \in BOOLEAN

VARIABLES
  \* the store: what is committed
  rows,        \* FileObjectStoreData, as a set of items
  blobs,       \* the data whose blob is committed
  files,       \* files[d]: its loose file, with what its contents is a delta on
  rowWriter, blobWriter,   \* who holds the write lock of either database
  \* the sessions
  pc,          \* where a session stands
  task,        \* "none", "record", "receive" or "erase"
  pending,     \* PendingTransactions
  newRows,     \* rows inserted, or deleted, and not committed
  newBlobs,    \* blobs inserted, or deleted, and not committed
  item,        \* the item whose payload comes next, or None
  snap,        \* of an erasing session, its snapshot of the rows, or None
  todo,        \* the data still to be recorded, received or erased
  asked,       \* all the data the session is for
  requested,   \* recordDataIdentifiers of the request that is running
  bases,       \* dependentData: the bases of what it received
  encoding,    \* the remote it receives from, or None
  \* history variables
  kept,        \* the data that a session was told the store has
  left,        \* the data whose payload a session had at hand when it failed
  dropped,     \* the data of items dropped for a row with another base
  erased       \* the data that prune was told to erase

storeVars == <<rows, blobs, files>>
lockVars == <<rowWriter, blobWriter>>
txVars == <<pending, newRows, newBlobs, item, snap>>
askVars == <<task, todo, asked, requested, bases, encoding>>
history == <<kept, left, dropped, erased>>
vars == <<storeVars, lockVars, pc, txVars, askVars, history>>

\* A loose file: nothing of it, a part, or all of what was encoded on base.
File(state, base) == [state |-> state, base |-> base]
NoFile == File("none", None)

Init ==
  /\ rows = {}
  /\ blobs = {}
  /\ files = [d \in Data |-> NoFile]
  /\ rowWriter = None /\ blobWriter = None
  /\ pc = [s \in Sessions |-> "idle"]
  /\ task = [s \in Sessions |-> "none"]
  /\ pending = [s \in Sessions |-> {}]
  /\ newRows = [s \in Sessions |-> {}]
  /\ newBlobs = [s \in Sessions |-> {}]
  /\ item = [s \in Sessions |-> None]
  /\ snap = [s \in Sessions |-> None]
  /\ todo = [s \in Sessions |-> {}]
  /\ asked = [s \in Sessions |-> {}]
  /\ requested = [s \in Sessions |-> {}]
  /\ bases = [s \in Sessions |-> {}]
  /\ encoding = [s \in Sessions |-> None]
  /\ kept = {} /\ left = {} /\ dropped = {} /\ erased = {}

Goto(s, place) == pc' = [pc EXCEPT ![s] = place]

----------------------------------------------------------------------------
(* What the store answers *)

\* HasDataDirect follows the rows and does not look at payloads.  (On a cycle of
\* rows it would not return.)
HasDataDirect(d) == d \in Grounded(rows, {None})

\* A flat row wants the header of flat contents, and one with a base that of a
\* delta, whatever base it names.
HasPayload(r) ==
  IF r.place = "blob"
    THEN r.data \in blobs
    ELSE files[r.data].state = "whole" /\ (files[r.data].base = None <=> r.base = None)

\* What is read for a row, and the base that its payload names.
PayloadOf(r) == IF r.place = "blob" THEN r ELSE [r EXCEPT !.base = files[r.data].base]
Payloads == {PayloadOf(r) : r \in {x \in rows : HasPayload(x)}}

----------------------------------------------------------------------------
(* Recording the files of a commit *)

BeginRecord(s, want) ==
  /\ pc[s] = "idle"
  /\ want # {} /\ want \subseteq Recordable
  /\ task' = [task EXCEPT ![s] = "record"]
  /\ todo' = [todo EXCEPT ![s] = want]
  /\ asked' = [asked EXCEPT ![s] = want]
  /\ Goto(s, "open")
  /\ UNCHANGED <<storeVars, lockVars, txVars, requested, bases, encoding, history>>

\* Data the store has is not recorded again.
SkipRecord(s, d) ==
  /\ pc[s] = "open" /\ task[s] = "record"
  /\ d \in todo[s]
  /\ HasDataDirect(d)
  /\ todo' = [todo EXCEPT ![s] = @ \ {d}]
  /\ UNCHANGED <<storeVars, lockVars, pc, txVars, task, asked, requested, bases,
                 encoding, history>>

\* Faulty variant of DeltaBases: the base of a prior delta is taken without a
\* look at its row.
DeltaBases_Unchecked(prior) ==
  {IF r.base = None THEN r.data ELSE r.base : r \in {x \in rows : x.data = prior}}

\* The data a delta may be computed on: the prior data when it is flat, or the
\* flat data it is itself a delta on.
DeltaBases(prior) ==
  {r.data : r \in {x \in rows : x.base = None /\
      (x.data = prior \/ \E y \in rows : y.data = prior /\ y.base = x.data)}}

\* CreateDataStreamInternal: a delta, if there is a base and it is half the
\* size or less, or the data itself.
RecordData(s, d, prior, place) ==
  /\ pc[s] = "open" /\ task[s] = "record"
  /\ d \in todo[s]
  /\ ~HasDataDirect(d)
  /\ place \in Places[d] \ {"written"}
  /\ \E base \in DeltaBases(prior) \cup {None} :
       pending' = [pending EXCEPT ![s] = @ \cup {[data |-> d, base |-> base, place |-> place]}]
  /\ todo' = [todo EXCEPT ![s] = @ \ {d}]
  /\ UNCHANGED <<storeVars, lockVars, pc, newRows, newBlobs, item, snap, task, asked,
                 requested, bases, encoding, history>>

----------------------------------------------------------------------------
(* Receiving data from a remote *)

\* RequestRecordData asks for what the store does not have.
BeginReceive(s, want, remote) ==
  /\ pc[s] = "idle"
  /\ want # {} /\ want \subseteq Receivable
  /\ LET missing == {d \in want : ~HasDataDirect(d)} IN
       /\ todo' = [todo EXCEPT ![s] = missing]
       /\ requested' = [requested EXCEPT ![s] = missing]
  /\ asked' = [asked EXCEPT ![s] = want]
  /\ encoding' = [encoding EXCEPT ![s] = remote]
  /\ task' = [task EXCEPT ![s] = "receive"]
  /\ Goto(s, "open")
  /\ UNCHANGED <<storeVars, lockVars, txVars, bases, history>>

\* ReceiveRecordData: the item as the remote has encoded it.  Only of a payload
\* that goes to a temporary file is it checked that it is not there yet.
Receive(s, d, place) ==
  /\ pc[s] = "open" /\ task[s] = "receive"
  /\ d \in todo[s]
  /\ place = "moved" => ~HasDataDirect(d)
  /\ LET base == encoding[s][d] IN
       /\ pending' = [pending EXCEPT ![s] = @ \cup {[data |-> d, base |-> base, place |-> place]}]
       /\ bases' = [bases EXCEPT ![s] = @ \cup ({base} \ {None})]
  /\ todo' = [todo EXCEPT ![s] = @ \ {d}]
  /\ UNCHANGED <<storeVars, lockVars, pc, newRows, newBlobs, item, snap, task, asked,
                 requested, encoding, history>>

\* Faulty variant of Close: the object database stays in its transaction.
Close_KeepsRows(s) ==
  /\ pending' = [pending EXCEPT ![s] = {}]
  /\ newRows' = [newRows EXCEPT ![s] = {}]
  /\ newBlobs' = [newBlobs EXCEPT ![s] = {}]
  /\ item' = [item EXCEPT ![s] = None]
  /\ blobWriter' = IF blobWriter = s THEN None ELSE blobWriter
  /\ task' = [task EXCEPT ![s] = "none"]
  /\ todo' = [todo EXCEPT ![s] = {}]
  /\ asked' = [asked EXCEPT ![s] = {}]
  /\ requested' = [requested EXCEPT ![s] = {}]
  /\ bases' = [bases EXCEPT ![s] = {}]
  /\ encoding' = [encoding EXCEPT ![s] = None]
  /\ Goto(s, "idle")
  /\ UNCHANGED rowWriter

\* The session ends, and what it had open is no more.
Close(s) ==
  /\ pending' = [pending EXCEPT ![s] = {}]
  /\ newRows' = [newRows EXCEPT ![s] = {}]
  /\ newBlobs' = [newBlobs EXCEPT ![s] = {}]
  /\ item' = [item EXCEPT ![s] = None]
  /\ rowWriter' = IF rowWriter = s THEN None ELSE rowWriter
  /\ blobWriter' = IF blobWriter = s THEN None ELSE blobWriter
  /\ task' = [task EXCEPT ![s] = "none"]
  /\ todo' = [todo EXCEPT ![s] = {}]
  /\ asked' = [asked EXCEPT ![s] = {}]
  /\ requested' = [requested EXCEPT ![s] = {}]
  /\ bases' = [bases EXCEPT ![s] = {}]
  /\ encoding' = [encoding EXCEPT ![s] = None]
  /\ Goto(s, "idle")

\* It ends without a commit of rows.
EndSession(s) == Close(s) /\ snap' = [snap EXCEPT ![s] = None]

\* ReceiveRecordData throws when another session has stored the data since it
\* was requested: the storage transaction is aborted.
ReceiveThrows(s, d) ==
  /\ pc[s] = "open" /\ task[s] = "receive"
  /\ d \in todo[s]
  /\ "moved" \in Places[d]
  /\ HasDataDirect(d)
  /\ EndSession(s)
  /\ UNCHANGED <<storeVars, history>>

----------------------------------------------------------------------------
(* CompleteTransaction *)

\* EndStorageTransaction, or FlushStorageTransaction before the end: begins a
\* transaction on both databases, which locks nothing yet.
BeginComplete(s) ==
  /\ pc[s] = "open"
  /\ pending[s] # {} \/ todo[s] = {}
  /\ Goto(s, "rows")
  /\ UNCHANGED <<storeVars, lockVars, txVars, askVars, history>>

\* Faulty variant of InsertRow: the row is committed at once.
InsertRow_Autocommit(s, i) ==
  /\ pc[s] = "rows"
  /\ i \in pending[s]
  /\ rowWriter = None
  /\ pending' = [pending EXCEPT ![s] = @ \ {i}]
  /\ IF \E r \in rows : r.data = i.data
       THEN UNCHANGED <<rows, pc, item>>
       ELSE /\ rows' = rows \cup {i}
            /\ item' = [item EXCEPT ![s] = i]
            /\ Goto(s, "payload")
  /\ UNCHANGED <<blobs, files, lockVars, newRows, newBlobs, snap, askVars, history>>

RowsOf(s, d) == {r \in rows \cup newRows[s] : r.data = d}

\* InsertSafe of the row.  Where there is a row of this data already the insert
\* fails on its primary key, and the item is dropped.
InsertRow(s, i) ==
  /\ pc[s] = "rows"
  /\ i \in pending[s]
  /\ rowWriter \in {None, s}
  /\ rowWriter' = s
  /\ pending' = [pending EXCEPT ![s] = @ \ {i}]
  /\ IF RowsOf(s, i.data) # {}
       THEN /\ dropped' = IF \E r \in RowsOf(s, i.data) : r.base # i.base
                           THEN dropped \cup {i.data} ELSE dropped
            /\ UNCHANGED <<pc, newRows, item>>
       ELSE /\ newRows' = [newRows EXCEPT ![s] = @ \cup {i}]
            /\ item' = [item EXCEPT ![s] = i]
            /\ Goto(s, "payload")
            /\ UNCHANGED dropped
  /\ UNCHANGED <<storeVars, blobWriter, newBlobs, snap, askVars, kept, left, erased>>

\* A small payload is inserted as a blob.
PutBlob(s) ==
  /\ pc[s] = "payload"
  /\ item[s].place = "blob"
  /\ blobWriter \in {None, s}
  /\ blobWriter' = s
  /\ newBlobs' = [newBlobs EXCEPT ![s] = @ \cup {item[s].data}]
  /\ item' = [item EXCEPT ![s] = None]
  /\ Goto(s, "rows")
  /\ UNCHANGED <<storeVars, rowWriter, pending, newRows, snap, askVars, history>>

\* A large one is renamed from its temporary file, unless its file exists: then
\* that is the payload, whole or not and however it is encoded.
MoveFile(s) ==
  /\ pc[s] = "payload"
  /\ item[s].place = "moved"
  /\ files' = [files EXCEPT ![item[s].data] =
                 IF @ = NoFile THEN File("whole", item[s].base) ELSE @]
  /\ item' = [item EXCEPT ![s] = None]
  /\ Goto(s, "rows")
  /\ UNCHANGED <<rows, blobs, lockVars, pending, newRows, newBlobs, snap, askVars, history>>

\* One received in memory that is not small (of exactly 16 KiB) is written to
\* its file, unless the file exists.
WriteFile(s) ==
  /\ pc[s] = "payload"
  /\ item[s].place = "written"
  /\ IF files[item[s].data] = NoFile
       THEN /\ files' = [files EXCEPT ![item[s].data] = File("partial", item[s].base)]
            /\ Goto(s, "writing")
            /\ UNCHANGED item
       ELSE /\ item' = [item EXCEPT ![s] = None]
            /\ Goto(s, "rows")
            /\ UNCHANGED files
  /\ UNCHANGED <<rows, blobs, lockVars, pending, newRows, newBlobs, snap, askVars, history>>

FinishFile(s) ==
  /\ pc[s] = "writing"
  /\ files' = [files EXCEPT ![item[s].data] = File("whole", item[s].base)]
  /\ item' = [item EXCEPT ![s] = None]
  /\ Goto(s, "rows")
  /\ UNCHANGED <<rows, blobs, lockVars, pending, newRows, newBlobs, snap, askVars, history>>

CommitBlobs(s) ==
  /\ pc[s] = "rows"
  /\ pending[s] = {}
  /\ blobs' = blobs \cup newBlobs[s]
  /\ newBlobs' = [newBlobs EXCEPT ![s] = {}]
  /\ blobWriter' = IF blobWriter = s THEN None ELSE blobWriter
  /\ Goto(s, "commit")
  /\ UNCHANGED <<rows, files, rowWriter, pending, newRows, item, snap, askVars, history>>

\* The snapshots after a commit of rows: of the others, none is fresh any more.
Outdated(s) ==
  [t \in Sessions |-> IF t = s \/ snap[t] = None THEN None ELSE [snap[t] EXCEPT !.fresh = FALSE]]

CommitRows(s) ==
  /\ pc[s] = "commit"
  /\ rows' = rows \cup newRows[s]
  /\ newRows' = [newRows EXCEPT ![s] = {}]
  /\ snap' = IF newRows[s] = {} THEN snap ELSE Outdated(s)
  /\ rowWriter' = IF rowWriter = s THEN None ELSE rowWriter
  /\ Goto(s, IF todo[s] = {} THEN "ended" ELSE "open")
  /\ UNCHANGED <<blobs, files, blobWriter, pending, newBlobs, item, askVars, history>>

\* Faulty variant of MissingBases: what a delta depends on is not looked up.
MissingBases_None(s) == {}

\* The bases of what was received that were not part of the request and that
\* the store does not have.
MissingBases(s) == {b \in bases[s] \ requested[s] : ~HasDataDirect(b)}

\* They are requested in turn.
RequestBases(s) ==
  /\ pc[s] = "ended"
  /\ MissingBases(s) # {}
  /\ todo' = [todo EXCEPT ![s] = MissingBases(s)]
  /\ requested' = [requested EXCEPT ![s] = MissingBases(s)]
  /\ bases' = [bases EXCEPT ![s] = {}]
  /\ Goto(s, "open")
  /\ UNCHANGED <<storeVars, lockVars, txVars, task, asked, encoding, history>>

\* The session goes on, trusting that the store has its data.
Finish(s) ==
  /\ pc[s] = "ended"
  /\ MissingBases(s) = {}
  /\ kept' = kept \cup asked[s]
  /\ EndSession(s)
  /\ UNCHANGED <<storeVars, left, dropped, erased>>

----------------------------------------------------------------------------
(* EraseData *)

BeginErase(s, which) ==
  /\ pc[s] = "idle"
  /\ which # {} /\ which \subseteq Erasable
  /\ task' = [task EXCEPT ![s] = "erase"]
  /\ todo' = [todo EXCEPT ![s] = which]
  /\ asked' = [asked EXCEPT ![s] = which]
  /\ kept' = kept \ which
  /\ erased' = erased \cup which
  /\ Goto(s, "erase")
  /\ UNCHANGED <<storeVars, lockVars, txVars, requested, bases, encoding, left, dropped>>

\* The row of the data is looked up; the first query fixes the snapshot.
Snapshot(s) == IF snap[s] = None THEN [rows |-> rows, fresh |-> TRUE] ELSE snap[s]

FindRow(s, d) ==
  /\ pc[s] = "erase"
  /\ d \in todo[s]
  /\ todo' = [todo EXCEPT ![s] = @ \ {d}]
  /\ snap' = [snap EXCEPT ![s] = Snapshot(s)]
  /\ \/ /\ \A r \in Snapshot(s).rows : r.data # d
        /\ UNCHANGED <<item, pc>>
     \/ /\ \E r \in Snapshot(s).rows : r.data = d /\ item' = [item EXCEPT ![s] = r]
        /\ Goto(s, "erasePayload")
  /\ UNCHANGED <<storeVars, lockVars, pending, newRows, newBlobs, task, asked,
                 requested, bases, encoding, history>>

\* The blob is deleted in the transaction, a file at once.
ErasePayload(s) ==
  /\ pc[s] = "erasePayload"
  /\ IF item[s].place = "blob"
       THEN /\ blobWriter \in {None, s}
            /\ blobWriter' = s
            /\ newBlobs' = [newBlobs EXCEPT ![s] = @ \cup {item[s].data}]
            /\ UNCHANGED files
       ELSE /\ files' = [files EXCEPT ![item[s].data] = NoFile]
            /\ UNCHANGED <<blobWriter, newBlobs>>
  /\ Goto(s, "eraseRow")
  /\ UNCHANGED <<rows, blobs, rowWriter, pending, newRows, item, snap, askVars, history>>

EraseRow(s) ==
  /\ pc[s] = "eraseRow"
  /\ rowWriter \in {None, s} /\ snap[s].fresh
  /\ rowWriter' = s
  /\ newRows' = [newRows EXCEPT ![s] = @ \cup {item[s]}]
  /\ item' = [item EXCEPT ![s] = None]
  /\ Goto(s, "erase")
  /\ UNCHANGED <<storeVars, blobWriter, pending, newBlobs, snap, askVars, history>>

\* A delete is busy: not retried, it throws.
EraseBusy(s) ==
  \/ pc[s] = "erasePayload" /\ item[s].place = "blob" /\ blobWriter \notin {None, s}
  \/ pc[s] = "eraseRow" /\ (rowWriter \notin {None, s} \/ ~snap[s].fresh)

\* The data whose payload a session has at hand, outside of what is rolled back:
\* files it has put or deleted, and blobs when it has committed their deletion.
InHand(s) == newRows[s] \cup (IF pc[s] = "eraseRow" THEN {item[s]} ELSE {})
Handled(s) == {i.data : i \in {x \in InHand(s) : x.place # "blob" \/ pc[s] = "erased"}}

\* The catch clause rolls both databases back; files stay deleted.
EraseThrows(s) ==
  /\ EraseBusy(s)
  /\ left' = left \cup Handled(s)
  /\ EndSession(s)
  /\ UNCHANGED <<storeVars, kept, dropped, erased>>

CommitErasedBlobs(s) ==
  /\ pc[s] = "erase"
  /\ todo[s] = {}
  /\ blobs' = blobs \ newBlobs[s]
  /\ newBlobs' = [newBlobs EXCEPT ![s] = {}]
  /\ blobWriter' = IF blobWriter = s THEN None ELSE blobWriter
  /\ Goto(s, "erased")
  /\ UNCHANGED <<rows, files, rowWriter, pending, newRows, item, snap, askVars, history>>

CommitErasedRows(s) ==
  /\ pc[s] = "erased"
  /\ rows' = rows \ newRows[s]
  /\ snap' = IF newRows[s] = {} THEN [snap EXCEPT ![s] = None] ELSE Outdated(s)
  /\ Close(s)
  /\ UNCHANGED <<blobs, files, history>>

----------------------------------------------------------------------------
\* An exception, a broken connection, the end of the process.
Fail(s) ==
  /\ Fragile
  /\ pc[s] # "idle"
  /\ left' = left \cup Handled(s)
  /\ EndSession(s)
  /\ UNCHANGED <<storeVars, kept, dropped, erased>>

Gather(s) ==
  \/ \E d \in Data : SkipRecord(s, d) \/ ReceiveThrows(s, d)
  \/ \E d \in Data, prior \in Data : \E place \in Places[d] : RecordData(s, d, prior, place)
  \/ \E d \in Data : \E place \in Places[d] : Receive(s, d, place)
  \/ BeginComplete(s) \/ RequestBases(s) \/ Finish(s)

Put(s) == \E i \in pending[s] : InsertRow(s, i)

Complete(s) ==
  PutBlob(s) \/ MoveFile(s) \/ WriteFile(s) \/ FinishFile(s) \/ CommitBlobs(s) \/ CommitRows(s)

Erase(s) ==
  \/ \E d \in Data : FindRow(s, d)
  \/ ErasePayload(s) \/ EraseRow(s) \/ EraseThrows(s)
  \/ CommitErasedBlobs(s) \/ CommitErasedRows(s)

Begin(s) ==
  \E want \in SUBSET Data :
    \/ BeginRecord(s, want) \/ BeginErase(s, want)
    \/ \E remote \in Encodings : BeginReceive(s, want, remote)

Next == \E s \in Sessions :
          Begin(s) \/ Gather(s) \/ Put(s) \/ Complete(s) \/ Erase(s) \/ Fail(s)

Spec == Init /\ [][Next]_vars

\* A session keeps running, and InsertSafe's retries find the write lock free
\* if it is free again and again.
Fairness ==
  \A s \in Sessions : /\ WF_vars(Gather(s) \/ Complete(s) \/ Erase(s))
                      /\ SF_vars(Put(s))
                      /\ SF_vars(PutBlob(s))

FairSpec == Spec /\ Fairness

----------------------------------------------------------------------------
(* Properties *)

Steps == {"idle", "open", "rows", "payload", "writing", "commit", "ended",
          "erase", "erasePayload", "eraseRow", "erased"}

\* Every variable holds a value of its kind, and no row is a delta on itself.
TypeOK ==
  /\ rows \subseteq Items
  /\ blobs \subseteq Data
  /\ files \in [Data -> [state : {"none", "partial", "whole"}, base : Data \cup {None}]]
  /\ rowWriter \in Sessions \cup {None} /\ blobWriter \in Sessions \cup {None}
  /\ pc \in [Sessions -> Steps]
  /\ task \in [Sessions -> {"none", "record", "receive", "erase"}]
  /\ pending \in [Sessions -> SUBSET Items]
  /\ newRows \in [Sessions -> SUBSET Items]
  /\ newBlobs \in [Sessions -> SUBSET Data]
  /\ item \in [Sessions -> Items \cup {None}]
  /\ snap \in [Sessions -> Snapshots \cup {None}]
  /\ todo \in [Sessions -> SUBSET Data]
  /\ asked \in [Sessions -> SUBSET Data]
  /\ requested \in [Sessions -> SUBSET Data]
  /\ bases \in [Sessions -> SUBSET Data]
  /\ encoding \in [Sessions -> Encodings \cup {None}]
  /\ kept \subseteq Data /\ left \subseteq Data /\ dropped \subseteq Data /\ erased \subseteq Data

\* A row is never there without its whole payload in the encoding the row names,
\* although rows, blobs and files commit one after the other, and sessions fail
\* and are pruned in between: the answer of HasDataDirect, which looks at rows
\* only, is then true.  Two exceptions: a session that erases the data right now,
\* and data whose file (or erased blob) an earlier session had at hand when it
\* failed, for files have no transaction, and what it left is adopted as it is.
RowsHavePayload ==
  \A r \in rows :
    \/ HasPayload(r)
    \/ r.data \in left
    \/ \E s \in Sessions : task[s] = "erase" /\ r.data \in Handled(s)

\* Data that a commit has recorded or a push has delivered can be read, through
\* the deltas it is made of, from any remotes and beside any other sessions, until
\* it is erased itself; unless it is, or is a delta on, data whose item was dropped
\* for a row with another base, or that was erased, or whose file was left behind.
KeptIsReadable ==
  \A d \in kept : d \in Grounded(Payloads, {None} \cup dropped \cup erased \cup left)

\* CompleteTransaction ends: sessions never wait for each other's databases in
\* a circle.
CompleteEnds == \A s \in Sessions : pc[s] = "rows" ~> pc[s] \in {"idle", "open", "ended"}
=============================================================================
