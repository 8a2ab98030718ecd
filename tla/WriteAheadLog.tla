---------------------------- MODULE WriteAheadLog ----------------------------
(***************************************************************************)
(* The write-ahead log of SQLite 3.19.3 (src/sqlite3/sqlite3.c), the mode  *)
(* in which the program opens all its databases (EnableWAL).  Connections  *)
(* of several processes share the database file, the log and the           *)
(* wal-index, a shared memory with a header, two numbers for checkpoints   *)
(* and the read marks, on whose bytes they take shared and exclusive       *)
(* locks.  A reader fixes the end of the log it will look at and a mark    *)
(* that keeps checkpoints from writing newer pages to the database; a      *)
(* writer appends frames, or restarts the log when it has been copied to   *)
(* the database and nobody reads it; a checkpoint copies pages to the      *)
(* database; after a crash the wal-index is rebuilt from the log.          *)
(*                                                                         *)
(* A page holds the number of the transaction that wrote it last.  A frame *)
(* carries the salt of its log and a checksum over all frames before it:   *)
(* here, the number of the transaction that wrote the frame before.        *)
(* Transactions are synced when they commit (synchronous=FULL, which       *)
(* nothing in the program changes).  Checkpoints are passive, as the       *)
(* automatic ones are.  A power failure keeps or loses a frame that was    *)
(* not synced; it does not bring back the frame that one has replaced.     *)
(***************************************************************************)
EXTENDS Integers, Sequences, FiniteSetsExt

CONSTANTS Conns,    \* connections, each in a process of its own
          Pages,    \* pages of the database: positive numbers
          Changes,  \* the sets of pages that a transaction may write
          Marks,    \* the read marks, 1 .. WAL_NREADER-1
          MaxTx,    \* bound: write transactions begun in a behaviour
          None      \* no image, for the abstract specification

ASSUME PagesAssumption ==
  (\A p \in Pages : p \in Nat /\ p > 0) /\ Pages # {} /\ IsFiniteSet(Pages)
ASSUME ChangesAssumption == Changes \subseteq (SUBSET Pages) \ {{}}
ASSUME MarksAssumption ==
  IsFiniteSet(Marks) /\ Marks = 1 .. Cardinality(Marks) /\ Marks # {}
ASSUME BoundAssumption == MaxTx \in Nat

VARIABLES
  db,        \* db[p]: page p of the database file, as processes see it
  unsynced,  \* unsynced[p]: what page p can be after a power failure
  log,       \* the frames in the log file
  logSalt,   \* the salt in the header of the log file; 0: there is none
  synced,    \* how many frames are synced
  index,     \* the wal-index
  conn,      \* conn[c]: struct Wal, and what the connection is doing
  txs,       \* write transactions begun
  slips      \* history variable: what has happened that the code does not provide
             \* for, "overrun" (see Plan) or "recovery" (see Recover)

vars == <<db, unsynced, log, logSalt, synced, index, conn, txs, slips>>
files == <<db, unsynced, log, logSalt, synced>>

Tx == 0 .. MaxTx
MaxFrame == MaxTx * Cardinality(Pages)
NotUsed == MaxFrame + 1      \* READMARK_NOT_USED

\* WalIndexHdr: mxFrame, aSalt, aFrameCksum (last) and iChange.
Header == [mxFrame : 0 .. MaxFrame, salt : Tx, last : Tx, change : Tx]
NoHeader == [mxFrame |-> 0, salt |-> 0, last |-> 0, change |-> 0]

Frame == [page : Pages, tx : Tx, prior : Tx, salt : Tx, commit : BOOLEAN]

\* The wal-index before anyone has recovered it.  hdr is the first copy of the
\* header, which writers write second; "torn": the second copy differs.
NoIndex == [state |-> "lost", hdr |-> NoHeader, nBackfill |-> 0,
            aReadMark |-> [i \in Marks |-> NotUsed]]

\* A connection outside any transaction; readLock = -1: no read lock.
Rest(pc) == [pc |-> pc, hdr |-> NoHeader, readLock |-> -1, minFrame |-> 0,
             slot |-> 0, mark |-> 0, tx |-> 0, pages |-> {}, left |-> {},
             iFrame |-> 0, mxSafeFrame |-> 0]

Init ==
  /\ db = [p \in Pages |-> 0]
  /\ unsynced = [p \in Pages |-> {0}]
  /\ log = <<>> /\ logSalt = 0 /\ synced = 0
  /\ index = NoIndex
  /\ conn = [c \in Conns |-> Rest("closed")]
  /\ txs = 0 /\ slips = {}

----------------------------------------------------------------------------
(* Locks, each a byte of the wal-index *)

InTransaction == {"read", "write", "header", "log", "publish"}
Writing == {"write", "header", "log", "publish"}
Checkpointing == {"plan", "marks", "zero", "copy"}

WriteLockFree == \A c \in Conns : conn[c].pc \notin Writing
CkptLockFree(self) == \A c \in Conns \ {self} : conn[c].pc \notin Checkpointing
ReadersOf(i) == {c \in Conns : conn[c].readLock = i}

\* READ_LOCK(0) is held exclusively while pages are copied; the other read
\* locks are held exclusively only within a step.
ZeroLocked == \E c \in Conns : conn[c].pc = "copy"

----------------------------------------------------------------------------
(* What the files hold *)

\* An image with frames lo .. hi of the log over it: sqlite3WalFindFrame takes
\* the last frame of the page.
Overlay(image, lo, hi) ==
  [p \in Pages |->
     LET frames == {f \in lo .. hi \cap DOMAIN log : log[f].page = p}
     IN  IF frames = {} THEN image[p] ELSE log[Max(frames)].tx]

\* walIndexRecover reads frames while walDecodeFrame finds them valid: the
\* salt is that of the log and the checksum continues.
ValidFrames ==
  {f \in DOMAIN log : \A g \in 1 .. f :
      /\ log[g].salt = logSalt
      /\ log[g].prior = IF g = 1 THEN 0 ELSE log[g - 1].tx}

\* Faulty variant of Commits: whether the frame commits is not looked at.
Commits_AnyFrame == ValidFrames

Commits == {f \in ValidFrames : log[f].commit}

\* The last frame that commits, of the first n.
LastCommit(n) == Max({0} \cup {f \in Commits : f <= n})

\* The image a recovery finds.
Recovered == Overlay(db, 1, LastCommit(Len(log)))

\* The image a new reader sees.
Latest ==
  IF index.state = "lost" THEN Recovered
  ELSE Overlay(db, index.nBackfill + 1, index.hdr.mxFrame)

\* The image the transaction of c sees.
View(c) ==
  IF conn[c].readLock = 0 THEN db
  ELSE Overlay(db, conn[c].minFrame, conn[c].hdr.mxFrame)

Images(pages) == {image \in [Pages -> Tx] : \A p \in Pages : image[p] \in pages[p]}

\* The images a recovery may find after a failure that leaves the frames to
\* last: pages that the log does not have are what the database file has.
Survivors(last) ==
  Images([p \in Pages |->
            LET frames == {f \in 1 .. last : log[f].page = p}
            IN  IF frames = {} THEN unsynced[p] ELSE {log[Max(frames)].tx}])

----------------------------------------------------------------------------
(* Opening, recovery, closing *)

\* The first connection to open the database clears the wal-index.
Open(c) ==
  /\ conn[c].pc = "closed"
  /\ conn' = [conn EXCEPT ![c] = Rest("idle")]
  /\ index' = IF \A d \in Conns : conn[d].pc = "closed" THEN NoIndex ELSE index
  /\ UNCHANGED <<files, txs, slips>>

\* walIndexReadHdr finds the header unusable and runs walIndexRecover, under
\* all the locks.  It slips if a reader is about to lock READ_LOCK(0) and ignore the
\* log: nBackfill is 0 now, although the header may be the one that the reader has.
Recover(c) ==
  /\ conn[c].pc = "idle"
  /\ index.state # "ok"
  /\ WriteLockFree /\ CkptLockFree(c)
  /\ \A d \in Conns : conn[d].readLock = -1
  /\ LET last == LastCommit(Len(log)) IN
       index' = [state |-> "ok",
                 hdr |-> [mxFrame |-> last, change |-> 0,
                          salt |-> IF log = <<>> THEN 0 ELSE logSalt,
                          last |-> IF last = 0 THEN 0 ELSE log[last].tx],
                 nBackfill |-> 0,
                 aReadMark |-> [i \in Marks |-> IF i = 1 /\ last # 0 THEN last ELSE NotUsed]]
  /\ slips' = IF \E d \in Conns : conn[d].pc = "lock" /\ conn[d].slot = 0
                THEN slips \cup {"recovery"} ELSE slips
  /\ UNCHANGED <<files, conn, txs>>

\* The last connection checkpoints and deletes the log, in sqlite3WalClose and
\* with the database locked.
CloseLast(c) ==
  /\ conn[c].pc = "idle"
  /\ \A d \in Conns \ {c} : conn[d].pc = "closed"
  /\ index.state = "ok"
  /\ db' = Latest
  /\ unsynced' = [p \in Pages |-> {Latest[p]}]
  /\ log' = <<>> /\ logSalt' = 0 /\ synced' = 0
  /\ index' = NoIndex
  /\ conn' = [conn EXCEPT ![c] = Rest("closed")]
  /\ UNCHANGED <<txs, slips>>

----------------------------------------------------------------------------
(* Readers: walTryBeginRead, whose steps other connections may come between *)

Retry(c) == conn' = [conn EXCEPT ![c] = Rest("idle")]

\* The slot and the mark to use for mxFrame: the largest mark that does not
\* exceed it; if that is smaller, the first slot without readers is set to it.
\* None, when no mark is usable and no slot free.
ChosenMark(aReadMark, mxFrame) ==
  LET usable == {i \in Marks : aReadMark[i] <= mxFrame}
      best == Max({aReadMark[i] : i \in usable})
      free == {i \in Marks : ReadersOf(i) = {}}
  IN  CASE (usable = {} \/ best < mxFrame) /\ free # {} -> {[slot |-> Min(free), mark |-> mxFrame]}
        [] usable = {} /\ free = {} -> {}
        [] OTHER -> {[slot |-> Max({i \in usable : aReadMark[i] = best}), mark |-> best]}

ChooseMark(c, hdr) ==
  LET chosen == ChosenMark(index.aReadMark, hdr.mxFrame)
  IN  \/ chosen = {} /\ Retry(c) /\ UNCHANGED index
      \/ \E m \in chosen :
           /\ conn' = [conn EXCEPT ![c].pc = "lock", ![c].hdr = hdr,
                                  ![c].slot = m.slot, ![c].mark = m.mark]
           /\ index' = [index EXCEPT !.aReadMark[m.slot] = m.mark]

\* The header is read and a mark chosen.  A log that has been copied to the
\* database is ignored, under READ_LOCK(0).  (One step: what Confirm compares
\* would show that the header has changed in between.)
Choose(c) ==
  /\ conn[c].pc = "idle"
  /\ index.state = "ok"
  /\ IF index.nBackfill = index.hdr.mxFrame
     THEN /\ conn' = [conn EXCEPT ![c].pc = "lock", ![c].hdr = index.hdr, ![c].slot = 0]
          /\ UNCHANGED index
     ELSE ChooseMark(c, index.hdr)
  /\ UNCHANGED <<files, txs, slips>>

LockMark(c) ==
  /\ conn[c].pc = "lock"
  /\ IF conn[c].slot = 0 /\ ZeroLocked
     THEN ChooseMark(c, conn[c].hdr)
     ELSE /\ conn' = [conn EXCEPT ![c].pc = "confirm", ![c].readLock = conn[c].slot,
                                  ![c].minFrame = index.nBackfill + 1]
          /\ UNCHANGED index
  /\ UNCHANGED <<files, txs, slips>>

\* Faulty variant of Confirmed: only the mark is compared.
Confirmed_MarkOnly(c) ==
  conn[c].slot # 0 => index.aReadMark[conn[c].slot] = conn[c].mark

Confirmed(c) ==
  /\ conn[c].hdr = index.hdr
  /\ conn[c].slot # 0 => index.aReadMark[conn[c].slot] = conn[c].mark

Confirm(c) ==
  /\ conn[c].pc = "confirm"
  /\ IF Confirmed(c)
       THEN conn' = [conn EXCEPT ![c].pc = "read", ![c].slot = 0, ![c].mark = 0]
       ELSE Retry(c)
  /\ UNCHANGED <<files, index, txs, slips>>

EndRead(c) ==
  /\ conn[c].pc = "read"
  /\ conn' = [conn EXCEPT ![c] = Rest("idle")]
  /\ UNCHANGED <<files, index, txs, slips>>

----------------------------------------------------------------------------
(* Writers *)

\* Faulty variant of BeginWrite: the headers are not compared.
BeginWrite_StaleImage(c) ==
  /\ conn[c].pc = "read"
  /\ WriteLockFree
  /\ txs < MaxTx
  /\ txs' = txs + 1
  /\ \E pages \in Changes :
       conn' = [conn EXCEPT ![c].pc = "write", ![c].tx = txs', ![c].pages = pages, ![c].left = pages]
  /\ UNCHANGED <<files, index, slips>>

\* A transaction whose image is no longer the latest is refused
\* (SQLITE_BUSY_SNAPSHOT).
BeginWrite(c) ==
  /\ conn[c].pc = "read"
  /\ WriteLockFree
  /\ conn[c].hdr = index.hdr
  /\ txs < MaxTx
  /\ txs' = txs + 1
  /\ \E pages \in Changes :
       conn' = [conn EXCEPT ![c].pc = "write", ![c].tx = txs', ![c].pages = pages, ![c].left = pages]
  /\ UNCHANGED <<files, index, slips>>

\* The transaction is rolled back, or its commit fails; the frames it wrote
\* stay in the log, beyond mxFrame.
Rollback(c) ==
  /\ conn[c].pc \in {"write", "header", "log"}
  /\ conn' = [conn EXCEPT ![c] = Rest("idle")]
  /\ UNCHANGED <<files, index, txs, slips>>

\* Faulty variant of NobodyReadsLog: readers of the log are not waited for.
NobodyReadsLog_Unasked == TRUE

NobodyReadsLog == \A i \in Marks : ReadersOf(i) = {}

\* The log has been copied to the database, which c reads, and nobody reads
\* the log: it will be overwritten from its start.
CanRestart(c) ==
  /\ conn[c].readLock = 0
  /\ index.nBackfill > 0
  /\ NobodyReadsLog

\* Faulty variant of RestartedIndex: nBackfill is not reset.
RestartedIndex_KeepsBackfill(hdr) ==
  [index EXCEPT !.state = "ok", !.hdr = hdr,
                !.aReadMark = [i \in Marks |-> IF i = 1 THEN 0 ELSE NotUsed]]

\* walRestartHdr.
RestartedIndex(hdr) ==
  [state |-> "ok", hdr |-> hdr, nBackfill |-> 0,
   aReadMark |-> [i \in Marks |-> IF i = 1 THEN 0 ELSE NotUsed]]

\* walRestartLog.  A writer that reads the database takes a mark now, so that
\* checkpoints do not wait for it.
RestartLog(c) ==
  /\ conn[c].pc = "write"
  /\ LET hdr == IF CanRestart(c)
                  THEN [conn[c].hdr EXCEPT !.mxFrame = 0, !.salt = conn[c].tx, !.last = 0]
                  ELSE conn[c].hdr
         now == IF CanRestart(c) THEN RestartedIndex(hdr) ELSE index
         next == [conn[c] EXCEPT !.pc = IF hdr.mxFrame = 0 THEN "header" ELSE "log",
                                 !.hdr = hdr, !.iFrame = hdr.mxFrame]
     IN  \/ /\ conn[c].readLock # 0
            /\ conn' = [conn EXCEPT ![c] = next]
            /\ UNCHANGED index
         \/ /\ conn[c].readLock = 0
            /\ \E m \in ChosenMark(now.aReadMark, hdr.mxFrame) :
                 /\ conn' = [conn EXCEPT ![c] = [next EXCEPT !.readLock = m.slot,
                                                            !.minFrame = now.nBackfill + 1]]
                 /\ index' = [now EXCEPT !.aReadMark[m.slot] = m.mark]
  /\ UNCHANGED <<files, txs, slips>>

\* The header of a log that starts, written and synced.  The salt is new, or
\* the one of an earlier header (nCkpt > 0).
WriteHeader(c) ==
  /\ conn[c].pc = "header"
  /\ \E salt \in {conn[c].tx, conn[c].hdr.salt} \ {0} :
       /\ logSalt' = salt
       /\ conn' = [conn EXCEPT ![c].pc = "log", ![c].hdr.salt = salt]
  /\ synced' = 0
  /\ UNCHANGED <<db, unsynced, log, index, txs, slips>>

\* walWriteOneFrame, for the dirty pages in the order of their numbers; the
\* last one carries the commit mark.
WriteFrame(c) ==
  /\ conn[c].pc = "log"
  /\ conn[c].left # {}
  /\ LET page == Min(conn[c].left)
         f == conn[c].iFrame + 1
         frame == [page |-> page, tx |-> conn[c].tx, salt |-> conn[c].hdr.salt,
                   prior |-> IF f = 1 THEN 0 ELSE log[f - 1].tx,
                   commit |-> conn[c].left = {page}]
     IN  /\ log' = IF f > Len(log) THEN Append(log, frame) ELSE [log EXCEPT ![f] = frame]
         /\ synced' = Min({synced, f - 1})
         /\ conn' = [conn EXCEPT ![c].left = @ \ {page}, ![c].iFrame = f]
  /\ UNCHANGED <<db, unsynced, logSalt, index, txs, slips>>

\* Faulty variant of SyncLog: it does not sync (synchronous=NORMAL).
SyncLog_Not(c) ==
  /\ conn[c].pc = "log"
  /\ conn[c].left = {}
  /\ conn' = [conn EXCEPT ![c].pc = "publish"]
  /\ UNCHANGED <<files, index, txs, slips>>

SyncLog(c) ==
  /\ conn[c].pc = "log"
  /\ conn[c].left = {}
  /\ synced' = Max({synced, conn[c].iFrame})
  /\ conn' = [conn EXCEPT ![c].pc = "publish"]
  /\ UNCHANGED <<db, unsynced, log, logSalt, index, txs, slips>>

\* The new header of the wal-index makes the transaction visible.
Publish(c) ==
  /\ conn[c].pc = "publish"
  /\ LET last == conn[c].iFrame IN
       index' = [index EXCEPT !.state = "ok",
                   !.hdr = [mxFrame |-> last, salt |-> conn[c].hdr.salt,
                            last |-> log[last].tx, change |-> conn[c].hdr.change + 1]]
  /\ conn' = [conn EXCEPT ![c] = Rest("idle")]
  /\ UNCHANGED <<files, txs, slips>>

----------------------------------------------------------------------------
(* Checkpoints: sqlite3WalCheckpoint, walCheckpoint *)

\* The checkpoint lock is taken and the header read.
BeginCheckpoint(c) ==
  /\ conn[c].pc = "idle"
  /\ CkptLockFree(c)
  /\ index.state = "ok"
  /\ conn' = [conn EXCEPT ![c].pc = "plan", ![c].hdr = index.hdr]
  /\ UNCHANGED <<files, index, txs, slips>>

\* A writer restarted the log after the checkpoint read the header: nBackfill
\* and the frames are no longer those of its header.
Overrun(c) == conn[c].hdr.salt # index.hdr.salt

\* walIteratorInit: the last frame of each page.  After a restart the pages that the
\* wal-index names may be those of the old log, or of the new one.
Iterators(c) ==
  LET frames == {f \in DOMAIN log : f <= conn[c].hdr.mxFrame}
      last == {f \in frames : \A g \in frames : g > f => log[g].page # log[f].page}
  IN  IF Overrun(c)
        THEN {items \in SUBSET [page : Pages, frame : frames] :
                \A w, x \in items : w.page = x.page => w = x}
        ELSE {{[page |-> log[f].page, frame |-> f] : f \in last}}

\* The checkpoint does not compare the headers: it slips after a restart, and goes
\* on with the numbers of a log that is no more.
Plan(c) ==
  /\ conn[c].pc = "plan"
  /\ LET mxFrame == conn[c].hdr.mxFrame IN
       IF index.nBackfill < mxFrame
         THEN /\ \E items \in Iterators(c) :
                   conn' = [conn EXCEPT ![c].pc = "marks", ![c].slot = 1,
                                        ![c].mxSafeFrame = mxFrame, ![c].left = items]
              /\ slips' = IF Overrun(c) THEN slips \cup {"overrun"} ELSE slips
         ELSE /\ conn' = [conn EXCEPT ![c] = Rest("idle")]
              /\ UNCHANGED slips
  /\ UNCHANGED <<files, index, txs>>

\* Faulty variant of CheckMark: a mark is moved on although it has readers.
CheckMark_Taken(c) ==
  /\ conn[c].pc = "marks"
  /\ LET i == conn[c].slot
         safe == conn[c].mxSafeFrame
     IN  /\ index' = IF index.aReadMark[i] < safe
                       THEN [index EXCEPT !.aReadMark[i] = IF i = 1 THEN safe ELSE NotUsed]
                       ELSE index
         /\ conn' = [conn EXCEPT ![c].slot = i + 1,
                                 ![c].pc = IF i + 1 \in Marks THEN "marks" ELSE "zero"]
  /\ UNCHANGED <<files, txs, slips>>

\* A mark behind mxSafeFrame is moved on, or holds the checkpoint back when it
\* has readers.
CheckMark(c) ==
  /\ conn[c].pc = "marks"
  /\ LET i == conn[c].slot
         y == index.aReadMark[i]
         safe == conn[c].mxSafeFrame
         busy == y < safe /\ ReadersOf(i) # {}
     IN  /\ index' = IF y < safe /\ ~busy
                       THEN [index EXCEPT !.aReadMark[i] = IF i = 1 THEN safe ELSE NotUsed]
                       ELSE index
         /\ conn' = [conn EXCEPT ![c].mxSafeFrame = IF busy THEN y ELSE safe, ![c].slot = i + 1,
                                 ![c].pc = IF i + 1 \in Marks THEN "marks" ELSE "zero"]
  /\ UNCHANGED <<files, txs, slips>>

\* The log is synced before its pages are copied, unless nothing is left to
\* copy or somebody reads the database.
StartCopy(c) ==
  /\ conn[c].pc = "zero"
  /\ IF index.nBackfill < conn[c].mxSafeFrame /\ ReadersOf(0) = {}
     THEN /\ conn' = [conn EXCEPT ![c].pc = "copy"]
          /\ synced' = Len(log)
     ELSE /\ conn' = [conn EXCEPT ![c] = Rest("idle")]
          /\ UNCHANGED synced
  /\ UNCHANGED <<db, unsynced, log, logSalt, index, txs, slips>>

\* What is left to copy: not yet in the database, and safe.
Wanted(c) ==
  {w \in conn[c].left : index.nBackfill < w.frame /\ w.frame <= conn[c].mxSafeFrame}

Copy(c) ==
  /\ conn[c].pc = "copy"
  /\ \E w \in Wanted(c) :
       /\ \A other \in Wanted(c) : w.page <= other.page
       /\ db' = [db EXCEPT ![w.page] = log[w.frame].tx]
       /\ unsynced' = [unsynced EXCEPT ![w.page] = @ \cup {log[w.frame].tx}]
       /\ conn' = [conn EXCEPT ![c].left = @ \ {w}]
  /\ UNCHANGED <<log, logSalt, synced, index, txs, slips>>

\* Faulty variant of FinishCopy: the database is not synced.
FinishCopy_Unsynced(c) ==
  /\ conn[c].pc = "copy"
  /\ Wanted(c) = {}
  /\ index' = [index EXCEPT !.nBackfill = conn[c].mxSafeFrame]
  /\ conn' = [conn EXCEPT ![c] = Rest("idle")]
  /\ UNCHANGED <<files, txs, slips>>

\* The database is synced if all of the log is in it now: only then may the
\* log be restarted.
FinishCopy(c) ==
  /\ conn[c].pc = "copy"
  /\ Wanted(c) = {}
  /\ unsynced' = IF conn[c].mxSafeFrame = index.hdr.mxFrame
                   THEN [p \in Pages |-> {db[p]}] ELSE unsynced
  /\ index' = [index EXCEPT !.nBackfill = conn[c].mxSafeFrame]
  /\ conn' = [conn EXCEPT ![c] = Rest("idle")]
  /\ UNCHANGED <<db, log, logSalt, synced, txs, slips>>

----------------------------------------------------------------------------
(* Failures *)

\* A process dies, or closes a database that others have open; its locks are
\* gone.  It may have written the second copy of the header and not the first.
Crash(c) ==
  /\ conn[c].pc # "closed"
  /\ conn' = [conn EXCEPT ![c] = Rest("closed")]
  /\ \/ UNCHANGED index
     \/ /\ conn[c].pc = "publish" \/ (conn[c].pc = "write" /\ CanRestart(c))
        /\ index' = [index EXCEPT !.state = "torn"]
  /\ UNCHANGED <<files, txs, slips>>

\* The power fails: of what is not synced, the database may keep any version
\* of each page, and the log a part.
PowerFail ==
  /\ \E c \in Conns : conn[c].pc # "closed"
  /\ conn' = [c \in Conns |-> Rest("closed")]
  /\ index' = NoIndex
  /\ \E n \in synced .. Len(log) : log' = SubSeq(log, 1, n) /\ synced' = n
  /\ \E image \in Images(unsynced) :
       db' = image /\ unsynced' = [p \in Pages |-> {image[p]}]
  /\ UNCHANGED <<logSalt, txs, slips>>

----------------------------------------------------------------------------
Reading(c) == Choose(c) \/ LockMark(c) \/ Confirm(c) \/ EndRead(c)

Writes(c) ==
  \/ BeginWrite(c) \/ Rollback(c) \/ RestartLog(c) \/ WriteHeader(c)
  \/ WriteFrame(c) \/ SyncLog(c) \/ Publish(c)

Checkpoint(c) ==
  \/ BeginCheckpoint(c) \/ Plan(c) \/ CheckMark(c)
  \/ StartCopy(c) \/ Copy(c) \/ FinishCopy(c)

Next ==
  \/ \E c \in Conns :
       \/ Open(c) \/ Recover(c) \/ CloseLast(c) \/ Crash(c)
       \/ Reading(c) \/ Writes(c) \/ Checkpoint(c)
  \/ PowerFail

Spec == Init /\ [][Next]_vars

----------------------------------------------------------------------------
(* Properties *)

\* The types of the variables; and, until a checkpoint or a recovery slips, "The
\* nBackfill number is never greater than WalIndexHdr.mxFrame." (sqlite3.c:54806)
TypeOK ==
  /\ db \in [Pages -> Tx]
  /\ unsynced \in [Pages -> SUBSET Tx] /\ \A p \in Pages : db[p] \in unsynced[p]
  /\ log \in Seq(Frame) /\ Len(log) <= MaxFrame
  /\ logSalt \in Tx /\ txs \in Tx
  /\ synced \in 0 .. Len(log)
  /\ index \in [state : {"lost", "torn", "ok"}, hdr : Header, nBackfill : 0 .. MaxFrame,
                aReadMark : [Marks -> 0 .. NotUsed]]
  /\ slips \in SUBSET {"overrun", "recovery"}
  /\ slips = {} => index.nBackfill <= index.hdr.mxFrame
  /\ \A c \in Conns :
       /\ conn[c].hdr \in Header
       /\ conn[c].readLock \in {-1, 0} \cup Marks
       /\ conn[c].pc \in InTransaction => conn[c].readLock # -1

\* The database keeps the promise of SnapshotStore to all its connections:
\* each transaction reads one image from its beginning to its end, writers
\* extend the latest image, and what was published is never lost nor torn,
\* whatever checkpoints copy, writers restart and processes leave behind; until a
\* checkpoint goes on with the header of a log that was restarted, or a recovery comes
\* between a reader's decision to ignore the log and its lock.
Draft(c) ==
  LET view == View(c)
  IN  [p \in Pages |-> IF p \in conn[c].pages THEN conn[c].tx ELSE view[p]]

Store == INSTANCE SnapshotStore WITH
  Image <- [Pages -> Tx],
  stored <- Latest,
  survivors <- UNION {Survivors(last) :
                        last \in {LastCommit(synced)} \cup {f \in Commits : f > synced}},
  seen <- [c \in Conns |-> IF conn[c].pc \in InTransaction THEN View(c) ELSE None],
  draft <- [c \in Conns |-> IF conn[c].pc \in Writing THEN Draft(c) ELSE None]

StoreIsKept ==
  Store!Init /\ [][slips' = {} => Store!Next \/ UNCHANGED Store!vars]_vars
=============================================================================
