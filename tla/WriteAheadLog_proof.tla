------------------------- MODULE WriteAheadLog_proof -------------------------
(***************************************************************************)
(* Proofs about WriteAheadLog: its types, which contain that nBackfill     *)
(* never exceeds mxFrame until a checkpoint or a recovery slips.           *)
(***************************************************************************)
EXTENDS WriteAheadLog, FiniteSetTheorems, NaturalsInduction, WellFoundedInduction,
        TLAPS

----------------------------------------------------------------------------
(* Numbers *)

\* The order of the numbers, as a relation.
Less == {ss \in Nat \X Nat : ss[1] < ss[2]}

\* Every set of numbers that is not empty has a least element.
LEMMA LeastElement ==
  ASSUME NEW T \in SUBSET Nat, T # {}
  PROVE  \E n \in T : \A m \in T : n <= m
<1>1. IsWellFoundedOn(Less, Nat)
  BY NatLessThanWellFounded, Zenon DEF OpToRel, Less
<1>2. PICK n \in T : \A m \in T : <<m, n>> \notin Less
  BY <1>1, WFMin
<1>3. \A m \in T : ~(m < n)
  <2> TAKE m \in T
  <2>1. <<m, n>> \in Nat \X Nat /\ <<m, n>>[1] = m /\ <<m, n>>[2] = n
    OBVIOUS
  <2> QED BY <1>2, <2>1 DEF Less
<1> QED BY <1>3

\* Min is the least element.
LEMMA MinFacts ==
  ASSUME NEW S \in SUBSET Nat, S # {}
  PROVE  Min(S) \in S /\ \A x \in S : Min(S) <= x
<1>1. \E n \in S : \A m \in S : n <= m
  BY LeastElement
<1> QED BY <1>1, Zenon DEF Min

\* Max is the greatest element of a set that has a bound.
LEMMA MaxFacts ==
  ASSUME NEW S \in SUBSET Nat, S # {}, NEW n \in Nat, \A x \in S : x <= n
  PROVE  Max(S) \in S /\ \A x \in S : Max(S) >= x
<1> DEFINE T == {n - x : x \in S}
<1>1. T \in SUBSET Nat /\ T # {}
  <2>1. \A x \in S : n - x \in Nat
    OBVIOUS
  <2> QED BY <2>1
<1>2. PICK t \in T : \A u \in T : t <= u
  <2> HIDE DEF T
  <2> QED BY <1>1, LeastElement
<1>3. PICK m \in S : t = n - m
  OBVIOUS
<1>4. \A x \in S : m >= x
  <2> TAKE x \in S
  <2>1. n - x \in T
    OBVIOUS
  <2>2. n - m <= n - x
    BY <1>2, <1>3, <2>1
  <2>3. m \in Nat /\ x \in Nat
    OBVIOUS
  <2> QED BY <2>2, <2>3
<1>5. \E m2 \in S : \A x \in S : m2 >= x
  BY <1>4
<1> QED BY <1>5, Zenon DEF Max

\* How many pages there are.
P == Cardinality(Pages)

\* There are pages, and finitely many.
LEMMA PagesCount == P \in Nat \ {0}
<1>1. Cardinality(Pages) \in Nat /\ Cardinality(Pages) # 0
  BY PagesAssumption, FS_CardinalityType, FS_EmptySet
<1> QED BY <1>1 DEF P

\* What is used of multiplication.
LEMMA Products ==
  ASSUME NEW p \in Nat
  PROVE  /\ \A a \in Nat : a * p \in Nat
         /\ \A a, b \in Nat : a <= b => a * p <= b * p
         /\ \A a \in Nat \ {0} : (a - 1) * p + p = a * p
OBVIOUS

\* Marks are consecutive numbers from 1.
LEMMA MarksFacts ==
  /\ Marks \subseteq Nat /\ 1 \in Marks /\ 0 \notin Marks /\ -1 \notin Marks
  /\ \E n \in Nat : \A i \in Marks : i <= n
<1>1. Marks = 1 .. Cardinality(Marks) /\ Marks # {}
  BY MarksAssumption
<1>2. PICK n \in Nat : n = Cardinality(Marks)
  BY MarksAssumption, FS_CardinalityType
<1>3. Marks = 1 .. n /\ n >= 1
  BY <1>1, <1>2
<1>4. \A i \in Marks : i <= n
  BY <1>3
<1> QED BY <1>3, <1>4

----------------------------------------------------------------------------
(* The invariant *)

\* What a connection may be doing.
Steps == {"closed", "idle", "lock", "confirm", "read", "write", "header", "log", "publish",
          "plan", "marks", "zero", "copy"}

\* The items of an iterator of a checkpoint, and the pages a writer has left.
Items == [page : Pages, frame : Nat]

Conn == [pc : Steps, hdr : Header, readLock : {-1, 0} \cup Marks, minFrame : Nat, slot : Nat,
         mark : 0 .. NotUsed, tx : Tx, pages : SUBSET Pages, left : SUBSET (Pages \cup Items),
         iFrame : 0 .. MaxFrame, mxSafeFrame : 0 .. MaxFrame]

Typed == TypeOK /\ conn \in [Conns -> Conn]

\* The log has room for the frames of all transactions; the wal-index speaks of
\* frames that are there, and of transactions that have begun.
LogOK ==
  /\ Len(log) <= txs * P
  /\ index.hdr.mxFrame <= Len(log)
  /\ index.hdr.change <= txs /\ index.hdr.salt <= txs /\ logSalt <= txs
  /\ \A c \in Conns : conn[c].hdr.salt <= txs

\* A reader that is to ignore the log has a header that is not newer than that of
\* the wal-index; if it is still the one there, all of the log has been copied.
IgnoresLog(c) == conn[c].readLock = 0 \/ (conn[c].pc = "lock" /\ conn[c].slot = 0)

ReaderOK(c) ==
  /\ conn[c].pc = "lock" => conn[c].slot \in {0} \cup Marks /\ conn[c].readLock = -1
  /\ conn[c].readLock # -1 <=> conn[c].pc \in InTransaction \cup {"confirm"}
  /\ slips = {} /\ IgnoresLog(c) =>
       /\ conn[c].hdr.change <= index.hdr.change
       /\ conn[c].hdr = index.hdr => index.nBackfill = index.hdr.mxFrame

\* A writer works on the latest header; the frames it has written and those it
\* has left are as many as it has pages.
WriterOK(c) ==
  /\ conn[c].pc \in Writing =>
       /\ conn[c].tx = txs /\ txs > 0
       /\ conn[c].pages # {} /\ conn[c].left \subseteq conn[c].pages
       /\ conn[c].hdr.mxFrame = index.hdr.mxFrame
       /\ conn[c].hdr.change = index.hdr.change
       /\ conn[c].hdr.salt \in {txs, index.hdr.salt}
       /\ index.hdr.mxFrame # 0 => conn[c].hdr.salt = index.hdr.salt
       /\ index.hdr.mxFrame <= (txs - 1) * P /\ index.hdr.change <= txs - 1
  /\ conn[c].pc = "write" => conn[c].hdr = index.hdr /\ index.hdr.salt < txs
  /\ conn[c].pc \in {"write", "header"} => conn[c].left = conn[c].pages
  /\ conn[c].pc = "header" => conn[c].hdr.mxFrame = 0 /\ conn[c].iFrame = 0
  /\ conn[c].pc \in {"log", "publish"} =>
       /\ conn[c].iFrame + Cardinality(conn[c].left)
            = index.hdr.mxFrame + Cardinality(conn[c].pages)
       /\ conn[c].iFrame <= Len(log)
  /\ conn[c].pc = "publish" => conn[c].left = {}

\* A checkpoint works on the log its header is of.
Copying == {"marks", "zero", "copy"}
CheckpointOK(c) ==
  /\ conn[c].pc \in Checkpointing /\ conn[c].hdr.salt = index.hdr.salt =>
       conn[c].hdr.mxFrame <= index.hdr.mxFrame
  /\ conn[c].pc \in Copying =>
       /\ slips = {} => conn[c].hdr.salt = index.hdr.salt /\ index.nBackfill < conn[c].hdr.mxFrame
       /\ conn[c].mxSafeFrame <= conn[c].hdr.mxFrame
       /\ \A w \in conn[c].left : w \in Items /\ w.frame \in 1 .. Len(log)
  /\ conn[c].pc = "marks" => conn[c].slot \in Marks

\* There is one writer, and one checkpoint; nobody but the writer has the salt of
\* its transaction before the wal-index has it.
Exclusive ==
  /\ \A c, d \in Conns : conn[c].pc \in Writing /\ conn[d].pc \in Writing => c = d
  /\ \A c, d \in Conns : conn[c].pc \in Checkpointing /\ conn[d].pc \in Checkpointing => c = d
  /\ \A c, d \in Conns : conn[c].pc \in Writing /\ c # d /\ conn[d].hdr.salt = txs =>
       index.hdr.salt = txs

IInv ==
  /\ Typed /\ LogOK /\ Exclusive
  /\ \A c \in Conns : ReaderOK(c) /\ WriterOK(c) /\ CheckpointOK(c)

----------------------------------------------------------------------------
(* What the operators return *)

\* The numbers that are used as bounds.
LEMMA Bounds ==
  /\ MaxFrame \in Nat /\ NotUsed \in Nat /\ MaxFrame < NotUsed
  /\ \A n \in Nat : n <= MaxTx => n * P <= MaxFrame
<1>1. P \in Nat /\ MaxTx \in Nat
  BY PagesCount, BoundAssumption
<1>2. MaxFrame = MaxTx * P
  BY DEF MaxFrame, P
<1> QED BY <1>1, <1>2, Products DEF NotUsed

\* A connection outside any transaction has the type of one.
LEMMA RestTyped ==
  ASSUME NEW pc \in {"idle", "closed"}
  PROVE  /\ Rest(pc) \in Conn /\ Rest(pc).hdr = NoHeader /\ Rest(pc).readLock = -1
         /\ Rest(pc).pc = pc /\ NoHeader \in Header
<1>1. NoHeader \in Header
  BY Bounds, BoundAssumption DEF NoHeader, Header, Tx
<1> QED BY <1>1, Bounds, BoundAssumption DEF Rest, Conn, Steps, Tx

\* A mark that is chosen is one of the marks, with a number that a mark can have.
LEMMA ChosenMarkTyped ==
  ASSUME NEW aReadMark \in [Marks -> 0 .. NotUsed], NEW mxFrame \in 0 .. MaxFrame,
         NEW m \in ChosenMark(aReadMark, mxFrame)
  PROVE  m.slot \in Marks /\ m.mark \in 0 .. NotUsed
<1> DEFINE usable == {i \in Marks : aReadMark[i] <= mxFrame}
           values == {aReadMark[i] : i \in usable}
           best == Max(values)
           free == {i \in Marks : ReadersOf(i) = {}}
           slots == {i \in usable : aReadMark[i] = best}
<1>1. mxFrame \in 0 .. NotUsed
  BY Bounds
<1>2. CASE (usable = {} \/ best < mxFrame) /\ free # {}
  <2>1. m = [slot |-> Min(free), mark |-> mxFrame]
    BY <1>2 DEF ChosenMark
  <2>2. free \in SUBSET Nat
    BY MarksFacts
  <2>3. Min(free) \in free
    <3> HIDE DEF free
    <3> QED BY <1>2, <2>2, MinFacts
  <2> QED BY <1>1, <2>1, <2>3
<1>3. CASE ~((usable = {} \/ best < mxFrame) /\ free # {}) /\ ~(usable = {} /\ free = {})
  <2>1. m = [slot |-> Max(slots), mark |-> best]
    BY <1>3 DEF ChosenMark
  <2>2. usable # {}
    BY <1>3
  <2>3. values \in SUBSET Nat /\ values # {} /\ \A x \in values : x <= mxFrame
    BY <2>2
  <2>4. best \in values
    <3> HIDE DEF values
    <3> QED BY <2>3, MaxFacts
  <2>5. slots # {} /\ slots \in SUBSET Marks
    BY <2>4
  <2>6. Max(slots) \in slots
    <3>1. PICK n \in Nat : \A i \in Marks : i <= n
      BY MarksFacts
    <3>2. slots \in SUBSET Nat /\ \A i \in slots : i <= n
      BY <2>5, <3>1, MarksFacts
    <3> HIDE DEF slots
    <3> QED BY <2>5, <3>2, MaxFacts
  <2>7. best \in 0 .. NotUsed
    <3> HIDE DEF best
    <3> QED BY <2>4
  <2> HIDE DEF slots, best
  <2>8. m.slot = Max(slots) /\ m.mark = best
    BY <2>1
  <2>9. slots \subseteq Marks
    BY <2>5
  <2> QED BY <2>6, <2>7, <2>8, <2>9
<1>4. CASE usable = {} /\ free = {}
  BY <1>4 DEF ChosenMark
<1> QED BY <1>2, <1>3, <1>4

\* The last commit is a frame of the log, or 0.
LEMMA LastCommitFacts ==
  ASSUME log \in Seq(Frame), NEW n \in Nat
  PROVE  /\ LastCommit(n) \in Nat /\ LastCommit(n) <= n /\ LastCommit(n) <= Len(log)
         /\ LastCommit(n) # 0 => log[LastCommit(n)] \in Frame
<1> DEFINE S == {0} \cup {f \in Commits : f <= n}
<1>1. \A f \in Commits : f \in 1 .. Len(log)
  BY DEF Commits, ValidFrames
<1>2. \A f \in Commits : f \in Nat /\ f <= Len(log) /\ log[f] \in Frame
  <2>1. Len(log) \in Nat /\ \A f \in 1 .. Len(log) : f \in Nat /\ f <= Len(log) /\ log[f] \in Frame
    OBVIOUS
  <2> QED BY <1>1, <2>1
<1>3. S \in SUBSET Nat /\ S # {} /\ \A x \in S : x <= n
  BY <1>2
<1>4. Max(S) \in S
  <2> HIDE DEF S
  <2> QED BY <1>3, MaxFacts
<1>5. LastCommit(n) \in S
  BY <1>4 DEF LastCommit
<1>6. LastCommit(n) = 0 \/ (LastCommit(n) \in Commits /\ LastCommit(n) <= n)
  BY <1>5
<1> QED BY <1>2, <1>6

\* An overlay of the log is an image.
LEMMA OverlayTyped ==
  ASSUME log \in Seq(Frame), NEW image \in [Pages -> Tx], NEW lo \in Nat, NEW hi \in Nat
  PROVE  Overlay(image, lo, hi) \in [Pages -> Tx]
<1> SUFFICES ASSUME NEW p \in Pages
             PROVE  LET frames == {f \in lo .. hi \cap DOMAIN log : log[f].page = p}
                    IN  (IF frames = {} THEN image[p] ELSE log[Max(frames)].tx) \in Tx
  BY DEF Overlay
<1> DEFINE frames == {f \in lo .. hi \cap DOMAIN log : log[f].page = p}
<1>1. CASE frames # {}
  <2>1. frames \in SUBSET Nat /\ \A f \in frames : f <= hi
    OBVIOUS
  <2>2. Max(frames) \in frames
    <3> HIDE DEF frames
    <3> QED BY <1>1, <2>1, MaxFacts
  <2>3. log[Max(frames)] \in Frame
    <3>1. \A f \in frames : log[f] \in Frame
      OBVIOUS
    <3> HIDE DEF frames
    <3> QED BY <2>2, <3>1
  <2> QED BY <1>1, <2>3 DEF Frame
<1> QED BY <1>1

\* Initially the log is empty and all connections are closed.
LEMMA InitInvariant == Init => IInv
<1> SUFFICES ASSUME Init  PROVE IInv
  OBVIOUS
<1>1. 0 \in Tx /\ MaxFrame \in Nat /\ NotUsed \in Nat /\ P \in Nat
  BY BoundAssumption, Bounds, PagesCount DEF Tx
<1>2. Rest("closed") \in Conn /\ NoHeader \in Header
  BY RestTyped
<1>3. Typed
  <2>1. index = NoIndex /\ log = <<>> /\ \A c \in Conns : conn[c] = Rest("closed")
    BY DEF Init
  <2>2. /\ index \in [state : {"lost", "torn", "ok"}, hdr : Header,
                      nBackfill : 0 .. MaxFrame, aReadMark : [Marks -> 0 .. NotUsed]]
    BY <1>1, <1>2, <2>1 DEF NoIndex, NoHeader
  <2>3. conn \in [Conns -> Conn]
    BY <1>2 DEF Init
  <2>4. \A c \in Conns : /\ conn[c].hdr \in Header
                         /\ conn[c].readLock \in {-1, 0} \cup Marks
                         /\ conn[c].pc \in InTransaction => conn[c].readLock # -1
    BY <1>2, <2>1 DEF Rest, InTransaction
  <2>5. slips = {} /\ index.nBackfill <= index.hdr.mxFrame
    BY <2>1 DEF Init, NoIndex, NoHeader
  <2> QED BY <1>1, <2>1, <2>2, <2>3, <2>4, <2>5 DEF Init, Typed, TypeOK
<1>4. LogOK
  BY <1>1 DEF Init, LogOK, NoIndex, NoHeader, Rest
<1>5. Exclusive
  BY DEF Init, Exclusive, Rest, Writing, Checkpointing
<1>6. \A c \in Conns : ReaderOK(c) /\ WriterOK(c) /\ CheckpointOK(c)
  BY DEF Init, ReaderOK, WriterOK, CheckpointOK, IgnoresLog, InTransaction, Writing,
         Checkpointing, Copying, Rest, NoIndex, NoHeader
<1> QED BY <1>3, <1>4, <1>5, <1>6 DEF IInv

----------------------------------------------------------------------------
(* Steps that leave the header of the wal-index and nBackfill *)

\* What the types say of the files.
FilesOK ==
  /\ db \in [Pages -> Tx]
  /\ unsynced \in [Pages -> SUBSET Tx] /\ \A p \in Pages : db[p] \in unsynced[p]
  /\ log \in Seq(Frame) /\ synced \in 0 .. Len(log)
  /\ logSalt \in Tx /\ txs \in Tx
  /\ Len(log) <= txs * P /\ logSalt <= txs

\* What the types say of the wal-index.
IndexOK ==
  /\ index \in [state : {"lost", "torn", "ok"}, hdr : Header, nBackfill : 0 .. MaxFrame,
                aReadMark : [Marks -> 0 .. NotUsed]]
  /\ slips \in SUBSET {"overrun", "recovery"}
  /\ slips = {} => index.nBackfill <= index.hdr.mxFrame

\* What the invariant says of one connection.
ConnOK(c) ==
  ReaderOK(c) /\ WriterOK(c) /\ CheckpointOK(c) /\ conn[c].hdr.salt <= txs

\* The invariant, of the files, of the wal-index and of each connection.
Whole ==
  /\ FilesOK /\ IndexOK /\ Exclusive
  /\ conn \in [Conns -> Conn] /\ \A c \in Conns : ConnOK(c)
  /\ index.hdr.mxFrame <= Len(log)
  /\ index.hdr.change <= txs /\ index.hdr.salt <= txs

\* The invariant can be read in this way.
LEMMA Parts == IInv <=> Whole
<1>1. ASSUME FilesOK  PROVE Len(log) <= MaxFrame
  <2>1. txs * P <= MaxFrame
    BY <1>1, Bounds, BoundAssumption DEF FilesOK, Tx
  <2>2. txs * P \in Nat /\ MaxFrame \in Nat /\ Len(log) \in Nat
    BY <1>1, Bounds, PagesCount, Products, BoundAssumption DEF FilesOK, Tx
  <2> QED BY <1>1, <2>1, <2>2 DEF FilesOK
<1>2. ASSUME conn \in [Conns -> Conn], NEW c \in Conns, ConnOK(c)
      PROVE  /\ conn[c].hdr \in Header
             /\ conn[c].readLock \in {-1, 0} \cup Marks
             /\ conn[c].pc \in InTransaction => conn[c].readLock # -1
  <2>1. conn[c] \in Conn
    BY <1>2
  <2> QED BY <1>2, <2>1 DEF Conn, ConnOK, ReaderOK
<1>3. ASSUME IInv
      PROVE  /\ FilesOK /\ IndexOK /\ Exclusive
             /\ conn \in [Conns -> Conn] /\ \A c \in Conns : ConnOK(c)
             /\ index.hdr.mxFrame <= Len(log)
             /\ index.hdr.change <= txs /\ index.hdr.salt <= txs
  BY <1>3 DEF IInv, Typed, TypeOK, LogOK, FilesOK, IndexOK, ConnOK
<1>4. ASSUME FilesOK, IndexOK, Exclusive,
             conn \in [Conns -> Conn], \A c \in Conns : ConnOK(c),
             index.hdr.mxFrame <= Len(log),
             index.hdr.change <= txs, index.hdr.salt <= txs
      PROVE  IInv
  <2>1. TypeOK
    BY <1>1, <1>2, <1>4 DEF TypeOK, FilesOK, IndexOK
  <2>2. LogOK
    BY <1>4 DEF LogOK, FilesOK, ConnOK
  <2> QED BY <1>4, <2>1, <2>2 DEF IInv, Typed, ConnOK
<1> QED BY <1>3, <1>4 DEF Whole

\* And so can it after a step.
LEMMA NextParts == IInv' <=> Whole'
BY Parts, PTL

\* Only c takes a step; the header of the wal-index, nBackfill and the number of
\* the last transaction stay.
Alone(c) ==
  /\ conn' \in [Conns -> Conn]
  /\ \A d \in Conns \ {c} : conn'[d] = conn[d]
  /\ index'.hdr = index.hdr /\ index'.nBackfill = index.nBackfill
  /\ txs' = txs /\ slips \subseteq slips'
  /\ Len(log') >= Len(log)

\* What c's new state must be compared with.
Fits(c) ==
  /\ conn'[c].pc \in Writing => \A d \in Conns \ {c} : conn[d].pc \notin Writing
  /\ conn'[c].pc \in Checkpointing => \A d \in Conns \ {c} : conn[d].pc \notin Checkpointing
  /\ \A d \in Conns \ {c} :
       /\ conn'[c].pc \in Writing /\ conn[d].hdr.salt = txs => index.hdr.salt = txs
       /\ conn[d].pc \in Writing /\ conn'[c].hdr.salt = txs => index.hdr.salt = txs

\* Such a step keeps the invariant if the new state of c, of the files and of
\* the marks is right.
LEMMA AloneKeeps ==
  ASSUME IInv, NEW c \in Conns, Alone(c), Fits(c), FilesOK', IndexOK', ConnOK(c)'
  PROVE  IInv'
<1>1. /\ FilesOK /\ IndexOK /\ Exclusive
      /\ conn \in [Conns -> Conn] /\ \A d \in Conns : ConnOK(d)
      /\ index.hdr.mxFrame <= Len(log)
      /\ index.hdr.change <= txs /\ index.hdr.salt <= txs
  BY Parts DEF Whole
<1>2. Len(log) \in Nat /\ Len(log') \in Nat /\ index.hdr.mxFrame \in Nat
  BY <1>1, Bounds DEF FilesOK, IndexOK, Header
<1>3. ASSUME NEW d \in Conns \ {c}  PROVE ConnOK(d)'
  <2>1. conn'[d] = conn[d] /\ ConnOK(d)
    BY <1>1, <1>3 DEF Alone
  <2>2. ReaderOK(d)'
    BY <2>1 DEF Alone, ConnOK, ReaderOK, IgnoresLog
  <2>3. WriterOK(d)'
    <3>1. conn[d].pc \in {"log", "publish"} => conn[d].iFrame <= Len(log')
      <4>1. conn[d].iFrame \in Nat
        BY <1>1, Bounds DEF Conn
      <4> QED BY <1>2, <2>1, <4>1 DEF Alone, ConnOK, WriterOK
    <3> QED BY <2>1, <3>1 DEF Alone, ConnOK, WriterOK
  <2>4. CheckpointOK(d)'
    <3>1. ASSUME NEW n \in 1 .. Len(log)  PROVE n \in 1 .. Len(log')
      BY <1>2 DEF Alone
    <3> QED BY <2>1, <3>1 DEF Alone, ConnOK, CheckpointOK
  <2> QED BY <2>1, <2>2, <2>3, <2>4 DEF ConnOK, Alone
<1>4. \A d \in Conns : ConnOK(d)'
  BY <1>3
<1>5. Exclusive'
  BY <1>1 DEF Exclusive, Alone, Fits
<1>6. /\ index'.hdr.mxFrame <= Len(log')
      /\ index'.hdr.change <= txs' /\ index'.hdr.salt <= txs'
  BY <1>1, <1>2 DEF Alone
<1>7. conn' \in [Conns -> Conn]
  BY DEF Alone
<1> QED BY <1>4, <1>5, <1>6, <1>7, NextParts DEF Whole

\* A connection that leaves its transaction, or the database, keeps the invariant.
LEMMA LeavingKeeps ==
  ASSUME IInv, NEW c \in Conns, NEW pc \in {"idle", "closed"},
         conn' = [conn EXCEPT ![c] = Rest(pc)], txs' = txs /\ slips' = slips,
         index'.hdr = index.hdr, index'.nBackfill = index.nBackfill,
         Len(log') >= Len(log), FilesOK', IndexOK'
  PROVE  IInv'
<1>1. /\ conn \in [Conns -> Conn] /\ \A d \in Conns : ConnOK(d)
      /\ FilesOK
  BY Parts DEF Whole
<1>2. /\ conn'[c] = Rest(pc) /\ \A d \in Conns \ {c} : conn'[d] = conn[d]
      /\ conn' \in [Conns -> Conn]
  BY <1>1, RestTyped
<1>3. Alone(c)
  BY <1>2 DEF Alone
<1>4. /\ conn'[c].pc \in {"idle", "closed"} /\ conn'[c].readLock = -1 /\ conn'[c].hdr.salt = 0
  BY <1>2, RestTyped DEF NoHeader
<1>5. Fits(c)
  BY <1>1, <1>4 DEF Fits, Writing, Checkpointing, ConnOK, WriterOK
<1>6. ConnOK(c)'
  <2>1. conn'[c].hdr.salt <= txs'
    BY <1>1, <1>4, BoundAssumption DEF FilesOK, Tx
  <2> QED BY <1>4, <2>1 DEF ConnOK, ReaderOK, WriterOK, CheckpointOK, IgnoresLog,
                            InTransaction, Writing, Checkpointing, Copying
<1> QED BY <1>3, <1>5, <1>6, AloneKeeps

\* Nobody is in a transaction or a checkpoint: only the files and the wal-index
\* matter.
Resting(r) ==
  /\ r.pc \in {"idle", "closed", "lock"} /\ r.readLock = -1
  /\ r.pc = "lock" => r.slot \in {0} \cup Marks

LEMMA RestingKeeps ==
  ASSUME FilesOK', IndexOK', conn' \in [Conns -> Conn],
         \A d \in Conns : /\ Resting(conn'[d])
                          /\ conn'[d].hdr.salt <= txs'
                          /\ slips' = {} /\ conn'[d].pc = "lock" => conn'[d].slot # 0,
         index'.hdr.mxFrame <= Len(log'), index'.hdr.change <= txs', index'.hdr.salt <= txs'
  PROVE  IInv'
<1>1. \A d \in Conns : ConnOK(d)'
  BY MarksFacts DEF Resting, ConnOK, ReaderOK, WriterOK, CheckpointOK, IgnoresLog, InTransaction,
                    Writing, Checkpointing, Copying
<1>2. Exclusive'
  BY DEF Resting, Exclusive, Writing, Checkpointing
<1> QED BY <1>1, <1>2, NextParts DEF Whole

----------------------------------------------------------------------------
(* Opening, recovery, closing, failures *)

\* The types of the parts of the wal-index.
LEMMA IndexTypes ==
  ASSUME IndexOK
  PROVE  /\ index.hdr \in Header /\ index.nBackfill \in 0 .. MaxFrame
         /\ index.hdr.mxFrame \in 0 .. MaxFrame
         /\ index.aReadMark \in [Marks -> 0 .. NotUsed]
         /\ index.state \in {"lost", "torn", "ok"}
BY DEF IndexOK, Header

\* The first connection clears the wal-index; the others leave it.
LEMMA OpenKeeps == ASSUME IInv, NEW c \in Conns, Open(c)  PROVE IInv'
<1>1. Whole
  BY Parts
<1>2. FilesOK'
  BY <1>1 DEF Whole, FilesOK, Open, files
<1>3. conn' = [conn EXCEPT ![c] = Rest("idle")]
  BY DEF Open
<1>4. CASE \A d \in Conns : conn[d].pc = "closed"
  <2>1. index' = NoIndex
    BY <1>4 DEF Open
  <2>2. IndexOK' /\ index'.hdr = NoHeader
    BY <1>1, <2>1, RestTyped, Bounds DEF Open, Whole, IndexOK, NoIndex, NoHeader
  <2>3. /\ conn' \in [Conns -> Conn]
        /\ \A d \in Conns : conn'[d] = IF d = c THEN Rest("idle") ELSE conn[d]
    BY <1>1, <1>3, RestTyped DEF Whole
  <2>4. txs \in Nat /\ txs' = txs /\ slips' = slips /\ log' = log /\ Len(log) \in Nat
    BY <1>1, BoundAssumption DEF Whole, FilesOK, Open, files, Tx
  <2>5. ASSUME NEW d \in Conns
        PROVE  /\ Resting(conn'[d])
               /\ conn'[d].hdr.salt <= txs'
               /\ conn'[d].pc # "lock"
    <3>1. CASE d = c
      BY <2>3, <2>4, <3>1, RestTyped DEF NoHeader, Resting
    <3>2. CASE d # c
      <4>1. conn'[d] = conn[d] /\ conn[d].pc = "closed" /\ ConnOK(d)
        BY <1>1, <1>4, <2>3, <3>2 DEF Whole
      <4> QED BY <2>4, <4>1 DEF ConnOK, ReaderOK, InTransaction, Resting
    <3> QED BY <3>1, <3>2
  <2>6. index'.hdr.mxFrame <= Len(log') /\ index'.hdr.change <= txs' /\ index'.hdr.salt <= txs'
    BY <2>2, <2>4 DEF NoHeader
  <2> QED BY <1>2, <2>2, <2>3, <2>5, <2>6, RestingKeeps
<1>5. CASE ~(\A d \in Conns : conn[d].pc = "closed")
  <2>1. index' = index /\ txs' = txs /\ slips' = slips /\ log' = log
    BY <1>5 DEF Open, files
  <2>2. IndexOK' /\ Len(log') >= Len(log)
    BY <1>1, <2>1 DEF Whole, IndexOK, FilesOK
  <2> QED BY <1>2, <1>3, <2>1, <2>2, LeavingKeeps
<1> QED BY <1>4, <1>5

\* Recovery finds all connections at rest: one that is between its look at the
\* header and its lock is to take a mark, or the recovery slips.
LEMMA RecoverKeeps == ASSUME IInv, NEW c \in Conns, Recover(c)  PROVE IInv'
<1>1. Whole
  BY Parts
<1>2. /\ FilesOK' /\ conn' = conn /\ txs' = txs /\ log' = log
  BY <1>1 DEF Whole, FilesOK, Recover, files
<1>3. PICK last : last = LastCommit(Len(log))
  OBVIOUS
<1>4. /\ log \in Seq(Frame) /\ Len(log) \in Nat /\ Len(log) <= MaxFrame /\ txs \in Nat
      /\ logSalt \in Tx /\ logSalt <= txs
  BY <1>1, BoundAssumption DEF Whole, FilesOK, Tx, IInv, Typed, TypeOK
<1>5. /\ last \in Nat /\ last <= Len(log)
      /\ last # 0 => log[last] \in Frame
  BY <1>3, <1>4, LastCommitFacts
<1>6. PICK salt, tx : /\ salt = (IF log = <<>> THEN 0 ELSE logSalt)
                      /\ tx = (IF last = 0 THEN 0 ELSE log[last].tx)
  OBVIOUS
<1>7. salt \in Tx /\ tx \in Tx /\ 0 \in Tx /\ salt <= txs /\ last \in 0 .. MaxFrame
      /\ last \in 0 .. NotUsed /\ NotUsed \in 0 .. NotUsed
  BY <1>4, <1>5, <1>6, Bounds, BoundAssumption DEF Frame, Tx
<1>8. index' = [state |-> "ok",
                hdr |-> [mxFrame |-> last, change |-> 0, salt |-> salt, last |-> tx],
                nBackfill |-> 0,
                aReadMark |-> [i \in Marks |-> IF i = 1 /\ last # 0 THEN last ELSE NotUsed]]
  BY <1>3, <1>6 DEF Recover
<1>9. index'.hdr \in Header /\ index'.aReadMark \in [Marks -> 0 .. NotUsed]
  BY <1>7, <1>8 DEF Header
<1>10. IndexOK'
  <2>1. slips' \in SUBSET {"overrun", "recovery"}
    BY <1>1 DEF Recover, Whole, IndexOK
  <2> QED BY <1>5, <1>8, <1>9, <2>1, Bounds DEF IndexOK
<1>11. ASSUME NEW d \in Conns
       PROVE  /\ Resting(conn'[d])
              /\ conn'[d].hdr.salt <= txs'
              /\ slips' = {} /\ conn'[d].pc = "lock" => conn'[d].slot # 0
  <2>1. conn'[d] = conn[d] /\ conn[d] \in Conn /\ ConnOK(d)
    BY <1>1, <1>2 DEF Whole
  <2>2. /\ conn[d].readLock = -1 /\ (slips' = {} /\ conn[d].pc = "lock" => conn[d].slot # 0)
        /\ conn[d].pc \notin Writing
        /\ d = c => conn[d].pc = "idle"
        /\ d # c => conn[d].pc \notin Checkpointing
    BY DEF Recover, WriteLockFree, CkptLockFree
  <2>3. conn[d].pc \notin InTransaction \cup {"confirm"}
    BY <2>1, <2>2 DEF ConnOK, ReaderOK
  <2>4. conn[d].pc \in Steps
    BY <2>1 DEF Conn
  <2>5. conn[d].pc \in {"idle", "closed", "lock"}
    BY <2>2, <2>3, <2>4 DEF Steps, InTransaction, Checkpointing
  <2>6. conn[d].pc = "lock" => conn[d].slot \in {0} \cup Marks
    BY <2>1 DEF ConnOK, ReaderOK
  <2> QED BY <1>2, <2>1, <2>2, <2>5, <2>6 DEF ConnOK, Resting
<1>12. /\ index'.hdr.mxFrame <= Len(log') /\ index'.hdr.change <= txs' /\ index'.hdr.salt <= txs'
       /\ conn' \in [Conns -> Conn]
  BY <1>1, <1>2, <1>4, <1>5, <1>7, <1>8 DEF Whole
<1> QED BY <1>2, <1>10, <1>11, <1>12, RestingKeeps

\* The last connection leaves nothing but the database.
LEMMA CloseLastKeeps == ASSUME IInv, NEW c \in Conns, CloseLast(c)  PROVE IInv'
<1>1. Whole
  BY Parts
<1>2. /\ log \in Seq(Frame) /\ db \in [Pages -> Tx] /\ txs \in Tx /\ txs \in Nat /\ txs' = txs
      /\ slips' = slips /\ 0 \in Tx
  BY <1>1, BoundAssumption DEF Whole, FilesOK, CloseLast, Tx
<1>3. index.nBackfill + 1 \in Nat /\ index.hdr.mxFrame \in Nat
  BY <1>1, IndexTypes, Bounds DEF Whole
<1>4. PICK image : image = Latest
  OBVIOUS
<1>5. image = Overlay(db, index.nBackfill + 1, index.hdr.mxFrame)
  BY <1>4 DEF Latest, CloseLast
<1>6. image \in [Pages -> Tx]
  BY <1>2, <1>3, <1>5, OverlayTyped
<1>7. /\ db' = image /\ unsynced' = [p \in Pages |-> {image[p]}]
      /\ log' = <<>> /\ logSalt' = 0 /\ synced' = 0
      /\ index' = NoIndex /\ conn' = [conn EXCEPT ![c] = Rest("closed")]
  BY <1>4 DEF CloseLast
<1>8. FilesOK'
  <2>1. txs * P \in Nat
    BY <1>2, PagesCount, Products
  <2>2. Len(log') = 0 /\ log' \in Seq(Frame)
    BY <1>7
  <2>3. /\ db' \in [Pages -> Tx] /\ unsynced' \in [Pages -> SUBSET Tx]
        /\ \A p \in Pages : db'[p] \in unsynced'[p]
    BY <1>6, <1>7
  <2>4. synced' \in 0 .. Len(log') /\ logSalt' \in Tx /\ txs' \in Tx /\ logSalt' <= txs'
    BY <1>2, <1>7, <2>2
  <2>5. Len(log') <= txs' * P
    BY <1>2, <2>1, <2>2
  <2> QED BY <2>2, <2>3, <2>4, <2>5 DEF FilesOK, P
<1>9. IndexOK' /\ index'.hdr = NoHeader
  BY <1>1, <1>2, <1>7, RestTyped, Bounds DEF Whole, IndexOK, NoIndex, NoHeader
<1>10. /\ conn' \in [Conns -> Conn]
       /\ \A d \in Conns : conn'[d] = IF d = c THEN Rest("closed") ELSE conn[d]
  BY <1>1, <1>7, RestTyped DEF Whole
<1>11. ASSUME NEW d \in Conns
       PROVE  /\ Resting(conn'[d])
              /\ conn'[d].hdr.salt <= txs'
              /\ conn'[d].pc # "lock"
  <2>1. CASE d = c
    BY <1>2, <1>10, <2>1, RestTyped DEF NoHeader, Resting
  <2>2. CASE d # c
    <3>1. conn'[d] = conn[d] /\ conn[d].pc = "closed" /\ ConnOK(d)
      BY <1>1, <1>10, <2>2 DEF Whole, CloseLast
    <3> QED BY <1>2, <3>1 DEF ConnOK, ReaderOK, InTransaction, Resting
  <2> QED BY <2>1, <2>2
<1>12. index'.hdr.mxFrame <= Len(log') /\ index'.hdr.change <= txs' /\ index'.hdr.salt <= txs'
  BY <1>2, <1>7, <1>9 DEF NoHeader
<1> QED BY <1>8, <1>9, <1>10, <1>11, <1>12, RestingKeeps

\* A crash leaves the header or tears it.
LEMMA CrashKeeps == ASSUME IInv, NEW c \in Conns, Crash(c)  PROVE IInv'
<1>1. Whole
  BY Parts
<1>2. FilesOK' /\ txs' = txs /\ slips' = slips /\ Len(log') >= Len(log)
  BY <1>1 DEF Whole, FilesOK, Crash, files
<1>3. conn' = [conn EXCEPT ![c] = Rest("closed")]
  BY DEF Crash
<1>4. index' = index \/ index' = [index EXCEPT !.state = "torn"]
  BY DEF Crash
<1>5. IndexOK' /\ index'.hdr = index.hdr /\ index'.nBackfill = index.nBackfill
  BY <1>1, <1>2, <1>4 DEF Whole, IndexOK
<1> QED BY <1>2, <1>3, <1>5, LeavingKeeps

\* A power failure leaves part of the log, and no wal-index.
LEMMA PowerFailKeeps == ASSUME IInv, PowerFail  PROVE IInv'
<1>1. Whole
  BY Parts
<1>2. /\ log \in Seq(Frame) /\ synced \in 0 .. Len(log) /\ txs \in Tx /\ txs \in Nat /\ txs' = txs
      /\ slips' = slips /\ logSalt \in Tx /\ logSalt <= txs /\ logSalt' = logSalt
      /\ unsynced \in [Pages -> SUBSET Tx] /\ Len(log) <= txs * P /\ Len(log) \in Nat
  BY <1>1, BoundAssumption DEF Whole, FilesOK, PowerFail, Tx
<1>3. PICK n \in synced .. Len(log) : log' = SubSeq(log, 1, n) /\ synced' = n
  BY DEF PowerFail
<1>4. n \in 0 .. Len(log)
  BY <1>2, <1>3
<1>5. log' \in Seq(Frame) /\ Len(log') = n
  <2>1. \A i \in 1 .. n : log[i] \in Frame
    BY <1>2, <1>4
  <2> QED BY <1>2, <1>3, <1>4, <2>1
<1>6. PICK image \in Images(unsynced) : db' = image /\ unsynced' = [p \in Pages |-> {image[p]}]
  BY DEF PowerFail
<1>7. image \in [Pages -> Tx]
  BY DEF Images
<1>8. FilesOK'
  <2>1. txs * P \in Nat
    BY <1>2, PagesCount, Products
  <2>2. /\ db' \in [Pages -> Tx] /\ unsynced' \in [Pages -> SUBSET Tx]
        /\ \A p \in Pages : db'[p] \in unsynced'[p]
    BY <1>6, <1>7
  <2>3. Len(log') <= txs' * P
    BY <1>2, <1>4, <1>5, <2>1
  <2>4. synced' \in 0 .. Len(log')
    BY <1>3, <1>4, <1>5
  <2> QED BY <1>2, <1>5, <2>2, <2>3, <2>4 DEF FilesOK, P
<1>9. IndexOK' /\ index'.hdr = NoHeader
  BY <1>1, <1>2, RestTyped, Bounds DEF PowerFail, Whole, IndexOK, NoIndex, NoHeader
<1>10. conn' \in [Conns -> Conn] /\ \A d \in Conns : conn'[d] = Rest("closed")
  BY RestTyped DEF PowerFail
<1>11. \A d \in Conns : /\ Resting(conn'[d])
                        /\ conn'[d].hdr.salt <= txs'
                        /\ conn'[d].pc # "lock"
  BY <1>2, <1>10, RestTyped DEF NoHeader, Resting
<1>12. index'.hdr.mxFrame <= Len(log') /\ index'.hdr.change <= txs' /\ index'.hdr.salt <= txs'
  BY <1>2, <1>4, <1>5, <1>9 DEF NoHeader
<1> QED BY <1>8, <1>9, <1>10, <1>11, <1>12, RestingKeeps

----------------------------------------------------------------------------
(* Readers *)

\* A reader waits for its lock: what the invariant asks of it, and nothing else.
LEMMA WaitingKeeps ==
  ASSUME IInv, NEW c \in Conns, NEW hdr \in Header, NEW slot \in {0} \cup Marks,
         NEW mark \in 0 .. NotUsed,
         conn' = [conn EXCEPT ![c].pc = "lock", ![c].hdr = hdr, ![c].slot = slot,
                              ![c].mark = mark],
         conn[c].readLock = -1, conn[c].pc \in {"idle", "lock"},
         hdr = index.hdr \/ (hdr = conn[c].hdr /\ conn[c].pc = "lock"),
         slot = 0 => hdr = index.hdr /\ index.nBackfill = index.hdr.mxFrame,
         index'.hdr = index.hdr, index'.nBackfill = index.nBackfill, txs' = txs /\ slips' = slips, log' = log,
         FilesOK', IndexOK'
  PROVE  IInv'
<1>1. Whole
  BY Parts
<1>2. /\ conn' \in [Conns -> Conn] /\ \A d \in Conns \ {c} : conn'[d] = conn[d]
      /\ conn'[c].pc = "lock" /\ conn'[c].hdr = hdr /\ conn'[c].slot = slot
      /\ conn'[c].readLock = conn[c].readLock
  <2>1. slot \in Nat /\ conn \in [Conns -> Conn] /\ conn[c] \in Conn
    BY <1>1, MarksFacts DEF Whole
  <2>2. /\ conn'[c] = [conn[c] EXCEPT !.pc = "lock", !.hdr = hdr, !.slot = slot, !.mark = mark]
        /\ \A d \in Conns \ {c} : conn'[d] = conn[d]
        /\ conn' = [d \in Conns |-> conn'[d]]
    BY <2>1
  <2>3. PICK r : r = [conn[c] EXCEPT !.pc = "lock", !.hdr = hdr, !.slot = slot, !.mark = mark]
    OBVIOUS
  <2>4. /\ r \in Conn /\ r.pc = "lock" /\ r.hdr = hdr /\ r.slot = slot
        /\ r.readLock = conn[c].readLock
    BY <2>1, <2>3 DEF Conn, Steps
  <2>5. conn'[c] = r
    BY <2>2, <2>3
  <2>6. \A d \in Conns : conn'[d] \in Conn
    BY <2>1, <2>2, <2>4, <2>5
  <2>7. conn' \in [Conns -> Conn]
    BY <2>2, <2>6, Zenon
  <2> QED BY <2>2, <2>4, <2>5, <2>7
<1>6. Alone(c)
  <2>1. Len(log') >= Len(log)
    BY <1>1 DEF Whole, FilesOK
  <2> QED BY <1>2, <2>1 DEF Alone
<1>7. /\ conn'[c].pc = "lock" /\ conn'[c].hdr = hdr /\ conn'[c].slot = slot
      /\ conn'[c].readLock = -1
  BY <1>2
<1>8. Fits(c)
  <2>1. ASSUME NEW d \in Conns \ {c}, conn[d].pc \in Writing, hdr.salt = txs
        PROVE  index.hdr.salt = txs
    <3>1. CASE hdr = index.hdr
      BY <2>1, <3>1
    <3>2. CASE hdr = conn[c].hdr
      BY <1>1, <2>1, <3>2 DEF Whole, Exclusive
    <3> QED BY <3>1, <3>2
  <2> QED BY <1>7, <2>1 DEF Fits, Writing, Checkpointing
<1>9. ConnOK(c)'
  <2>1. slot = 0 => hdr.change <= index.hdr.change
    BY <1>1, BoundAssumption, IndexTypes DEF Whole, Header, Tx
  <2>2. hdr.salt <= txs
    BY <1>1 DEF Whole, ConnOK
  <2>3. IgnoresLog(c)' /\ conn'[c].hdr = index'.hdr => index'.nBackfill = index'.hdr.mxFrame
    BY <1>7 DEF IgnoresLog
  <2>4. IgnoresLog(c)' => conn'[c].hdr.change <= index'.hdr.change
    BY <1>7, <2>1 DEF IgnoresLog
  <2> QED BY <1>7, <2>2, <2>3, <2>4
        DEF ConnOK, ReaderOK, WriterOK, CheckpointOK, InTransaction, Writing,
            Checkpointing, Copying
<1> QED BY <1>6, <1>8, <1>9, AloneKeeps

\* A mark that is set keeps the types of the wal-index.
LEMMA MarkSet ==
  ASSUME IndexOK, NEW slot \in Marks, NEW mark \in 0 .. NotUsed,
         index' = [index EXCEPT !.aReadMark[slot] = mark], slips' = slips
  PROVE  IndexOK' /\ index'.hdr = index.hdr /\ index'.nBackfill = index.nBackfill
<1>1. index'.aReadMark = [index.aReadMark EXCEPT ![slot] = mark]
  BY IndexTypes DEF IndexOK
<1>2. index'.aReadMark \in [Marks -> 0 .. NotUsed]
  BY <1>1, IndexTypes
<1> QED BY <1>2 DEF IndexOK

\* A mark is chosen for a header.
LEMMA ChooseMarkKeeps ==
  ASSUME IInv, NEW c \in Conns, NEW hdr \in Header, ChooseMark(c, hdr),
         conn[c].readLock = -1, conn[c].pc \in {"idle", "lock"},
         hdr = index.hdr \/ (hdr = conn[c].hdr /\ conn[c].pc = "lock"),
         UNCHANGED <<files, txs, slips>>
  PROVE  IInv'
<1>1. Whole
  BY Parts
<1>2. FilesOK' /\ txs' = txs /\ slips' = slips /\ log' = log /\ Len(log') >= Len(log)
  BY <1>1 DEF Whole, FilesOK, files
<1>3. CASE Retry(c) /\ UNCHANGED index
  <2>1. conn' = [conn EXCEPT ![c] = Rest("idle")]
    BY <1>3 DEF Retry
  <2>2. IndexOK' /\ index'.hdr = index.hdr /\ index'.nBackfill = index.nBackfill
    BY <1>1, <1>3 DEF Whole, IndexOK
  <2> QED BY <1>2, <2>1, <2>2, LeavingKeeps
<1>4. ASSUME NEW m \in ChosenMark(index.aReadMark, hdr.mxFrame),
             conn' = [conn EXCEPT ![c].pc = "lock", ![c].hdr = hdr,
                                  ![c].slot = m.slot, ![c].mark = m.mark],
             index' = [index EXCEPT !.aReadMark[m.slot] = m.mark]
      PROVE  IInv'
  <2>1. index.aReadMark \in [Marks -> 0 .. NotUsed] /\ hdr.mxFrame \in 0 .. MaxFrame
    BY <1>1, IndexTypes DEF Whole, Header
  <2>2. m.slot \in Marks /\ m.mark \in 0 .. NotUsed
    BY <2>1, ChosenMarkTyped
  <2>3. IndexOK' /\ index'.hdr = index.hdr /\ index'.nBackfill = index.nBackfill
    BY <1>1, <1>4, <2>2, MarkSet DEF Whole
  <2>4. m.slot \in {0} \cup Marks /\ m.slot # 0
    BY <2>2, MarksFacts
  <2> QED BY <1>2, <1>4, <2>2, <2>3, <2>4, WaitingKeeps
<1> QED BY <1>3, <1>4 DEF ChooseMark

\* A connection at rest has no lock.
LEMMA IdleFacts ==
  ASSUME IInv, NEW c \in Conns, conn[c].pc \in {"idle", "closed", "lock"} \cup Checkpointing
  PROVE  conn[c].readLock = -1
BY Parts DEF Whole, ConnOK, ReaderOK, InTransaction, Checkpointing

\* A reader reads the header and chooses a mark.
LEMMA ChooseKeeps == ASSUME IInv, NEW c \in Conns, Choose(c)  PROVE IInv'
<1>1. Whole
  BY Parts
<1>2. conn[c].pc = "idle" /\ conn[c].readLock = -1 /\ index.hdr \in Header
  BY <1>1, IdleFacts, IndexTypes DEF Whole, Choose
<1>3. CASE index.nBackfill = index.hdr.mxFrame
  <2>1. /\ conn' = [conn EXCEPT ![c].pc = "lock", ![c].hdr = index.hdr, ![c].slot = 0]
        /\ index' = index /\ txs' = txs /\ slips' = slips /\ log' = log
    BY <1>3 DEF Choose, files
  <2>2. conn[c] \in Conn /\ conn[c].mark \in 0 .. NotUsed
    BY <1>1 DEF Whole, Conn
  <2>3. conn' = [conn EXCEPT ![c].pc = "lock", ![c].hdr = index.hdr, ![c].slot = 0,
                             ![c].mark = conn[c].mark]
    BY <1>1, <2>1, <2>2 DEF Whole, Conn
  <2>4. FilesOK' /\ IndexOK'
    BY <1>1, <2>1 DEF Whole, FilesOK, IndexOK, Choose, files
  <2> QED BY <1>2, <1>3, <2>1, <2>2, <2>3, <2>4, WaitingKeeps
<1>4. CASE index.nBackfill # index.hdr.mxFrame
  <2>1. ChooseMark(c, index.hdr) /\ UNCHANGED <<files, txs, slips>>
    BY <1>4 DEF Choose
  <2> QED BY <1>2, <2>1, ChooseMarkKeeps
<1> QED BY <1>3, <1>4

\* It locks the mark.
LEMMA LockMarkKeeps == ASSUME IInv, NEW c \in Conns, LockMark(c)  PROVE IInv'
<1>1. Whole
  BY Parts
<1>2. conn[c].pc = "lock" /\ conn[c].readLock = -1 /\ conn[c] \in Conn /\ conn[c].hdr \in Header
  BY <1>1, IdleFacts DEF Whole, LockMark, Conn
<1>3. CASE conn[c].slot = 0 /\ ZeroLocked
  <2>1. ChooseMark(c, conn[c].hdr) /\ UNCHANGED <<files, txs, slips>>
    BY <1>3 DEF LockMark
  <2> QED BY <1>2, <2>1, ChooseMarkKeeps
<1>4. CASE ~(conn[c].slot = 0 /\ ZeroLocked)
  <2>1. /\ conn' = [conn EXCEPT ![c].pc = "confirm", ![c].readLock = conn[c].slot,
                                ![c].minFrame = index.nBackfill + 1]
        /\ index' = index /\ txs' = txs /\ slips' = slips /\ log' = log
    BY <1>4 DEF LockMark, files
  <2>2. FilesOK' /\ IndexOK' /\ Len(log') >= Len(log)
    BY <1>1, <2>1 DEF Whole, FilesOK, IndexOK, LockMark, files
  <2>3. index.nBackfill + 1 \in Nat
    BY <1>1, IndexTypes, Bounds DEF Whole
  <2>4. conn[c].slot \in {0} \cup Marks /\ conn[c].slot # -1
    BY <1>1, <1>2, MarksFacts DEF Whole, ConnOK, ReaderOK
  <2>5. /\ conn'[c] = [conn[c] EXCEPT !.pc = "confirm", !.readLock = conn[c].slot,
                                      !.minFrame = index.nBackfill + 1]
        /\ \A d \in Conns \ {c} : conn'[d] = conn[d]
    BY <1>1, <2>1 DEF Whole
  <2>6. conn'[c] \in Conn
    BY <1>2, <2>3, <2>4, <2>5 DEF Conn, Steps
  <2>7. conn' \in [Conns -> Conn]
    BY <1>1, <2>1, <2>6 DEF Whole
  <2>8. Alone(c)
    BY <2>1, <2>2, <2>5, <2>7 DEF Alone
  <2>9. conn'[c].pc = "confirm" /\ conn'[c].readLock = conn[c].slot /\ conn'[c].hdr = conn[c].hdr
    BY <1>2, <2>5 DEF Conn
  <2>10. Fits(c)
    BY <1>1, <2>9 DEF Fits, Writing, Checkpointing, Whole, Exclusive
  <2>11. ConnOK(c)'
    BY <1>1, <1>2, <2>1, <2>4, <2>9
      DEF Whole, ConnOK, ReaderOK, WriterOK, CheckpointOK, IgnoresLog, InTransaction,
          Writing, Checkpointing, Copying
  <2> QED BY <2>2, <2>8, <2>10, <2>11, AloneKeeps
<1> QED BY <1>3, <1>4

\* It begins to read if nothing has changed, and starts again otherwise.
LEMMA ConfirmKeeps == ASSUME IInv, NEW c \in Conns, Confirm(c)  PROVE IInv'
<1>1. Whole
  BY Parts
<1>2. conn[c].pc = "confirm" /\ conn[c] \in Conn
  BY <1>1 DEF Whole, Confirm
<1>3. index' = index /\ txs' = txs /\ slips' = slips /\ log' = log
  BY DEF Confirm, files
<1>4. FilesOK' /\ IndexOK' /\ Len(log') >= Len(log)
  BY <1>1, <1>3 DEF Whole, FilesOK, IndexOK, Confirm, files
<1>5. CASE ~Confirmed(c)
  <2>1. conn' = [conn EXCEPT ![c] = Rest("idle")]
    BY <1>5 DEF Confirm, Retry
  <2> QED BY <1>3, <1>4, <2>1, LeavingKeeps
<1>6. CASE Confirmed(c)
  <2>1. conn' = [conn EXCEPT ![c].pc = "read", ![c].slot = 0, ![c].mark = 0]
    BY <1>6 DEF Confirm
  <2>2. /\ conn'[c] = [conn[c] EXCEPT !.pc = "read", !.slot = 0, !.mark = 0]
        /\ \A d \in Conns \ {c} : conn'[d] = conn[d]
    BY <1>1, <2>1 DEF Whole
  <2>3. 0 \in Nat /\ 0 \in 0 .. NotUsed
    BY Bounds
  <2>4. conn'[c] \in Conn
    BY <1>2, <2>2, <2>3 DEF Conn, Steps
  <2>5. Alone(c)
    BY <1>1, <1>3, <1>4, <2>1, <2>2, <2>4 DEF Alone, Whole
  <2>6. /\ conn'[c].pc = "read" /\ conn'[c].readLock = conn[c].readLock
        /\ conn'[c].hdr = conn[c].hdr
    BY <1>2, <2>2 DEF Conn
  <2>7. Fits(c)
    BY <1>1, <2>6 DEF Fits, Writing, Checkpointing, Whole, Exclusive
  <2>8. ConnOK(c)'
    BY <1>1, <1>2, <1>3, <2>6
      DEF Whole, ConnOK, ReaderOK, WriterOK, CheckpointOK, IgnoresLog, InTransaction,
          Writing, Checkpointing, Copying
  <2> QED BY <1>4, <2>5, <2>7, <2>8, AloneKeeps
<1> QED BY <1>5, <1>6

\* A transaction ends, read or rolled back.
LEMMA EndKeeps == ASSUME IInv, NEW c \in Conns, EndRead(c) \/ Rollback(c)  PROVE IInv'
<1>1. Whole
  BY Parts
<1>2. /\ conn' = [conn EXCEPT ![c] = Rest("idle")]
      /\ UNCHANGED <<files, index, txs, slips>>
  BY DEF EndRead, Rollback
<1>3. FilesOK' /\ IndexOK' /\ Len(log') >= Len(log)
  BY <1>1, <1>2 DEF Whole, FilesOK, IndexOK, files
<1> QED BY <1>2, <1>3, LeavingKeeps

----------------------------------------------------------------------------
(* Writers *)

\* A writer has the number of a transaction that has begun: there is room in the
\* log for the pages of all of them.
LEMMA Room ==
  ASSUME NEW t \in Tx, t > 0
  PROVE  t - 1 \in Nat /\ (t - 1) * P \in Nat /\ t * P \in Nat /\ (t - 1) * P + P = t * P
<1>1. t \in Nat \ {0} /\ t - 1 \in Nat
  BY BoundAssumption DEF Tx
<1> QED BY <1>1, PagesCount, Products

\* A transaction writes some of the pages.
LEMMA ChangesFacts ==
  ASSUME NEW pages \in Changes
  PROVE  pages \subseteq Pages /\ pages # {}
BY ChangesAssumption

\* A transaction begins: nobody has its number yet.
LEMMA BeginWriteKeeps == ASSUME IInv, NEW c \in Conns, BeginWrite(c)  PROVE IInv'
<1>1. Whole
  BY Parts
<1>2. /\ conn[c].pc = "read" /\ conn[c].hdr = index.hdr /\ txs' = txs + 1 /\ slips' = slips /\ txs < MaxTx
      /\ \A d \in Conns : conn[d].pc \notin Writing
      /\ UNCHANGED <<db, unsynced, log, logSalt, synced, index>>
  BY DEF BeginWrite, WriteLockFree, files
<1>3. txs \in Nat /\ txs' \in Tx /\ txs' \in Nat /\ txs' > 0 /\ txs' - 1 = txs
  BY <1>1, <1>2, BoundAssumption DEF Whole, FilesOK, Tx
<1>4. txs * P \in Nat /\ txs' * P \in Nat /\ txs * P <= txs' * P
  BY <1>2, <1>3, PagesCount, Products
<1>5. PICK pages \in Changes :
        conn' = [conn EXCEPT ![c].pc = "write", ![c].tx = txs', ![c].pages = pages,
                             ![c].left = pages]
  BY DEF BeginWrite
<1>6. pages \subseteq Pages /\ pages # {}
  BY ChangesFacts
<1>7. /\ conn \in [Conns -> Conn] /\ conn[c] \in Conn
  BY <1>1 DEF Whole
<1>8. PICK r : r = [conn[c] EXCEPT !.pc = "write", !.tx = txs', !.pages = pages, !.left = pages]
  OBVIOUS
<1>9. /\ r \in Conn /\ r.pc = "write" /\ r.tx = txs' /\ r.pages = pages /\ r.left = pages
      /\ r.hdr = conn[c].hdr /\ r.readLock = conn[c].readLock
  BY <1>3, <1>6, <1>7, <1>8 DEF Conn, Steps
<1>10. /\ conn'[c] = r /\ \A d \in Conns \ {c} : conn'[d] = conn[d]
       /\ conn' = [d \in Conns |-> conn'[d]]
  BY <1>5, <1>7, <1>8
<1>11. conn' \in [Conns -> Conn]
  <2>1. \A d \in Conns : conn'[d] \in Conn
    BY <1>7, <1>9, <1>10
  <2> QED BY <1>10, <2>1, Zenon
<1>12. /\ Len(log) \in Nat /\ Len(log) <= txs * P /\ index.hdr.mxFrame \in Nat
       /\ index.hdr.mxFrame <= Len(log) /\ index.hdr \in Header
  BY <1>1, IndexTypes, Bounds DEF Whole, FilesOK
<1>13. index.hdr.salt \in Nat /\ index.hdr.change \in Nat /\ index.hdr.salt <= txs
       /\ index.hdr.change <= txs
  BY <1>1, <1>12, BoundAssumption DEF Header, Tx, Whole
<1>14. FilesOK'
  <2>1. Len(log') <= txs' * P /\ logSalt \in Nat /\ logSalt <= txs
    BY <1>1, <1>2, <1>4, <1>12, BoundAssumption DEF Whole, FilesOK, Tx
  <2>2. logSalt' <= txs'
    BY <1>2, <1>3, <2>1
  <2> QED BY <1>1, <1>2, <1>3, <2>1, <2>2 DEF Whole, FilesOK, P
<1>15. IndexOK'
  BY <1>1, <1>2 DEF Whole, IndexOK
<1>16. ASSUME NEW d \in Conns  PROVE conn[d].hdr.salt \in Nat /\ conn[d].hdr.salt <= txs
  <2>1. conn[d] \in Conn /\ ConnOK(d)
    BY <1>1 DEF Whole
  <2> QED BY <2>1, BoundAssumption DEF Conn, Header, Tx, ConnOK
<1>17. ASSUME NEW d \in Conns, d # c  PROVE ConnOK(d)'
  <2>1. conn'[d] = conn[d] /\ ConnOK(d) /\ conn[d].pc \notin Writing
    BY <1>1, <1>2, <1>10, <1>17 DEF Whole
  <2>2. conn[d].hdr.salt <= txs'
    BY <1>3, <1>16
  <2>3. ReaderOK(d)' /\ CheckpointOK(d)'
    BY <1>2, <2>1 DEF ConnOK, ReaderOK, CheckpointOK, IgnoresLog
  <2>4. WriterOK(d)'
    BY <2>1 DEF WriterOK, Writing
  <2> QED BY <2>1, <2>2, <2>3, <2>4 DEF ConnOK
<1>18. ConnOK(c)'
  <2>1. conn'[c].hdr.salt <= txs'
    BY <1>3, <1>9, <1>10, <1>16
  <2>2. ReaderOK(c)' /\ CheckpointOK(c)'
    BY <1>1, <1>2, <1>9, <1>10
      DEF Whole, ConnOK, ReaderOK, CheckpointOK, IgnoresLog, InTransaction,
          Checkpointing, Copying
  <2>3. index.hdr.mxFrame <= (txs' - 1) * P /\ index.hdr.change <= txs' - 1 /\ index.hdr.salt < txs'
    BY <1>3, <1>4, <1>12, <1>13
  <2>4. WriterOK(c)'
    BY <1>2, <1>3, <1>6, <1>9, <1>10, <2>3 DEF WriterOK, Writing, P
  <2> QED BY <2>1, <2>2, <2>4 DEF ConnOK
<1>19. Exclusive'
  <2>1. \A d \in Conns : conn'[d].pc \in Writing => d = c
    BY <1>2, <1>10
  <2>2. \A d \in Conns : d # c => conn'[d].hdr.salt # txs'
    BY <1>3, <1>10, <1>16
  <2>3. \A d \in Conns : conn'[d].pc \in Checkpointing => d # c /\ conn[d].pc \in Checkpointing
    BY <1>9, <1>10 DEF Checkpointing
  <2>4. \A d, e \in Conns : conn'[d].pc \in Checkpointing /\ conn'[e].pc \in Checkpointing => d = e
    BY <1>1, <2>3 DEF Whole, Exclusive
  <2> QED BY <2>1, <2>2, <2>4 DEF Exclusive
<1>20. /\ index'.hdr.mxFrame <= Len(log')
       /\ index'.hdr.change <= txs' /\ index'.hdr.salt <= txs'
  BY <1>2, <1>3, <1>12, <1>13
<1>21. \A d \in Conns : ConnOK(d)'
  BY <1>17, <1>18
<1> QED BY <1>11, <1>14, <1>15, <1>19, <1>20, <1>21, NextParts DEF Whole

\* The header of the log has the salt of the transaction or of the wal-index.
LEMMA WriteHeaderKeeps == ASSUME IInv, NEW c \in Conns, WriteHeader(c)  PROVE IInv'
<1>1. Whole
  BY Parts
<1>2. PICK salt \in {conn[c].tx, conn[c].hdr.salt} \ {0} :
        logSalt' = salt /\ conn' = [conn EXCEPT ![c].pc = "log", ![c].hdr.salt = salt]
  BY DEF WriteHeader
<1>3. /\ conn[c].pc = "header" /\ synced' = 0
      /\ UNCHANGED <<db, unsynced, log, index, txs, slips>>
  BY DEF WriteHeader
<1>4. /\ conn \in [Conns -> Conn] /\ conn[c] \in Conn /\ ConnOK(c) /\ conn[c].hdr \in Header
  BY <1>1 DEF Whole, Conn
<1>5. /\ conn[c].tx = txs /\ conn[c].hdr.mxFrame = 0 /\ index.hdr.mxFrame = 0
      /\ conn[c].hdr.salt \in {txs, index.hdr.salt}
      /\ conn[c].iFrame = 0 /\ conn[c].left = conn[c].pages
  BY <1>3, <1>4 DEF ConnOK, WriterOK, Writing
<1>6. salt \in {txs, index.hdr.salt} /\ salt \in Tx /\ salt <= txs /\ txs \in Nat /\ txs \in Tx
  BY <1>1, <1>2, <1>4, <1>5, BoundAssumption DEF Whole, FilesOK, Tx, Header
<1>7. PICK h : h = [conn[c].hdr EXCEPT !.salt = salt]
  OBVIOUS
<1>8. /\ h \in Header /\ h.salt = salt /\ h.mxFrame = conn[c].hdr.mxFrame
      /\ h.change = conn[c].hdr.change
  BY <1>4, <1>6, <1>7 DEF Header
<1>9. PICK r : r = [conn[c] EXCEPT !.pc = "log", !.hdr = h]
  OBVIOUS
<1>10. /\ r \in Conn /\ r.pc = "log" /\ r.hdr = h /\ r.tx = conn[c].tx /\ r.pages = conn[c].pages
       /\ r.left = conn[c].left /\ r.readLock = conn[c].readLock /\ r.iFrame = conn[c].iFrame
  BY <1>4, <1>8, <1>9 DEF Conn, Steps
<1>11. /\ conn'[c] = r /\ \A d \in Conns \ {c} : conn'[d] = conn[d]
       /\ conn' = [d \in Conns |-> conn'[d]]
  BY <1>2, <1>4, <1>7, <1>9
<1>12. conn' \in [Conns -> Conn]
  <2>1. \A d \in Conns : conn'[d] \in Conn
    BY <1>4, <1>10, <1>11
  <2> QED BY <1>11, <2>1, Zenon
<1>13. FilesOK' /\ Len(log') >= Len(log) /\ Len(log) \in Nat
  <2>1. 0 \in 0 .. Len(log) /\ Len(log) \in Nat
    BY <1>1 DEF Whole, FilesOK
  <2> QED BY <1>1, <1>2, <1>3, <1>6, <2>1 DEF Whole, FilesOK
<1>14. IndexOK' /\ (slips = {} => index.nBackfill = index.hdr.mxFrame)
  BY <1>1, <1>3, <1>5, IndexTypes DEF Whole, IndexOK
<1>15. Alone(c)
  BY <1>3, <1>11, <1>12, <1>13 DEF Alone
<1>16. Fits(c)
  <2>1. \A d \in Conns \ {c} : conn[d].pc \notin Writing
    BY <1>1, <1>3 DEF Whole, Exclusive, Writing
  <2>2. \A d \in Conns \ {c} : conn[d].hdr.salt = txs => index.hdr.salt = txs
    BY <1>1, <1>3 DEF Whole, Exclusive, Writing
  <2> QED BY <1>10, <1>11, <2>1, <2>2 DEF Fits, Checkpointing
<1>17. ConnOK(c)'
  <2>1. ReaderOK(c)' /\ CheckpointOK(c)'
    BY <1>3, <1>4, <1>8, <1>10, <1>11, <1>14
      DEF ConnOK, ReaderOK, CheckpointOK, IgnoresLog, InTransaction,
          Checkpointing, Copying
  <2>2. 0 <= Len(log')
    BY <1>3, <1>13
  <2>3. WriterOK(c)'
    BY <1>3, <1>4, <1>5, <1>6, <1>8, <1>10, <1>11, <2>2 DEF ConnOK, WriterOK, Writing
  <2> QED BY <1>3, <1>6, <1>8, <1>10, <1>11, <2>1, <2>3 DEF ConnOK
<1> QED BY <1>13, <1>14, <1>15, <1>16, <1>17, AloneKeeps

\* What a writer finds before its first frame, and what it leaves.
LEMMA RestartLogFacts ==
  ASSUME IInv, NEW c \in Conns, RestartLog(c)
  PROVE  \E hdr \in Header, r \in Conn :
           /\ conn' = [conn EXCEPT ![c] = r]
           /\ r.pc = (IF hdr.mxFrame = 0 THEN "header" ELSE "log")
           /\ r.hdr = hdr /\ r.iFrame = hdr.mxFrame
           /\ r.tx = conn[c].tx /\ r.pages = conn[c].pages /\ r.left = conn[c].left
           /\ r.readLock \in Marks
           /\ hdr.change = conn[c].hdr.change
           /\ CanRestart(c) => hdr.mxFrame = 0 /\ hdr.salt = conn[c].tx
           /\ ~CanRestart(c) => hdr = conn[c].hdr
           /\ IndexOK'
           /\ CanRestart(c) => index'.hdr = hdr /\ index'.nBackfill = 0
           /\ ~CanRestart(c) => index'.hdr = index.hdr /\ index'.nBackfill = index.nBackfill
<1>1. Whole
  BY Parts
<1>2. /\ conn[c].pc = "write" /\ conn \in [Conns -> Conn] /\ conn[c] \in Conn /\ ConnOK(c)
      /\ conn[c].hdr \in Header /\ conn[c].tx \in Tx /\ 0 \in Tx /\ 0 \in 0 .. MaxFrame
      /\ 0 \in 0 .. NotUsed /\ NotUsed \in 0 .. NotUsed
  <2>1. /\ conn[c].pc = "write" /\ conn \in [Conns -> Conn] /\ conn[c] \in Conn /\ ConnOK(c)
    BY <1>1 DEF Whole, RestartLog
  <2>2. conn[c].hdr \in Header /\ conn[c].tx \in Tx
    BY <2>1 DEF Conn
  <2>3. /\ 0 \in Tx /\ 0 \in 0 .. MaxFrame /\ 0 \in 0 .. NotUsed /\ NotUsed \in 0 .. NotUsed
    BY Bounds, BoundAssumption DEF Tx
  <2> QED BY <2>1, <2>2, <2>3
<1>3. conn[c].readLock \in {0} \cup Marks
  BY <1>2 DEF ConnOK, ReaderOK, InTransaction, Conn
<1>4. PICK hdr : hdr = IF CanRestart(c)
                         THEN [conn[c].hdr EXCEPT !.mxFrame = 0, !.salt = conn[c].tx, !.last = 0]
                         ELSE conn[c].hdr
  OBVIOUS
<1>5. PICK now : now = IF CanRestart(c) THEN RestartedIndex(hdr) ELSE index
  OBVIOUS
<1>6. PICK next : next = [conn[c] EXCEPT !.pc = IF hdr.mxFrame = 0 THEN "header" ELSE "log",
                                         !.hdr = hdr, !.iFrame = hdr.mxFrame]
  OBVIOUS
<1>7. /\ hdr \in Header /\ hdr.change = conn[c].hdr.change /\ hdr.mxFrame \in 0 .. MaxFrame
      /\ CanRestart(c) => hdr.mxFrame = 0 /\ hdr.salt = conn[c].tx
      /\ ~CanRestart(c) => hdr = conn[c].hdr
  BY <1>2, <1>4 DEF Header
<1>8. /\ now.hdr \in Header /\ now.nBackfill \in 0 .. MaxFrame
      /\ slips = {} => now.nBackfill <= now.hdr.mxFrame
      /\ now.aReadMark \in [Marks -> 0 .. NotUsed] /\ now.state \in {"lost", "torn", "ok"}
      /\ now = [state |-> now.state, hdr |-> now.hdr, nBackfill |-> now.nBackfill,
                aReadMark |-> now.aReadMark]
      /\ CanRestart(c) => now.hdr = hdr /\ now.nBackfill = 0
      /\ ~CanRestart(c) => now = index
  <2>1. CASE CanRestart(c)
    <3>1. now = [state |-> "ok", hdr |-> hdr, nBackfill |-> 0,
                 aReadMark |-> [i \in Marks |-> IF i = 1 THEN 0 ELSE NotUsed]]
      BY <1>5, <2>1 DEF RestartedIndex
    <3>2. 0 <= hdr.mxFrame
      BY <1>7, <2>1
    <3> QED BY <1>2, <1>7, <2>1, <3>1, <3>2
  <2>2. CASE ~CanRestart(c)
    <3>1. now = index
      BY <1>5, <2>2
    <3> QED BY <1>1, <2>2, <3>1, IndexTypes DEF Whole, IndexOK
  <2> QED BY <2>1, <2>2
<1>9. /\ next \in Conn /\ next.pc = (IF hdr.mxFrame = 0 THEN "header" ELSE "log")
      /\ next.hdr = hdr /\ next.iFrame = hdr.mxFrame /\ next.readLock = conn[c].readLock
      /\ next.tx = conn[c].tx /\ next.pages = conn[c].pages /\ next.left = conn[c].left
  BY <1>2, <1>6, <1>7 DEF Conn, Steps
<1>10. \/ /\ conn[c].readLock # 0 /\ conn' = [conn EXCEPT ![c] = next] /\ UNCHANGED index
       \/ /\ conn[c].readLock = 0
          /\ \E m \in ChosenMark(now.aReadMark, hdr.mxFrame) :
               /\ conn' = [conn EXCEPT ![c] = [next EXCEPT !.readLock = m.slot,
                                                          !.minFrame = now.nBackfill + 1]]
               /\ index' = [now EXCEPT !.aReadMark[m.slot] = m.mark]
  BY <1>4, <1>5, <1>6 DEF RestartLog
<1>11. CASE conn[c].readLock # 0 /\ conn' = [conn EXCEPT ![c] = next] /\ UNCHANGED index
  <2>1. ~CanRestart(c) /\ next.readLock \in Marks
    BY <1>3, <1>9, <1>11 DEF CanRestart
  <2>2. IndexOK'
    BY <1>1, <1>11 DEF Whole, IndexOK, RestartLog
  <2> QED BY <1>7, <1>9, <1>11, <2>1, <2>2
<1>12. ASSUME NEW m \in ChosenMark(now.aReadMark, hdr.mxFrame),
              conn' = [conn EXCEPT ![c] = [next EXCEPT !.readLock = m.slot,
                                                      !.minFrame = now.nBackfill + 1]],
              index' = [now EXCEPT !.aReadMark[m.slot] = m.mark]
       PROVE  \E r \in Conn :
                /\ conn' = [conn EXCEPT ![c] = r]
                /\ r.pc = (IF hdr.mxFrame = 0 THEN "header" ELSE "log")
                /\ r.hdr = hdr /\ r.iFrame = hdr.mxFrame
                /\ r.tx = conn[c].tx /\ r.pages = conn[c].pages /\ r.left = conn[c].left
                /\ r.readLock \in Marks
                /\ IndexOK' /\ index'.hdr = now.hdr /\ index'.nBackfill = now.nBackfill
  <2>1. m.slot \in Marks /\ m.mark \in 0 .. NotUsed
    BY <1>7, <1>8, ChosenMarkTyped
  <2>2. now.nBackfill + 1 \in Nat
    BY <1>8, Bounds DEF Header
  <2>3. PICK r : r = [next EXCEPT !.readLock = m.slot, !.minFrame = now.nBackfill + 1]
    OBVIOUS
  <2>4. /\ r \in Conn /\ r.pc = next.pc /\ r.hdr = next.hdr /\ r.iFrame = next.iFrame
        /\ r.tx = next.tx /\ r.pages = next.pages /\ r.left = next.left /\ r.readLock = m.slot
    BY <1>9, <2>1, <2>2, <2>3 DEF Conn
  <2>5. PICK marks : marks = [now.aReadMark EXCEPT ![m.slot] = m.mark]
    OBVIOUS
  <2>6. marks \in [Marks -> 0 .. NotUsed]
    BY <1>8, <2>1, <2>5
  <2>7. index' = [state |-> now.state, hdr |-> now.hdr, nBackfill |-> now.nBackfill,
                  aReadMark |-> marks]
    BY <1>8, <1>12, <2>5
  <2>8. IndexOK' /\ index'.hdr = now.hdr /\ index'.nBackfill = now.nBackfill
    BY <1>1, <1>8, <2>6, <2>7 DEF Whole, IndexOK, RestartLog
  <2>9. conn' = [conn EXCEPT ![c] = r]
    BY <1>12, <2>3
  <2> QED BY <1>9, <2>1, <2>4, <2>8, <2>9
<1>13. CASE \E m \in ChosenMark(now.aReadMark, hdr.mxFrame) :
              /\ conn' = [conn EXCEPT ![c] = [next EXCEPT !.readLock = m.slot,
                                                         !.minFrame = now.nBackfill + 1]]
              /\ index' = [now EXCEPT !.aReadMark[m.slot] = m.mark]
  <2>1. PICK r \in Conn :
          /\ conn' = [conn EXCEPT ![c] = r]
          /\ r.pc = (IF hdr.mxFrame = 0 THEN "header" ELSE "log")
          /\ r.hdr = hdr /\ r.iFrame = hdr.mxFrame
          /\ r.tx = conn[c].tx /\ r.pages = conn[c].pages /\ r.left = conn[c].left
          /\ r.readLock \in Marks
          /\ IndexOK' /\ index'.hdr = now.hdr /\ index'.nBackfill = now.nBackfill
    BY <1>12, <1>13
  <2> QED BY <1>7, <1>8, <2>1
<1> QED BY <1>10, <1>11, <1>13

\* A writer restarts the log only when all of it has been copied, when no
\* checkpoint is copying.
LEMMA RestartLogKeeps == ASSUME IInv, NEW c \in Conns, RestartLog(c)  PROVE IInv'
<1>1. Whole
  BY Parts
<1>2. PICK hdr \in Header, r \in Conn :
           /\ conn' = [conn EXCEPT ![c] = r]
           /\ r.pc = (IF hdr.mxFrame = 0 THEN "header" ELSE "log")
           /\ r.hdr = hdr /\ r.iFrame = hdr.mxFrame
           /\ r.tx = conn[c].tx /\ r.pages = conn[c].pages /\ r.left = conn[c].left
           /\ r.readLock \in Marks
           /\ hdr.change = conn[c].hdr.change
           /\ CanRestart(c) => hdr.mxFrame = 0 /\ hdr.salt = conn[c].tx
           /\ ~CanRestart(c) => hdr = conn[c].hdr
           /\ IndexOK'
           /\ CanRestart(c) => index'.hdr = hdr /\ index'.nBackfill = 0
           /\ ~CanRestart(c) => index'.hdr = index.hdr /\ index'.nBackfill = index.nBackfill
  BY RestartLogFacts
<1>3. /\ conn[c].pc = "write" /\ conn \in [Conns -> Conn] /\ conn[c] \in Conn /\ ConnOK(c)
      /\ UNCHANGED <<db, unsynced, log, logSalt, synced, txs, slips>>
  BY <1>1 DEF Whole, RestartLog, files
<1>4. /\ conn'[c] = r /\ \A d \in Conns \ {c} : conn'[d] = conn[d]
      /\ conn' = [d \in Conns |-> conn'[d]]
  BY <1>2, <1>3
<1>5. conn' \in [Conns -> Conn]
  <2>1. \A d \in Conns : conn'[d] \in Conn
    BY <1>3, <1>4
  <2> QED BY <1>4, <2>1, Zenon
<1>6. FilesOK' /\ Len(log') >= Len(log) /\ Len(log) \in Nat
  BY <1>1, <1>3 DEF Whole, FilesOK
<1>7. /\ conn[c].tx = txs /\ txs > 0 /\ conn[c].pages # {} /\ conn[c].left = conn[c].pages
      /\ conn[c].hdr = index.hdr /\ index.hdr.salt < txs
      /\ index.hdr.mxFrame <= (txs - 1) * P /\ index.hdr.change <= txs - 1
  BY <1>3 DEF ConnOK, WriterOK, Writing
<1>8. \A d \in Conns \ {c} : conn[d].pc \notin Writing
  BY <1>1, <1>3 DEF Whole, Exclusive, Writing
<1>9. \A d \in Conns \ {c} : conn[d].hdr.salt = txs => index.hdr.salt = txs
  BY <1>1, <1>3 DEF Whole, Exclusive, Writing
<1>10. /\ r.pc \in {"header", "log"} /\ r.readLock # 0 /\ r.readLock # -1
  BY <1>2, MarksFacts
<1>11. txs \in Nat /\ index.hdr.mxFrame \in Nat /\ index.hdr.salt \in Nat
       /\ index.hdr.mxFrame <= Len(log) /\ index.nBackfill \in Nat /\ (txs - 1) * P \in Nat
       /\ index.hdr.change \in Nat /\ index.hdr.change <= txs
  <2>1. txs \in Tx /\ txs \in Nat
    BY <1>1, BoundAssumption DEF Whole, FilesOK, Tx
  <2>2. (txs - 1) * P \in Nat
    BY <1>7, <2>1, Room
  <2> QED BY <1>1, <2>1, <2>2, IndexTypes, Bounds, BoundAssumption DEF Whole, Header, Tx
<1>12. CASE ~CanRestart(c)
  <2>1. hdr = index.hdr /\ index'.hdr = index.hdr /\ index'.nBackfill = index.nBackfill
    BY <1>2, <1>7, <1>12
  <2>2. Alone(c)
    BY <1>3, <1>4, <1>5, <1>6, <2>1 DEF Alone
  <2>3. Fits(c)
    BY <1>4, <1>8, <1>9, <1>10 DEF Fits, Checkpointing
  <2>4. ReaderOK(c)' /\ CheckpointOK(c)'
    BY <1>2, <1>4, <1>7, <1>10, <1>11, <2>1
      DEF ReaderOK, CheckpointOK, IgnoresLog, InTransaction, Checkpointing, Copying
  <2>5. WriterOK(c)'
    BY <1>2, <1>3, <1>4, <1>7, <1>10, <1>11, <2>1 DEF WriterOK, Writing, P
  <2>6. conn'[c].hdr.salt <= txs'
    BY <1>2, <1>3, <1>4, <1>7, <1>11, <2>1
  <2>7. ConnOK(c)'
    BY <2>4, <2>5, <2>6 DEF ConnOK
  <2> QED BY <1>2, <1>6, <2>2, <2>3, <2>7, AloneKeeps
<1>13. CASE CanRestart(c)
  <2>1. hdr.mxFrame = 0 /\ hdr.salt = txs /\ index'.hdr = hdr /\ index'.nBackfill = 0
        /\ hdr.change = index.hdr.change
    BY <1>2, <1>7, <1>13
  <2>2. slips = {} => index.nBackfill = index.hdr.mxFrame
    BY <1>3, <1>7, <1>13 DEF CanRestart, ConnOK, ReaderOK, IgnoresLog
  <2>3. ASSUME NEW d \in Conns, d # c  PROVE ConnOK(d)'
    <3>1. conn'[d] = conn[d] /\ ConnOK(d) /\ conn[d].pc \notin Writing /\ conn[d] \in Conn
      BY <1>1, <1>4, <1>8, <2>3 DEF Whole
    <3>2. ReaderOK(d)'
      BY <1>3, <2>1, <3>1 DEF ConnOK, ReaderOK, IgnoresLog, InTransaction
    <3>3. WriterOK(d)'
      BY <3>1 DEF WriterOK, Writing
    <3>4. conn[d].hdr.salt # txs
      BY <1>7, <1>9, <1>11, <2>3
    <3>5. slips = {} => conn[d].pc \notin Copying
      <4>1. SUFFICES ASSUME slips = {}, conn[d].pc \in Copying  PROVE FALSE
        OBVIOUS
      <4>2. index.nBackfill < conn[d].hdr.mxFrame /\ conn[d].hdr.mxFrame <= index.hdr.mxFrame
        BY <3>1, <4>1 DEF ConnOK, CheckpointOK, Copying, Checkpointing
      <4>3. conn[d].hdr.mxFrame \in Nat
        BY <3>1, Bounds DEF Conn, Header
      <4> QED BY <1>11, <2>2, <4>1, <4>2, <4>3
    <3>6. CheckpointOK(d)'
      BY <1>3, <2>1, <3>1, <3>4, <3>5 DEF ConnOK, CheckpointOK
    <3>7. conn'[d].hdr.salt <= txs'
      BY <1>3, <3>1 DEF ConnOK
    <3> QED BY <3>2, <3>3, <3>6, <3>7 DEF ConnOK
  <2>4. ConnOK(c)'
    <3>1. ReaderOK(c)' /\ CheckpointOK(c)'
      BY <1>2, <1>4, <1>10, <1>11, <2>1
        DEF ReaderOK, CheckpointOK, IgnoresLog, InTransaction, Checkpointing, Copying
    <3>2. 0 <= (txs - 1) * P
      BY <1>11
    <3>3. WriterOK(c)'
      BY <1>2, <1>3, <1>4, <1>7, <1>10, <2>1, <3>2 DEF WriterOK, Writing, P
    <3>4. conn'[c].hdr.salt <= txs'
      BY <1>2, <1>3, <1>4, <1>11, <2>1
    <3> QED BY <3>1, <3>3, <3>4 DEF ConnOK
  <2>5. Exclusive'
    <3>1. \A d \in Conns : conn'[d].pc \in Writing => d = c
      BY <1>4, <1>8
    <3>2. \A d \in Conns : conn'[d].pc \in Checkpointing => d # c /\ conn[d].pc \in Checkpointing
      BY <1>4, <1>10 DEF Checkpointing
    <3>3. \A d, e \in Conns :
            conn'[d].pc \in Checkpointing /\ conn'[e].pc \in Checkpointing => d = e
      BY <1>1, <3>2 DEF Whole, Exclusive
    <3>4. index'.hdr.salt = txs'
      BY <1>3, <2>1
    <3> QED BY <3>1, <3>3, <3>4 DEF Exclusive
  <2>6. /\ index'.hdr.mxFrame <= Len(log')
        /\ index'.hdr.change <= txs' /\ index'.hdr.salt <= txs'
    BY <1>3, <1>6, <1>11, <2>1
  <2>7. \A d \in Conns : ConnOK(d)'
    BY <2>3, <2>4
  <2> QED BY <1>2, <1>5, <1>6, <2>5, <2>6, <2>7, NextParts DEF Whole
<1> QED BY <1>12, <1>13

\* The sizes of what a transaction writes.
LEMMA SizeFacts ==
  ASSUME NEW pages \in SUBSET Pages, NEW left \in SUBSET pages
  PROVE  /\ IsFiniteSet(pages) /\ Cardinality(pages) \in Nat /\ Cardinality(pages) <= P
         /\ pages # {} => Cardinality(pages) >= 1
         /\ IsFiniteSet(left) /\ Cardinality(left) \in Nat
         /\ left # {} => Cardinality(left) >= 1
         /\ left = {} => Cardinality(left) = 0
         /\ \A page \in left : Cardinality(left \ {page}) = Cardinality(left) - 1
<1>1. IsFiniteSet(pages) /\ Cardinality(pages) \in Nat /\ Cardinality(pages) <= P
  BY PagesAssumption, FS_Subset, FS_CardinalityType DEF P
<1>2. IsFiniteSet(left) /\ Cardinality(left) \in Nat
  BY <1>1, FS_Subset, FS_CardinalityType
<1>3. (pages # {} => Cardinality(pages) # 0) /\ (left # {} => Cardinality(left) # 0)
      /\ (left = {} => Cardinality(left) = 0)
  BY <1>1, <1>2, FS_EmptySet
<1>4. \A page \in left : Cardinality(left \ {page}) = Cardinality(left) - 1
  BY <1>2, FS_RemoveElement
<1> QED BY <1>1, <1>2, <1>3, <1>4

\* A frame is appended, or replaces one: the log keeps its type, and does not
\* outgrow its bound.
LEMMA LogWithFrame ==
  ASSUME NEW l \in Seq(Frame), NEW f \in Nat, f > 0, f <= Len(l) + 1, NEW frame \in Frame
  PROVE  LET m == IF f > Len(l) THEN Append(l, frame) ELSE [l EXCEPT ![f] = frame]
         IN  /\ m \in Seq(Frame) /\ Len(m) \in Nat /\ Len(m) >= Len(l) /\ f <= Len(m)
             /\ Len(m) = Len(l) \/ Len(m) = f
<1> DEFINE m == IF f > Len(l) THEN Append(l, frame) ELSE [l EXCEPT ![f] = frame]
<1>1. CASE f > Len(l)
  <2>1. m = Append(l, frame)
    BY <1>1
  <2> HIDE DEF m
  <2> QED BY <1>1, <2>1
<1>2. CASE ~(f > Len(l))
  <2>1. f \in 1 .. Len(l) /\ m = [l EXCEPT ![f] = frame]
    BY <1>2
  <2> HIDE DEF m
  <2>2. m \in Seq(Frame) /\ Len(m) = Len(l)
    BY <2>1
  <2>3. f <= Len(l) /\ Len(l) \in Nat
    BY <1>2
  <2> QED BY <2>2, <2>3
<1> QED BY <1>1, <1>2

\* A frame is written, for which the log has room.
LEMMA WriteFrameKeeps == ASSUME IInv, NEW c \in Conns, WriteFrame(c)  PROVE IInv'
<1>1. Whole
  BY Parts
<1>2. /\ conn[c].pc = "log" /\ conn[c].left # {}
      /\ conn \in [Conns -> Conn] /\ conn[c] \in Conn /\ ConnOK(c)
      /\ UNCHANGED <<db, unsynced, logSalt, index, txs, slips>>
  BY <1>1 DEF Whole, WriteFrame
<1>3. /\ conn[c].tx = txs /\ txs > 0 /\ conn[c].pages # {} /\ conn[c].left \subseteq conn[c].pages
      /\ index.hdr.mxFrame <= (txs - 1) * P
      /\ conn[c].iFrame + Cardinality(conn[c].left)
           = index.hdr.mxFrame + Cardinality(conn[c].pages)
      /\ conn[c].iFrame <= Len(log)
  BY <1>2 DEF ConnOK, WriterOK, Writing
<1>4. conn[c].pages \subseteq Pages /\ conn[c].hdr.salt \in Tx /\ conn[c].iFrame \in Nat
  BY <1>2, Bounds DEF Conn, Header
<1>5. txs \in Tx /\ txs \in Nat /\ log \in Seq(Frame) /\ Len(log) \in Nat /\ Len(log) <= txs * P
      /\ synced \in 0 .. Len(log) /\ index.hdr.mxFrame \in Nat
  BY <1>1, IndexTypes, Bounds, BoundAssumption DEF Whole, FilesOK, Tx
<1>6. PICK page : page = Min(conn[c].left)
  OBVIOUS
<1>7. page \in conn[c].left /\ page \in Pages
  <2>1. conn[c].left \in SUBSET Nat
    BY <1>3, <1>4, PagesAssumption
  <2> QED BY <1>2, <1>3, <1>4, <1>6, <2>1, MinFacts
<1>8. PICK f : f = conn[c].iFrame + 1
  OBVIOUS
<1>9. PICK frame : frame = [page |-> page, tx |-> conn[c].tx, salt |-> conn[c].hdr.salt,
                            prior |-> IF f = 1 THEN 0 ELSE log[f - 1].tx,
                            commit |-> conn[c].left = {page}]
  OBVIOUS
<1>10. f \in Nat /\ f > 0 /\ f <= Len(log) + 1 /\ f - 1 = conn[c].iFrame
  BY <1>3, <1>4, <1>5, <1>8
<1>11. frame \in Frame
  <2>1. (IF f = 1 THEN 0 ELSE log[f - 1].tx) \in Tx
    <3>1. CASE f = 1
      BY <3>1, BoundAssumption DEF Tx
    <3>2. CASE f # 1
      <4>1. f - 1 \in 1 .. Len(log)
        BY <1>3, <1>4, <1>5, <1>10, <3>2
      <4>2. log[f - 1] \in Frame
        BY <1>5, <4>1
      <4> QED BY <3>2, <4>2 DEF Frame
    <3> QED BY <3>1, <3>2
  <2>2. (conn[c].left = {page}) \in BOOLEAN
    OBVIOUS
  <2> QED BY <1>3, <1>4, <1>5, <1>7, <1>9, <2>1, <2>2 DEF Frame
<1>12. /\ log' = IF f > Len(log) THEN Append(log, frame) ELSE [log EXCEPT ![f] = frame]
       /\ synced' = Min({synced, f - 1})
       /\ conn' = [conn EXCEPT ![c].left = conn[c].left \ {page}, ![c].iFrame = f]
  BY <1>2, <1>6, <1>8, <1>9 DEF WriteFrame
<1>13. /\ log' \in Seq(Frame) /\ Len(log') \in Nat /\ Len(log') >= Len(log) /\ f <= Len(log')
       /\ Len(log') = Len(log) \/ Len(log') = f
  BY <1>5, <1>10, <1>11, <1>12, LogWithFrame
<1>14. /\ Cardinality(conn[c].pages) \in Nat /\ Cardinality(conn[c].pages) <= P
       /\ Cardinality(conn[c].left) \in Nat /\ Cardinality(conn[c].left) >= 1
       /\ Cardinality(conn[c].left \ {page}) = Cardinality(conn[c].left) - 1
  <2>1. conn[c].pages \in SUBSET Pages /\ conn[c].left \in SUBSET conn[c].pages
    BY <1>3, <1>4
  <2> QED BY <1>2, <1>7, <2>1, SizeFacts
<1>15. f <= txs * P
  <2>1. (txs - 1) * P \in Nat /\ (txs - 1) * P + P = txs * P /\ P \in Nat
    BY <1>3, <1>5, Room, PagesCount
  <2>2. PICK room, all : room = (txs - 1) * P /\ all = txs * P
    OBVIOUS
  <2>3. index.hdr.mxFrame <= room
    BY <1>3, <2>2
  <2>4. room \in Nat /\ room + P = all
    BY <2>1, <2>2
  <2>5. PICK i, m, n, k : /\ i = conn[c].iFrame /\ m = index.hdr.mxFrame
                          /\ n = Cardinality(conn[c].left) /\ k = Cardinality(conn[c].pages)
    OBVIOUS
  <2>6. i \in Nat /\ m \in Nat /\ n \in Nat /\ k \in Nat /\ n >= 1 /\ k <= P /\ m <= room
    BY <1>4, <1>5, <1>14, <2>3, <2>5
  <2>7. i + n = m + k /\ f = i + 1
    BY <1>3, <1>8, <2>5
  <2>8. f <= all
    BY <2>4, <2>6, <2>7, PagesCount
  <2> QED BY <2>2, <2>8, Zenon
<1>16. f <= MaxFrame
  <2>1. txs <= MaxTx
    BY <1>5, BoundAssumption DEF Tx
  <2>2. txs * P <= MaxFrame /\ MaxFrame \in Nat /\ txs * P \in Nat
    BY <1>3, <1>5, <2>1, Bounds, Room
  <2> QED BY <1>10, <1>15, <2>2
<1>17. FilesOK'
  <2>1. synced' \in 0 .. Len(log')
    <3>1. synced \in Nat /\ f - 1 \in Nat
      BY <1>4, <1>5, <1>10
    <3>2. Min({synced, f - 1}) \in {synced, f - 1}
      <4>1. {synced, f - 1} \in SUBSET Nat /\ {synced, f - 1} # {}
        BY <3>1
      <4> QED BY <4>1, MinFacts, Zenon
    <3>3. synced <= Len(log') /\ f - 1 <= Len(log')
      BY <1>4, <1>5, <1>10, <1>13
    <3> QED BY <1>12, <3>1, <3>2, <3>3
  <2>2. Len(log') <= txs * P
    BY <1>5, <1>13, <1>15
  <2>3. Len(log') <= txs' * P
    BY <1>2, <2>2
  <2> QED BY <1>1, <1>2, <1>13, <2>1, <2>3 DEF Whole, FilesOK, P
<1>18. IndexOK'
  BY <1>1, <1>2 DEF Whole, IndexOK
<1>19. PICK r : r = [conn[c] EXCEPT !.left = conn[c].left \ {page}, !.iFrame = f]
  OBVIOUS
<1>20. /\ r \in Conn /\ r.pc = "log" /\ r.hdr = conn[c].hdr /\ r.tx = conn[c].tx
       /\ r.pages = conn[c].pages /\ r.left = conn[c].left \ {page}
       /\ r.readLock = conn[c].readLock /\ r.iFrame = f
  <2>1. f \in 0 .. MaxFrame
    BY <1>10, <1>16, Bounds
  <2> QED BY <1>2, <1>19, <2>1 DEF Conn
<1>21. /\ conn'[c] = r /\ \A d \in Conns \ {c} : conn'[d] = conn[d]
       /\ conn' = [d \in Conns |-> conn'[d]]
  BY <1>2, <1>12, <1>19
<1>22. conn' \in [Conns -> Conn]
  <2>1. \A d \in Conns : conn'[d] \in Conn
    BY <1>2, <1>20, <1>21
  <2> QED BY <1>21, <2>1, Zenon
<1>23. Alone(c)
  BY <1>2, <1>13, <1>21, <1>22 DEF Alone
<1>24. Fits(c)
  <2>1. \A d \in Conns \ {c} : conn[d].pc \notin Writing
    BY <1>1, <1>2 DEF Whole, Exclusive, Writing
  <2>2. \A d \in Conns \ {c} : conn[d].hdr.salt = txs => index.hdr.salt = txs
    BY <1>1, <1>2 DEF Whole, Exclusive, Writing
  <2> QED BY <1>20, <1>21, <2>1, <2>2 DEF Fits, Checkpointing
<1>25. ConnOK(c)'
  <2>1. ReaderOK(c)' /\ CheckpointOK(c)'
    BY <1>2, <1>20, <1>21
      DEF ConnOK, ReaderOK, CheckpointOK, IgnoresLog, InTransaction,
          Checkpointing, Copying
  <2>2. r.iFrame + Cardinality(r.left) = index.hdr.mxFrame + Cardinality(r.pages)
    BY <1>3, <1>4, <1>5, <1>8, <1>14, <1>20
  <2>3. WriterOK(c)'
    BY <1>2, <1>13, <1>20, <1>21, <2>2 DEF ConnOK, WriterOK, Writing, P
  <2> QED BY <1>2, <1>20, <1>21, <2>1, <2>3 DEF ConnOK
<1> QED BY <1>17, <1>18, <1>23, <1>24, <1>25, AloneKeeps

\* The frames are synced.
LEMMA SyncLogKeeps == ASSUME IInv, NEW c \in Conns, SyncLog(c)  PROVE IInv'
<1>1. Whole
  BY Parts
<1>2. /\ conn[c].pc = "log" /\ conn[c].left = {}
      /\ conn \in [Conns -> Conn] /\ conn[c] \in Conn /\ ConnOK(c)
      /\ synced' = Max({synced, conn[c].iFrame})
      /\ conn' = [conn EXCEPT ![c].pc = "publish"]
      /\ UNCHANGED <<db, unsynced, log, logSalt, index, txs, slips>>
  BY <1>1 DEF Whole, SyncLog
<1>3. /\ conn[c].iFrame \in Nat /\ conn[c].iFrame <= Len(log) /\ Len(log) \in Nat
      /\ synced \in Nat /\ synced <= Len(log)
  BY <1>1, <1>2, Bounds DEF ConnOK, WriterOK, Writing, Conn, Whole, FilesOK
<1>4. FilesOK' /\ Len(log') >= Len(log)
  <2>1. Max({synced, conn[c].iFrame}) \in {synced, conn[c].iFrame}
    <3>1. {synced, conn[c].iFrame} \in SUBSET Nat /\ {synced, conn[c].iFrame} # {}
      BY <1>3
    <3>2. \A x \in {synced, conn[c].iFrame} : x <= Len(log)
      BY <1>3
    <3> QED BY <1>3, <3>1, <3>2, MaxFacts, Zenon
  <2>2. synced' \in 0 .. Len(log')
    BY <1>2, <1>3, <2>1
  <2> QED BY <1>1, <1>2, <1>3, <2>2 DEF Whole, FilesOK
<1>5. IndexOK'
  BY <1>1, <1>2 DEF Whole, IndexOK
<1>6. PICK r : r = [conn[c] EXCEPT !.pc = "publish"]
  OBVIOUS
<1>7. /\ r \in Conn /\ r.pc = "publish" /\ r.hdr = conn[c].hdr /\ r.tx = conn[c].tx
      /\ r.pages = conn[c].pages /\ r.left = conn[c].left
      /\ r.readLock = conn[c].readLock /\ r.iFrame = conn[c].iFrame
  BY <1>2, <1>6 DEF Conn, Steps
<1>8. /\ conn'[c] = r /\ \A d \in Conns \ {c} : conn'[d] = conn[d]
      /\ conn' = [d \in Conns |-> conn'[d]]
  BY <1>2, <1>6
<1>9. conn' \in [Conns -> Conn]
  <2>1. \A d \in Conns : conn'[d] \in Conn
    BY <1>2, <1>7, <1>8
  <2> QED BY <1>8, <2>1, Zenon
<1>10. Alone(c)
  BY <1>2, <1>4, <1>8, <1>9 DEF Alone
<1>11. Fits(c)
  <2>1. \A d \in Conns \ {c} : conn[d].pc \notin Writing
    BY <1>1, <1>2 DEF Whole, Exclusive, Writing
  <2>2. \A d \in Conns \ {c} : conn[d].hdr.salt = txs => index.hdr.salt = txs
    BY <1>1, <1>2 DEF Whole, Exclusive, Writing
  <2> QED BY <1>7, <1>8, <2>1, <2>2 DEF Fits, Checkpointing
<1>12. ConnOK(c)'
  <2>1. ReaderOK(c)' /\ CheckpointOK(c)'
    BY <1>2, <1>7, <1>8
      DEF ConnOK, ReaderOK, CheckpointOK, IgnoresLog, InTransaction,
          Checkpointing, Copying
  <2>2. WriterOK(c)'
    BY <1>2, <1>7, <1>8 DEF ConnOK, WriterOK, Writing, P
  <2> QED BY <1>2, <1>7, <1>8, <2>1, <2>2 DEF ConnOK
<1> QED BY <1>4, <1>5, <1>10, <1>11, <1>12, AloneKeeps

\* The new header is newer than those of all readers; a checkpoint that copies
\* works on the log that it extends.
LEMMA PublishKeeps == ASSUME IInv, NEW c \in Conns, Publish(c)  PROVE IInv'
<1>1. Whole
  BY Parts
<1>2. /\ conn[c].pc = "publish" /\ conn' = [conn EXCEPT ![c] = Rest("idle")]
      /\ conn \in [Conns -> Conn] /\ conn[c] \in Conn /\ ConnOK(c)
      /\ UNCHANGED <<db, unsynced, log, logSalt, synced, txs, slips>>
  BY <1>1 DEF Whole, Publish, files
<1>3. /\ txs > 0 /\ conn[c].pages # {} /\ conn[c].left = {}
      /\ conn[c].hdr.mxFrame = index.hdr.mxFrame /\ conn[c].hdr.change = index.hdr.change
      /\ conn[c].hdr.salt \in {txs, index.hdr.salt}
      /\ index.hdr.mxFrame # 0 => conn[c].hdr.salt = index.hdr.salt
      /\ index.hdr.change <= txs - 1
      /\ conn[c].iFrame + Cardinality(conn[c].left)
           = index.hdr.mxFrame + Cardinality(conn[c].pages)
      /\ conn[c].iFrame <= Len(log)
  BY <1>2 DEF ConnOK, WriterOK, Writing
<1>4. /\ conn[c].iFrame \in Nat /\ conn[c].iFrame \in 0 .. MaxFrame /\ conn[c].hdr.salt \in Tx
      /\ conn[c].pages \subseteq Pages
  BY <1>2, Bounds DEF Conn, Header
<1>5. /\ txs \in Tx /\ txs \in Nat /\ log \in Seq(Frame) /\ Len(log) \in Nat
      /\ index.hdr.mxFrame \in Nat /\ index.hdr.change \in Nat /\ index.hdr.salt \in Tx
      /\ index.hdr.salt <= txs
  <2>1. index.hdr \in Header /\ txs \in Tx /\ log \in Seq(Frame) /\ index.hdr.salt <= txs
    BY <1>1, IndexTypes DEF Whole, FilesOK
  <2> QED BY <2>1, Bounds, BoundAssumption DEF Header, Tx
<1>6. conn[c].iFrame > index.hdr.mxFrame /\ conn[c].iFrame \in 1 .. Len(log)
  <2>1. Cardinality(conn[c].pages) \in Nat /\ Cardinality(conn[c].pages) >= 1
        /\ Cardinality(conn[c].left) = 0
    BY <1>3, <1>4, SizeFacts
  <2>2. conn[c].iFrame = index.hdr.mxFrame + Cardinality(conn[c].pages)
    BY <1>3, <1>4, <2>1
  <2>3. conn[c].iFrame > index.hdr.mxFrame
    BY <1>4, <1>5, <2>1, <2>2
  <2>4. conn[c].iFrame <= Len(log)
    BY <1>3
  <2> QED BY <1>4, <1>5, <2>3, <2>4
<1>7. log[conn[c].iFrame].tx \in Tx
  <2>1. PICK i : i = conn[c].iFrame
    OBVIOUS
  <2>2. log[i] \in Frame
    BY <1>5, <1>6, <2>1
  <2>3. log[i].tx \in Tx
    BY <2>2 DEF Frame
  <2> QED BY <2>1, <2>3
<1>8. PICK h : h = [mxFrame |-> conn[c].iFrame, salt |-> conn[c].hdr.salt,
                    last |-> log[conn[c].iFrame].tx, change |-> conn[c].hdr.change + 1]
  OBVIOUS
<1>9. /\ h \in Header /\ h.mxFrame = conn[c].iFrame /\ h.salt = conn[c].hdr.salt
      /\ h.change = index.hdr.change + 1 /\ h.change <= txs
  <2>1. index.hdr.change + 1 \in Tx /\ index.hdr.change + 1 <= txs
    BY <1>3, <1>5, BoundAssumption DEF Tx
  <2> QED BY <1>3, <1>4, <1>7, <1>8, <2>1 DEF Header
<1>10. index' = [index EXCEPT !.state = "ok", !.hdr = h]
  BY <1>8 DEF Publish
<1>11. /\ IndexOK' /\ index'.hdr = h /\ index'.nBackfill = index.nBackfill
  <2>1. index.nBackfill \in 0 .. MaxFrame /\ (slips = {} => index.nBackfill <= h.mxFrame)
    <3>1. index.nBackfill \in 0 .. MaxFrame /\ (slips = {} => index.nBackfill <= index.hdr.mxFrame)
      BY <1>1, IndexTypes DEF Whole, IndexOK
    <3>2. index.nBackfill \in Nat
      BY <3>1, Bounds
    <3> QED BY <1>4, <1>5, <1>6, <1>9, <3>1, <3>2
  <2>2. index' = [state |-> "ok", hdr |-> h, nBackfill |-> index.nBackfill,
                  aReadMark |-> index.aReadMark]
    BY <1>1, <1>10 DEF Whole, IndexOK
  <2> QED BY <1>1, <1>2, <1>9, <2>1, <2>2, IndexTypes DEF Whole, IndexOK
<1>12. FilesOK'
  BY <1>1, <1>2 DEF Whole, FilesOK
<1>13. /\ conn'[c] = Rest("idle") /\ \A d \in Conns \ {c} : conn'[d] = conn[d]
       /\ conn' \in [Conns -> Conn]
  BY <1>2, RestTyped
<1>14. \A d \in Conns \ {c} : conn[d].pc \notin Writing
  BY <1>1, <1>2 DEF Whole, Exclusive, Writing
<1>15. \A d \in Conns \ {c} : conn[d].hdr.salt = txs => index.hdr.salt = txs
  BY <1>1, <1>2 DEF Whole, Exclusive, Writing
<1>16. ASSUME NEW d \in Conns, d # c  PROVE ConnOK(d)'
  <2>1. conn'[d] = conn[d] /\ ConnOK(d) /\ conn[d].pc \notin Writing /\ conn[d] \in Conn
    BY <1>1, <1>13, <1>14, <1>16 DEF Whole
  <2>2. conn[d].hdr.change \in Nat /\ conn[d].hdr.mxFrame \in Nat
    BY <2>1, Bounds, BoundAssumption DEF Conn, Header, Tx
  <2>3. ReaderOK(d)'
    <3>1. slips = {} /\ IgnoresLog(d) => conn[d].hdr.change < h.change
      BY <1>5, <1>9, <2>1, <2>2 DEF ConnOK, ReaderOK
    <3>2. slips = {} /\ IgnoresLog(d) => conn[d].hdr # h
      BY <1>5, <1>9, <2>2, <3>1
    <3>3. slips = {} /\ IgnoresLog(d) => conn[d].hdr.change <= h.change
      BY <1>5, <1>9, <2>2, <3>1
    <3> QED BY <1>2, <1>11, <2>1, <3>2, <3>3 DEF ConnOK, ReaderOK, IgnoresLog
  <2>4. WriterOK(d)'
    BY <2>1 DEF WriterOK, Writing
  <2>5. CheckpointOK(d)'
    <3>1. conn[d].hdr.salt = h.salt => conn[d].hdr.salt = index.hdr.salt
      BY <1>3, <1>9, <1>15, <1>16
    <3>2. conn[d].pc \in Checkpointing /\ conn[d].hdr.salt = h.salt =>
            conn[d].hdr.mxFrame <= h.mxFrame
      <4>1. SUFFICES ASSUME conn[d].pc \in Checkpointing, conn[d].hdr.salt = h.salt
                     PROVE  conn[d].hdr.mxFrame <= h.mxFrame
        OBVIOUS
      <4>2. conn[d].hdr.mxFrame <= index.hdr.mxFrame
        BY <2>1, <3>1, <4>1 DEF ConnOK, CheckpointOK
      <4> QED BY <1>4, <1>5, <1>6, <1>9, <2>2, <4>2
    <3>3. slips = {} /\ conn[d].pc \in Copying => conn[d].hdr.salt = h.salt
      <4>1. SUFFICES ASSUME slips = {}, conn[d].pc \in Copying  PROVE conn[d].hdr.salt = h.salt
        OBVIOUS
      <4>2. /\ conn[d].hdr.salt = index.hdr.salt /\ index.nBackfill < conn[d].hdr.mxFrame
            /\ conn[d].hdr.mxFrame <= index.hdr.mxFrame
        BY <2>1, <4>1 DEF ConnOK, CheckpointOK, Copying, Checkpointing
      <4>3. index.nBackfill \in Nat
        BY <1>1, <1>5, IndexTypes DEF Whole
      <4>4. index.hdr.mxFrame # 0
        BY <1>5, <2>2, <4>2, <4>3
      <4> QED BY <1>3, <1>9, <4>2, <4>4
    <3> QED BY <1>2, <1>11, <2>1, <3>2, <3>3 DEF ConnOK, CheckpointOK
  <2> QED BY <1>2, <2>1, <2>3, <2>4, <2>5 DEF ConnOK
<1>17. ConnOK(c)'
  <2>1. conn'[c].pc = "idle" /\ conn'[c].readLock = -1 /\ conn'[c].hdr.salt <= txs'
    BY <1>2, <1>5, <1>13, RestTyped DEF NoHeader
  <2> QED BY <2>1 DEF ConnOK, ReaderOK, WriterOK, CheckpointOK, IgnoresLog,
                      InTransaction, Writing, Checkpointing, Copying
<1>18. Exclusive'
  <2>1. \A d \in Conns : conn'[d].pc \notin Writing
    BY <1>13, <1>14, RestTyped DEF Writing
  <2>2. \A d \in Conns : conn'[d].pc \in Checkpointing => d # c /\ conn[d].pc \in Checkpointing
    BY <1>13, RestTyped DEF Checkpointing
  <2>3. \A d, e \in Conns : conn'[d].pc \in Checkpointing /\ conn'[e].pc \in Checkpointing => d = e
    BY <1>1, <2>2 DEF Whole, Exclusive
  <2> QED BY <2>1, <2>3 DEF Exclusive
<1>19. /\ index'.hdr.mxFrame <= Len(log')
       /\ index'.hdr.change <= txs' /\ index'.hdr.salt <= txs'
  <2>1. h.salt <= txs
    BY <1>3, <1>5, <1>9
  <2> QED BY <1>2, <1>3, <1>9, <1>11, <2>1
<1>20. \A d \in Conns : ConnOK(d)'
  BY <1>16, <1>17
<1> QED BY <1>11, <1>12, <1>13, <1>18, <1>19, <1>20, NextParts DEF Whole

----------------------------------------------------------------------------
(* Checkpoints *)

\* A checkpoint takes the header that is there.
LEMMA BeginCheckpointKeeps == ASSUME IInv, NEW c \in Conns, BeginCheckpoint(c)  PROVE IInv'
<1>1. Whole
  BY Parts
<1>2. /\ conn[c].pc = "idle" /\ conn[c].readLock = -1
      /\ conn \in [Conns -> Conn] /\ conn[c] \in Conn /\ index.hdr \in Header
      /\ \A d \in Conns \ {c} : conn[d].pc \notin Checkpointing
      /\ conn' = [conn EXCEPT ![c].pc = "plan", ![c].hdr = index.hdr]
      /\ UNCHANGED <<db, unsynced, log, logSalt, synced, index, txs, slips>>
  <2>1. /\ conn[c].pc = "idle"
        /\ \A d \in Conns \ {c} : conn[d].pc \notin Checkpointing
        /\ conn' = [conn EXCEPT ![c].pc = "plan", ![c].hdr = index.hdr]
        /\ UNCHANGED <<db, unsynced, log, logSalt, synced, index, txs, slips>>
    BY DEF BeginCheckpoint, CkptLockFree, files
  <2>2. conn[c].readLock = -1
    BY <2>1, IdleFacts
  <2>3. conn \in [Conns -> Conn] /\ conn[c] \in Conn /\ index.hdr \in Header
    BY <1>1, IndexTypes DEF Whole
  <2> QED BY <2>1, <2>2, <2>3
<1>3. PICK r : r = [conn[c] EXCEPT !.pc = "plan", !.hdr = index.hdr]
  OBVIOUS
<1>4. r \in Conn /\ r.pc = "plan" /\ r.hdr = index.hdr /\ r.readLock = -1
  BY <1>2, <1>3 DEF Conn, Steps
<1>5. /\ conn'[c] = r /\ \A d \in Conns \ {c} : conn'[d] = conn[d]
      /\ conn' = [d \in Conns |-> conn'[d]]
  BY <1>2, <1>3
<1>6. conn' \in [Conns -> Conn]
  <2>1. \A d \in Conns : conn'[d] \in Conn
    BY <1>2, <1>4, <1>5
  <2> QED BY <1>5, <2>1, Zenon
<1>7. FilesOK' /\ IndexOK' /\ Len(log') >= Len(log)
  BY <1>1, <1>2 DEF Whole, FilesOK, IndexOK
<1>8. Alone(c)
  BY <1>2, <1>5, <1>6, <1>7 DEF Alone
<1>9. Fits(c)
  BY <1>2, <1>4, <1>5 DEF Fits, Writing
<1>10. ConnOK(c)'
  <2>1. index.hdr.mxFrame <= index.hdr.mxFrame /\ index.hdr.salt <= txs
    BY <1>1, <1>2, Bounds DEF Whole, Header
  <2> QED BY <1>2, <1>4, <1>5, <2>1
        DEF ConnOK, ReaderOK, WriterOK, CheckpointOK, IgnoresLog, InTransaction,
            Writing, Copying
<1> QED BY <1>7, <1>8, <1>9, <1>10, AloneKeeps

\* A checkpoint that does not slip plans to copy what is beyond nBackfill; what it
\* plans to copy are frames of the log.
LEMMA PlanKeeps == ASSUME IInv, NEW c \in Conns, Plan(c)  PROVE IInv'
<1>1. Whole
  BY Parts
<1>2. /\ conn[c].pc = "plan" /\ conn[c].readLock = -1
      /\ conn \in [Conns -> Conn] /\ conn[c] \in Conn /\ ConnOK(c)
      /\ UNCHANGED <<db, unsynced, log, logSalt, synced, index, txs>>
      /\ slips \subseteq slips' /\ slips' \in SUBSET {"overrun", "recovery"}
  BY <1>1, IdleFacts DEF Whole, IndexOK, Plan, Checkpointing, files
<1>3. FilesOK' /\ IndexOK' /\ Len(log') >= Len(log)
  BY <1>1, <1>2 DEF Whole, FilesOK, IndexOK
<1>4. CASE ~(index.nBackfill < conn[c].hdr.mxFrame)
  <2>1. conn' = [conn EXCEPT ![c] = Rest("idle")] /\ slips' = slips
    BY <1>4 DEF Plan
  <2> QED BY <1>2, <1>3, <2>1, LeavingKeeps
<1>5. CASE index.nBackfill < conn[c].hdr.mxFrame
  <2>1. PICK frames : frames = {f \in DOMAIN log : f <= conn[c].hdr.mxFrame}
    OBVIOUS
  <2>2. PICK left \in Iterators(c) :
          conn' = [conn EXCEPT ![c].pc = "marks", ![c].slot = 1,
                               ![c].mxSafeFrame = conn[c].hdr.mxFrame, ![c].left = left]
    BY <1>5 DEF Plan
  <2>3. slips' = {} => conn[c].hdr.salt = index.hdr.salt
    BY <1>5 DEF Plan, Overrun
  <2>4. log \in Seq(Frame) /\ \A f \in frames : f \in 1 .. Len(log) /\ f \in Nat /\ log[f] \in Frame
    <3>1. log \in Seq(Frame)
      BY <1>1 DEF Whole, FilesOK
    <3> QED BY <2>1, <3>1
  <2>5. \A w \in left : w \in Items /\ w.frame \in 1 .. Len(log)
    <3>1. \A w \in left : w \in [page : Pages, frame : frames]
      <4>1. CASE Overrun(c)
        BY <2>1, <2>2, <4>1 DEF Iterators
      <4>2. CASE ~Overrun(c)
        <5>1. left = {[page |-> log[f].page, frame |-> f] : f \in
                       {g \in frames : \A h \in frames : h > g => log[h].page # log[g].page}}
          BY <2>1, <2>2, <4>2 DEF Iterators
        <5> QED BY <2>4, <5>1 DEF Frame
      <4> QED BY <4>1, <4>2
    <3> QED BY <2>4, <3>1 DEF Items
  <2>6. 1 \in Nat /\ conn[c].hdr.mxFrame \in 0 .. MaxFrame /\ conn[c].hdr.mxFrame \in Nat
        /\ left \in SUBSET (Pages \cup Items)
    BY <1>2, <2>5, Bounds DEF Conn, Header
  <2>7. PICK r : r = [conn[c] EXCEPT !.pc = "marks", !.slot = 1,
                                     !.mxSafeFrame = conn[c].hdr.mxFrame, !.left = left]
    OBVIOUS
  <2>8. /\ r \in Conn /\ r.pc = "marks" /\ r.slot = 1 /\ r.mxSafeFrame = conn[c].hdr.mxFrame
        /\ r.left = left /\ r.hdr = conn[c].hdr /\ r.readLock = -1
    BY <1>2, <2>6, <2>7 DEF Conn, Steps
  <2>9. /\ conn'[c] = r /\ \A d \in Conns \ {c} : conn'[d] = conn[d]
        /\ conn' = [d \in Conns |-> conn'[d]]
    BY <1>2, <2>2, <2>7
  <2>10. conn' \in [Conns -> Conn]
    <3>1. \A d \in Conns : conn'[d] \in Conn
      BY <1>2, <2>8, <2>9
    <3> QED BY <2>9, <3>1, Zenon
  <2>11. Alone(c)
    BY <1>2, <1>3, <2>9, <2>10 DEF Alone
  <2>12. Fits(c)
    BY <1>1, <1>2, <2>8, <2>9 DEF Fits, Writing, Checkpointing, Whole, Exclusive
  <2>13. ConnOK(c)'
    <3>1. ReaderOK(c)' /\ WriterOK(c)'
      BY <2>8, <2>9 DEF ReaderOK, WriterOK, IgnoresLog, InTransaction, Writing
    <3>2. CheckpointOK(c)'
      BY <1>2, <1>5, <2>3, <2>5, <2>6, <2>8, <2>9, MarksFacts
        DEF ConnOK, CheckpointOK, Checkpointing, Copying
    <3> QED BY <1>2, <2>8, <2>9, <3>1, <3>2 DEF ConnOK
  <2> QED BY <1>3, <2>11, <2>12, <2>13, AloneKeeps
<1> QED BY <1>4, <1>5

\* mxSafeFrame only falls, and marks are moved on to numbers that marks can have.
LEMMA CheckMarkKeeps == ASSUME IInv, NEW c \in Conns, CheckMark(c)  PROVE IInv'
<1>1. Whole
  BY Parts
<1>2. /\ conn[c].pc = "marks"
      /\ conn \in [Conns -> Conn] /\ conn[c] \in Conn /\ ConnOK(c)
      /\ UNCHANGED <<db, unsynced, log, logSalt, synced, txs, slips>>
  BY <1>1 DEF Whole, CheckMark, files
<1>3. conn[c].readLock = -1
  BY <1>2, IdleFacts DEF Checkpointing
<1>4. PICK i, y, safe : i = conn[c].slot /\ y = index.aReadMark[i] /\ safe = conn[c].mxSafeFrame
  OBVIOUS
<1>5. PICK busy : busy = (y < safe /\ ReadersOf(i) # {})
  OBVIOUS
<1>6. /\ index' = IF y < safe /\ ~busy
                    THEN [index EXCEPT !.aReadMark[i] = IF i = 1 THEN safe ELSE NotUsed]
                    ELSE index
      /\ conn' = [conn EXCEPT ![c].mxSafeFrame = IF busy THEN y ELSE safe, ![c].slot = i + 1,
                              ![c].pc = IF i + 1 \in Marks THEN "marks" ELSE "zero"]
  BY <1>4, <1>5 DEF CheckMark
<1>7. i \in Marks /\ i \in Nat
  BY <1>2, <1>4, MarksFacts DEF ConnOK, CheckpointOK
<1>8. /\ index.aReadMark \in [Marks -> 0 .. NotUsed] /\ y \in 0 .. NotUsed /\ y \in Nat
      /\ safe \in 0 .. MaxFrame /\ safe \in Nat /\ safe \in 0 .. NotUsed
      /\ safe <= conn[c].hdr.mxFrame /\ conn[c].hdr.mxFrame \in 0 .. MaxFrame
  <2>1. index.aReadMark \in [Marks -> 0 .. NotUsed]
    BY <1>1, IndexTypes DEF Whole
  <2>2. y \in 0 .. NotUsed
    BY <1>4, <1>7, <2>1
  <2>3. safe \in 0 .. MaxFrame /\ conn[c].hdr.mxFrame \in 0 .. MaxFrame
    BY <1>2, <1>4 DEF Conn, Header
  <2>4. safe <= conn[c].hdr.mxFrame
    BY <1>2, <1>4 DEF ConnOK, CheckpointOK, Copying
  <2> QED BY <2>1, <2>2, <2>3, <2>4, Bounds
<1>9. IndexOK' /\ index'.hdr = index.hdr /\ index'.nBackfill = index.nBackfill
  <2>1. CASE y < safe /\ ~busy
    <3>1. PICK mark : mark = IF i = 1 THEN safe ELSE NotUsed
      OBVIOUS
    <3>2. mark \in 0 .. NotUsed
      BY <1>8, <3>1, Bounds
    <3>3. index' = [index EXCEPT !.aReadMark[i] = mark]
      BY <1>6, <2>1, <3>1
    <3> QED BY <1>1, <1>2, <1>7, <3>2, <3>3, MarkSet DEF Whole
  <2>2. CASE ~(y < safe /\ ~busy)
    BY <1>1, <1>2, <1>6, <2>2 DEF Whole, IndexOK
  <2> QED BY <2>1, <2>2
<1>10. PICK new : new = IF busy THEN y ELSE safe
  OBVIOUS
<1>11. new \in 0 .. MaxFrame /\ new <= conn[c].hdr.mxFrame
  <2>1. busy => y < safe
    BY <1>5
  <2>2. y < safe => y \in 0 .. MaxFrame /\ y <= conn[c].hdr.mxFrame
    BY <1>8, Bounds
  <2> QED BY <1>8, <1>10, <2>1, <2>2
<1>12. PICK r : r = [conn[c] EXCEPT !.mxSafeFrame = new, !.slot = i + 1,
                                    !.pc = IF i + 1 \in Marks THEN "marks" ELSE "zero"]
  OBVIOUS
<1>13. /\ r \in Conn /\ r.pc = (IF i + 1 \in Marks THEN "marks" ELSE "zero") /\ r.slot = i + 1
       /\ r.mxSafeFrame = new /\ r.left = conn[c].left /\ r.hdr = conn[c].hdr /\ r.readLock = -1
  <2>1. i + 1 \in Nat
    BY <1>7
  <2> QED BY <1>2, <1>3, <1>11, <1>12, <2>1 DEF Conn, Steps
<1>14. /\ conn'[c] = r /\ \A d \in Conns \ {c} : conn'[d] = conn[d]
       /\ conn' = [d \in Conns |-> conn'[d]]
  BY <1>2, <1>6, <1>10, <1>12
<1>15. conn' \in [Conns -> Conn]
  <2>1. \A d \in Conns : conn'[d] \in Conn
    BY <1>2, <1>13, <1>14
  <2> QED BY <1>14, <2>1, Zenon
<1>16. FilesOK' /\ Len(log') >= Len(log)
  BY <1>1, <1>2 DEF Whole, FilesOK
<1>17. Alone(c)
  BY <1>2, <1>9, <1>14, <1>15, <1>16 DEF Alone
<1>18. r.pc \in {"marks", "zero"} /\ (r.pc = "marks" => r.slot \in Marks)
  BY <1>13
<1>19. Fits(c)
  BY <1>1, <1>2, <1>13, <1>14, <1>18 DEF Fits, Writing, Checkpointing, Whole, Exclusive
<1>20. ConnOK(c)'
  <2>1. ReaderOK(c)' /\ WriterOK(c)'
    BY <1>13, <1>14, <1>18 DEF ReaderOK, WriterOK, IgnoresLog, InTransaction, Writing
  <2>2. CheckpointOK(c)'
    BY <1>2, <1>9, <1>11, <1>13, <1>14, <1>18 DEF ConnOK, CheckpointOK, Checkpointing, Copying
  <2> QED BY <1>2, <1>13, <1>14, <2>1, <2>2 DEF ConnOK
<1> QED BY <1>9, <1>16, <1>17, <1>19, <1>20, AloneKeeps

\* It begins to copy, or gives up.
LEMMA StartCopyKeeps == ASSUME IInv, NEW c \in Conns, StartCopy(c)  PROVE IInv'
<1>1. Whole
  BY Parts
<1>2. /\ conn[c].pc = "zero"
      /\ conn \in [Conns -> Conn] /\ conn[c] \in Conn /\ ConnOK(c)
      /\ UNCHANGED <<db, unsynced, log, logSalt, index, txs, slips>>
  BY <1>1 DEF Whole, StartCopy
<1>3. synced' \in {synced, Len(log)}
  BY DEF StartCopy
<1>4. FilesOK' /\ IndexOK' /\ Len(log') >= Len(log)
  <2>1. synced' \in 0 .. Len(log') /\ Len(log) \in Nat
    BY <1>1, <1>2, <1>3 DEF Whole, FilesOK
  <2> QED BY <1>1, <1>2, <2>1 DEF Whole, FilesOK, IndexOK
<1>5. CASE conn' = [conn EXCEPT ![c] = Rest("idle")]
  BY <1>2, <1>4, <1>5, LeavingKeeps
<1>6. CASE conn' = [conn EXCEPT ![c].pc = "copy"]
  <2>1. conn[c].readLock = -1
    BY <1>2, IdleFacts DEF Checkpointing
  <2>2. PICK r : r = [conn[c] EXCEPT !.pc = "copy"]
    OBVIOUS
  <2>3. /\ r \in Conn /\ r.pc = "copy" /\ r.readLock = -1 /\ r.hdr = conn[c].hdr
        /\ r.mxSafeFrame = conn[c].mxSafeFrame /\ r.left = conn[c].left
    BY <1>2, <2>1, <2>2 DEF Conn, Steps
  <2>4. /\ conn'[c] = r /\ \A d \in Conns \ {c} : conn'[d] = conn[d]
        /\ conn' = [d \in Conns |-> conn'[d]]
    BY <1>2, <1>6, <2>2
  <2>5. conn' \in [Conns -> Conn]
    <3>1. \A d \in Conns : conn'[d] \in Conn
      BY <1>2, <2>3, <2>4
    <3> QED BY <2>4, <3>1, Zenon
  <2>6. Alone(c)
    BY <1>2, <1>4, <2>4, <2>5 DEF Alone
  <2>7. Fits(c)
    BY <1>1, <1>2, <2>3, <2>4 DEF Fits, Writing, Checkpointing, Whole, Exclusive
  <2>8. ConnOK(c)'
    <3>1. ReaderOK(c)' /\ WriterOK(c)'
      BY <2>3, <2>4 DEF ReaderOK, WriterOK, IgnoresLog, InTransaction, Writing
    <3>2. CheckpointOK(c)'
      BY <1>2, <2>3, <2>4 DEF ConnOK, CheckpointOK, Checkpointing, Copying
    <3> QED BY <1>2, <2>3, <2>4, <3>1, <3>2 DEF ConnOK
  <2> QED BY <1>4, <2>6, <2>7, <2>8, AloneKeeps
<1> QED BY <1>5, <1>6 DEF StartCopy

\* A page is copied from a frame that the log has.
LEMMA CopyKeeps == ASSUME IInv, NEW c \in Conns, Copy(c)  PROVE IInv'
<1>1. Whole
  BY Parts
<1>2. /\ conn[c].pc = "copy"
      /\ conn \in [Conns -> Conn] /\ conn[c] \in Conn /\ ConnOK(c)
      /\ UNCHANGED <<log, logSalt, synced, index, txs, slips>>
  BY <1>1 DEF Whole, Copy
<1>3. PICK w \in Wanted(c) :
        /\ db' = [db EXCEPT ![w.page] = log[w.frame].tx]
        /\ unsynced' = [unsynced EXCEPT ![w.page] = @ \cup {log[w.frame].tx}]
        /\ conn' = [conn EXCEPT ![c].left = @ \ {w}]
  BY DEF Copy
<1>4. w \in conn[c].left /\ w.page \in Pages /\ w.frame \in 1 .. Len(log)
  BY <1>2, <1>3 DEF Wanted, ConnOK, CheckpointOK, Copying, Items
<1>5. PICK page, tx : page = w.page /\ tx = log[w.frame].tx
  OBVIOUS
<1>6. page \in Pages /\ tx \in Tx
  <2>1. log[w.frame] \in Frame
    BY <1>1, <1>4 DEF Whole, FilesOK
  <2> QED BY <1>4, <1>5, <2>1 DEF Frame
<1>7. FilesOK' /\ Len(log') >= Len(log)
  <2>1. /\ db \in [Pages -> Tx] /\ unsynced \in [Pages -> SUBSET Tx]
        /\ \A p \in Pages : db[p] \in unsynced[p]
    BY <1>1 DEF Whole, FilesOK
  <2>2. db' = [db EXCEPT ![page] = tx] /\ unsynced' = [unsynced EXCEPT ![page] = @ \cup {tx}]
    BY <1>3, <1>5
  <2>3. /\ db' \in [Pages -> Tx] /\ unsynced' \in [Pages -> SUBSET Tx]
        /\ \A p \in Pages : db'[p] \in unsynced'[p]
    BY <1>6, <2>1, <2>2
  <2> QED BY <1>1, <1>2, <2>3 DEF Whole, FilesOK
<1>8. IndexOK'
  BY <1>1, <1>2 DEF Whole, IndexOK
<1>9. conn[c].readLock = -1
  BY <1>2, IdleFacts DEF Checkpointing
<1>10. PICK r : r = [conn[c] EXCEPT !.left = @ \ {w}]
  OBVIOUS
<1>11. /\ r \in Conn /\ r.pc = "copy" /\ r.readLock = -1 /\ r.hdr = conn[c].hdr
       /\ r.mxSafeFrame = conn[c].mxSafeFrame /\ r.left \subseteq conn[c].left
  BY <1>2, <1>9, <1>10 DEF Conn
<1>12. /\ conn'[c] = r /\ \A d \in Conns \ {c} : conn'[d] = conn[d]
       /\ conn' = [d \in Conns |-> conn'[d]]
  BY <1>2, <1>3, <1>10
<1>13. conn' \in [Conns -> Conn]
  <2>1. \A d \in Conns : conn'[d] \in Conn
    BY <1>2, <1>11, <1>12
  <2> QED BY <1>12, <2>1, Zenon
<1>14. Alone(c)
  BY <1>2, <1>7, <1>12, <1>13 DEF Alone
<1>15. Fits(c)
  BY <1>1, <1>2, <1>11, <1>12 DEF Fits, Writing, Checkpointing, Whole, Exclusive
<1>16. ConnOK(c)'
  <2>1. ReaderOK(c)' /\ WriterOK(c)'
    BY <1>11, <1>12 DEF ReaderOK, WriterOK, IgnoresLog, InTransaction, Writing
  <2>2. CheckpointOK(c)'
    BY <1>2, <1>11, <1>12 DEF ConnOK, CheckpointOK, Checkpointing, Copying
  <2> QED BY <1>2, <1>11, <1>12, <2>1, <2>2 DEF ConnOK
<1> QED BY <1>7, <1>8, <1>14, <1>15, <1>16, AloneKeeps

\* nBackfill becomes a number of the log; a reader that ignores the log does not
\* have the header that is there, because not all of the log had been copied.
LEMMA FinishCopyKeeps == ASSUME IInv, NEW c \in Conns, FinishCopy(c)  PROVE IInv'
<1>1. Whole
  BY Parts
<1>2. /\ conn[c].pc = "copy"
      /\ conn \in [Conns -> Conn] /\ conn[c] \in Conn /\ ConnOK(c)
      /\ conn' = [conn EXCEPT ![c] = Rest("idle")]
      /\ UNCHANGED <<db, log, logSalt, synced, txs, slips>>
  BY <1>1 DEF Whole, FinishCopy
<1>3. /\ conn[c].mxSafeFrame <= conn[c].hdr.mxFrame
      /\ slips = {} => /\ conn[c].hdr.mxFrame <= index.hdr.mxFrame
                       /\ index.nBackfill < conn[c].hdr.mxFrame
  BY <1>2 DEF ConnOK, CheckpointOK, Copying, Checkpointing
<1>4. /\ conn[c].hdr.mxFrame \in Nat /\ conn[c].mxSafeFrame \in Nat /\ index.hdr.mxFrame \in Nat
      /\ index.nBackfill \in Nat /\ conn[c].mxSafeFrame \in 0 .. MaxFrame
  <2>1. conn[c].hdr.mxFrame \in Nat /\ conn[c].mxSafeFrame \in Nat
        /\ conn[c].mxSafeFrame \in 0 .. MaxFrame
    BY <1>2, Bounds DEF Conn, Header
  <2>2. index.hdr.mxFrame \in Nat /\ index.nBackfill \in Nat
    BY <1>1, IndexTypes, Bounds DEF Whole
  <2> QED BY <2>1, <2>2
<1>5. slips = {} => /\ index.nBackfill # index.hdr.mxFrame
                    /\ conn[c].mxSafeFrame <= index.hdr.mxFrame
  BY <1>3, <1>4
<1>6. PICK n : n = conn[c].mxSafeFrame
  OBVIOUS
<1>7. index' = [index EXCEPT !.nBackfill = n]
  BY <1>6 DEF FinishCopy
<1>8. IndexOK' /\ index'.hdr = index.hdr
  <2>1. n \in 0 .. MaxFrame /\ (slips = {} => n <= index.hdr.mxFrame)
    BY <1>4, <1>5, <1>6
  <2> QED BY <1>1, <1>2, <1>7, <2>1 DEF Whole, IndexOK
<1>9. FilesOK'
  <2>1. /\ db \in [Pages -> Tx] /\ unsynced \in [Pages -> SUBSET Tx]
        /\ \A p \in Pages : db[p] \in unsynced[p]
    BY <1>1 DEF Whole, FilesOK
  <2>2. unsynced' \in [Pages -> SUBSET Tx] /\ \A p \in Pages : db[p] \in unsynced'[p]
    <3>1. CASE unsynced' = unsynced
      BY <2>1, <3>1
    <3>2. CASE unsynced' = [p \in Pages |-> {db[p]}]
      BY <2>1, <3>2
    <3> QED BY <3>1, <3>2 DEF FinishCopy
  <2> QED BY <1>1, <1>2, <2>2 DEF Whole, FilesOK
<1>10. /\ conn'[c] = Rest("idle") /\ \A d \in Conns \ {c} : conn'[d] = conn[d]
       /\ conn' \in [Conns -> Conn]
  BY <1>2, RestTyped
<1>11. \A d \in Conns \ {c} : conn[d].pc \notin Checkpointing
  BY <1>1, <1>2 DEF Whole, Exclusive, Checkpointing
<1>12. ASSUME NEW d \in Conns, d # c  PROVE ConnOK(d)'
  <2>1. conn'[d] = conn[d] /\ ConnOK(d) /\ conn[d].pc \notin Checkpointing
    BY <1>1, <1>10, <1>11, <1>12 DEF Whole
  <2>2. slips = {} => ~(IgnoresLog(d) /\ conn[d].hdr = index.hdr)
    BY <1>5, <2>1 DEF ConnOK, ReaderOK
  <2>3. ReaderOK(d)'
    BY <1>2, <1>8, <2>1, <2>2 DEF ConnOK, ReaderOK, IgnoresLog
  <2>4. WriterOK(d)'
    BY <1>2, <1>8, <2>1 DEF ConnOK, WriterOK
  <2>5. CheckpointOK(d)'
    BY <2>1 DEF CheckpointOK, Checkpointing, Copying
  <2> QED BY <1>2, <2>1, <2>3, <2>4, <2>5 DEF ConnOK
<1>13. ConnOK(c)'
  <2>1. conn'[c].pc = "idle" /\ conn'[c].readLock = -1 /\ conn'[c].hdr.salt <= txs'
    BY <1>1, <1>2, <1>10, RestTyped, BoundAssumption DEF NoHeader, Whole, FilesOK, Tx
  <2> QED BY <2>1 DEF ConnOK, ReaderOK, WriterOK, CheckpointOK, IgnoresLog,
                      InTransaction, Writing, Checkpointing, Copying
<1>14. Exclusive'
  <2>1. \A d \in Conns : conn'[d].pc \in Writing => d # c /\ conn[d].pc \in Writing
    BY <1>10, RestTyped DEF Writing
  <2>2. \A d \in Conns : conn'[d].pc \notin Checkpointing
    BY <1>10, <1>11, RestTyped DEF Checkpointing
  <2>3. \A d, e \in Conns : conn'[d].pc \in Writing /\ d # e /\ conn'[e].hdr.salt = txs' =>
          index'.hdr.salt = txs'
    <3>1. SUFFICES ASSUME NEW d \in Conns, NEW e \in Conns, conn'[d].pc \in Writing, d # e,
                          conn'[e].hdr.salt = txs'
                   PROVE  index'.hdr.salt = txs'
      OBVIOUS
    <3>2. conn[d].pc \in Writing /\ txs > 0 /\ txs' = txs /\ slips' = slips
      BY <1>1, <1>2, <2>1, <3>1 DEF Whole, ConnOK, WriterOK
    <3>3. e # c
      BY <1>10, <3>1, <3>2, RestTyped DEF NoHeader
    <3>4. conn[e].hdr.salt = txs
      BY <1>10, <3>1, <3>2, <3>3
    <3> QED BY <1>1, <1>8, <3>1, <3>2, <3>4 DEF Whole, Exclusive
  <2>4. \A d, e \in Conns : conn'[d].pc \in Writing /\ conn'[e].pc \in Writing => d = e
    BY <1>1, <2>1 DEF Whole, Exclusive
  <2> QED BY <2>2, <2>3, <2>4 DEF Exclusive
<1>15. /\ index'.hdr.mxFrame <= Len(log')
       /\ index'.hdr.change <= txs' /\ index'.hdr.salt <= txs'
  BY <1>1, <1>2, <1>8 DEF Whole
<1>16. \A d \in Conns : ConnOK(d)'
  BY <1>12, <1>13
<1> QED BY <1>8, <1>9, <1>10, <1>14, <1>15, <1>16, NextParts DEF Whole

----------------------------------------------------------------------------
(* Every step *)

\* Every step keeps the invariant.
LEMMA StepKeeps == ASSUME IInv, [Next]_vars  PROVE IInv'
<1>1. CASE UNCHANGED vars
  BY <1>1 DEF vars, IInv, Typed, TypeOK, LogOK, Exclusive, ReaderOK, WriterOK, CheckpointOK,
              IgnoresLog
<1>2. CASE PowerFail
  BY <1>2, PowerFailKeeps
<1>3. ASSUME NEW c \in Conns, Open(c) \/ Recover(c) \/ CloseLast(c) \/ Crash(c)
      PROVE  IInv'
  BY <1>3, OpenKeeps, RecoverKeeps, CloseLastKeeps, CrashKeeps
<1>4. ASSUME NEW c \in Conns, Reading(c)  PROVE IInv'
  BY <1>4, ChooseKeeps, LockMarkKeeps, ConfirmKeeps, EndKeeps DEF Reading
<1>5. ASSUME NEW c \in Conns, Writes(c)  PROVE IInv'
  BY <1>5, BeginWriteKeeps, EndKeeps, RestartLogKeeps, WriteHeaderKeeps, WriteFrameKeeps,
     SyncLogKeeps, PublishKeeps DEF Writes
<1>6. ASSUME NEW c \in Conns, Checkpoint(c)  PROVE IInv'
  BY <1>6, BeginCheckpointKeeps, PlanKeeps, CheckMarkKeeps, StartCopyKeeps, CopyKeeps,
     FinishCopyKeeps DEF Checkpoint
<1> QED BY <1>1, <1>2, <1>3, <1>4, <1>5, <1>6 DEF Next

\* The variables of the write-ahead log keep their types, whatever happens; and
\* nBackfill never exceeds mxFrame, until a checkpoint goes on with the header of a
\* log that was restarted, or a recovery comes between a reader's decision to ignore
\* the log and its lock.
THEOREM TypeCorrect == Spec => []TypeOK
<1>1. Init => IInv
  BY InitInvariant
<1>2. IInv /\ [Next]_vars => IInv'
  BY StepKeeps
<1>3. IInv => TypeOK
  BY DEF IInv, Typed
<1> QED BY <1>1, <1>2, <1>3, PTL DEF Spec
=============================================================================
