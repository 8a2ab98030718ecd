---------------------------- MODULE BranchJournal ----------------------------
(***************************************************************************)
(* The branch journal: how the renaming, the deletion and the undeletion   *)
(* of a branch travel between repositories.  Every change is a journal     *)
(* entry with the entries it follows as its parents; a repository keeps    *)
(* the entries it has seen, and the one that comes last, its journal tip.  *)
(* A push or a pull                                                        *)
(*                                                                         *)
(*  - sends, one at a time and without a lock, the entries the other side  *)
(*    does not have, from the tip downwards (SendBranchJournal);           *)
(*  - sends the versions that are missing;                                 *)
(*  - imports, under RunLocked and in one transaction, the entries in the  *)
(*    order of their parents, replaying each, then the versions and heads. *)
(*    Where the two journals have diverged the import writes entries of    *)
(*    its own: one for each deletion that the receiver's newer versions    *)
(*    contradict, or else an empty Merge entry.                            *)
(*                                                                         *)
(* The module follows one branch that all repositories know.  Its versions *)
(* are a chain, numbered from 0: whoever commits has updated first (forks  *)
(* are the subject of VaultPush).  ChangeMetadata entries are left out.    *)
(***************************************************************************)
EXTENDS Naturals, SequencesExt

CONSTANTS Clients, Vault,  \* the repositories
          Writers,         \* the repositories whose users make changes
          Sessions,        \* connections to the vault
          Owner,           \* Owner[s]: the client that opened session s
          Names, First,    \* branch names, and the one the branch starts with
          Answers,         \* what users answer to a deletion older than their head:
                           \* "undelete", "move" the terminus, or "accept"
          MaxEntries, MaxVersion,   \* bounds
          None

Replicas == Clients \cup {Vault}
Version == 0..MaxVersion

ASSUME JournalAssumption ==
  /\ Vault \notin Clients
  /\ Writers \subseteq Clients \cup {Vault}
  /\ Owner \in [Sessions -> Clients]
  /\ First \in Names
  /\ MaxEntries \in Nat /\ MaxVersion \in Nat
  /\ Answers \subseteq {"undelete", "move", "accept"}
  /\ None \notin Version /\ None \notin 1..MaxEntries

VARIABLES
  log,       \* all the entries ever written; an entry's identifier is its place
  made,      \* the newest version made anywhere
  db,        \* db[r]: what the database of repository r has committed
  pc,        \* pc[s]: "idle", "send", "import" or, in a pull, "imported"
  push,      \* push[s]: whether s is a push
  from,      \* from[s]: the journal tip the sender started at, or None
  stack,     \* stack[s]: openList
  checked,   \* checked[s]: RemoteCheckedBranchJournal
  received,  \* received[s]: ReceivedBranchJournals
  upto       \* upto[s]: the newest of PushedVersions, or None

sessionVars == <<push, from, stack, checked, received, upto>>
vars == <<log, made, db, pc, sessionVars>>

\* A database: its journal and journal tip; of the branch, the name, the
\* version it was deleted at, and the Head rows; the newest version it has.
Database == [journal : SUBSET (1..MaxEntries), tip : (1..MaxEntries) \cup {None},
             name : Names, terminus : Version \cup {None},
             heads : Seq(Version), latest : Version]

Init ==
  /\ log = <<>>
  /\ made = 0
  /\ db = [r \in Replicas |-> [journal |-> {}, tip |-> None, name |-> First,
                               terminus |-> None, heads |-> <<0>>, latest |-> 0]]
  /\ pc = [s \in Sessions |-> "idle"]
  /\ push = [s \in Sessions |-> FALSE]
  /\ from = [s \in Sessions |-> None]
  /\ stack = [s \in Sessions |-> <<>>]
  /\ checked = [s \in Sessions |-> {}]
  /\ received = [s \in Sessions |-> <<>>]
  /\ upto = [s \in Sessions |-> None]

----------------------------------------------------------------------------
(* Replaying an entry *)

Rename(name) == [type |-> "rename", operand |-> name]
Delete(version) == [type |-> "terminate", operand |-> version]
Undelete == [type |-> "terminate", operand |-> None]
Merge == [type |-> "merge", operand |-> None]

\* Replaying works on a record w: the database d as the transaction has it so
\* far, the conflicts met, whether no exception was thrown, the last entry.
Work(d) == [d |-> d, conflicts |-> <<>>, ok |-> TRUE, end |-> d.tip]

\* Faulty variant: a head is deleted without a look at the terminus.
DeleteHead_Always(w, x, choice) == w

\* One head row x of a branch that is being deleted at w.target.
DeleteHead(w, x, choice) ==
  IF choice = "accept" \/ ~(w.target < x) THEN w
  ELSE IF choice = "move"
       THEN [w EXCEPT !.target = x, !.conflicts = Append(@, Delete(x))]
       ELSE [w EXCEPT !.conflicts = @ \o <<Delete(x), Undelete>>]

\* All head rows of the branch, one after the other.
DeleteHeads(w, heads, choice) ==
  LET after[k \in 0..Len(heads)] ==
        IF k = 0 THEN w ELSE DeleteHead(after[k - 1], heads[k], choice)
  IN after[Len(heads)]

\* The branch is deleted at version t.  A remote deletion older than the
\* terminus is a conflict, one older than a head is settled by choice.
Terminate(w, t, remote, known, choice) ==
  IF t > known THEN [w EXCEPT !.d.terminus = t]
  ELSE IF remote /\ w.d.terminus # None /\ ~(w.d.terminus <= t)
       THEN [w EXCEPT !.conflicts = Append(@, Delete(w.d.terminus))]
       ELSE LET end == DeleteHeads([target |-> t, conflicts |-> w.conflicts],
                                   IF remote THEN w.d.heads ELSE <<>>, choice)
            IN [w EXCEPT !.d.terminus = end.target, !.d.heads = <<>>,
                         !.conflicts = end.conflicts]

\* An undeleted branch gets its terminus back as a head, if that is known.
Revive(w, known) ==
  [w EXCEPT !.d.terminus = None,
            !.d.heads = IF w.d.terminus <= known THEN Append(@, w.d.terminus) ELSE @]

\* ReplayBranchJournal.  Undeleting a branch that is not deleted parses a null
\* operand, an exception.
Replay(w, e, remote, known, choice) ==
  CASE e.type = "rename" -> [w EXCEPT !.d.name = e.operand]
    [] e.type = "merge" -> w
    [] e.type = "terminate" /\ e.operand # None ->
         Terminate(w, e.operand, remote, known, choice)
    [] e.type = "terminate" /\ e.operand = None ->
         IF w.d.terminus # None THEN Revive(w, known) ELSE [w EXCEPT !.ok = FALSE]

----------------------------------------------------------------------------
(* Changes made in a repository *)

Parents(i) == ToSet(log[i].parents)
Entry(e, parents) == [type |-> e.type, operand |-> e.operand, parents |-> parents]

\* InsertBranchJournalChangeNoTransaction: database d with the new entry i.
Insert(d, e, i) ==
  LET w == Replay(Work(d), e, FALSE, d.latest, "accept")
  IN [w.d EXCEPT !.journal = @ \cup {i}, !.tip = i]

NewId == Len(log) + 1

\* A repository writes e to its journal.
Record(r, e, d) ==
  /\ NewId <= MaxEntries
  /\ log' = Append(log, Entry(e, IF d.tip = None THEN <<>> ELSE <<d.tip>>))
  /\ UNCHANGED <<pc, sessionVars>>

RenameBranch(r, name) ==
  /\ Record(r, Rename(name), db[r])
  /\ name # db[r].name
  /\ db' = [db EXCEPT ![r] = Insert(@, Rename(name), NewId)]
  /\ UNCHANGED made

\* Only a branch with exactly one head can be deleted (GetBranchHead).
DeleteBranch(r) ==
  LET e == Delete(db[r].heads[1]) IN
  /\ Len(db[r].heads) = 1
  /\ Record(r, e, db[r])
  /\ db' = [db EXCEPT ![r] = Insert(@, e, NewId)]
  /\ UNCHANGED made

\* The head row a commit on version p moves; a commit on a version that is no
\* head is refused while the branch has one.
HeadRow(heads, p) == {i \in 1..Len(heads) : heads[i] = p}
MayCommit(d) == HeadRow(d.heads, made) # {} \/ d.heads = <<>>

\* The heads once the first row of version p, or a new one, is moved to v.
MoveHead(heads, p, v) ==
  IF HeadRow(heads, p) = {} THEN Append(heads, v)
  ELSE [heads EXCEPT ![CHOOSE i \in HeadRow(heads, p) :
                         \A j \in HeadRow(heads, p) : i <= j] = v]

\* A commit on the branch, whose parent is the newest version.
Commit(r) ==
  /\ made < MaxVersion
  /\ db[r].latest = made
  /\ db[r].terminus = None
  /\ MayCommit(db[r])
  /\ made' = made + 1
  /\ db' = [db EXCEPT ![r].heads = MoveHead(@, made, made + 1),
                      ![r].latest = made + 1]
  /\ UNCHANGED <<log, pc, sessionVars>>

\* A commit on the deleted branch undeletes it: the head that the undeletion
\* brings back is the one that moves.
CommitUndeletes(r) ==
  LET d == Insert(db[r], Undelete, NewId) IN
  /\ made < MaxVersion
  /\ db[r].latest = made
  /\ db[r].terminus # None
  /\ db[r].terminus <= made
  /\ MayCommit(db[r])
  /\ Record(r, Undelete, db[r])
  /\ made' = made + 1
  /\ db' = [db EXCEPT ![r] = [d EXCEPT !.heads = MoveHead(@, db[r].terminus, made + 1),
                                       !.latest = made + 1]]

----------------------------------------------------------------------------
(* Sending *)

Source(s) == IF push[s] THEN Owner[s] ELSE Vault
Target(s) == IF push[s] THEN Vault ELSE Owner[s]

\* The connection of s is gone, with all it kept.
Disconnect(s) ==
  /\ pc' = [pc EXCEPT ![s] = "idle"]
  /\ push' = [push EXCEPT ![s] = FALSE]
  /\ from' = [from EXCEPT ![s] = None]
  /\ stack' = [stack EXCEPT ![s] = <<>>]
  /\ checked' = [checked EXCEPT ![s] = {}]
  /\ received' = [received EXCEPT ![s] = <<>>]
  /\ upto' = [upto EXCEPT ![s] = None]

\* SendBranchJournal starts at the journal tip.
Start(s, isPush) ==
  LET tip == db[IF isPush THEN Owner[s] ELSE Vault].tip IN
  /\ pc[s] = "idle"
  /\ pc' = [pc EXCEPT ![s] = "send"]
  /\ push' = [push EXCEPT ![s] = isPush]
  /\ from' = [from EXCEPT ![s] = tip]
  /\ stack' = [stack EXCEPT ![s] = IF tip = None THEN <<>> ELSE <<tip>>]
  /\ UNCHANGED <<log, made, db, checked, received, upto>>

\* Faulty variant: only the first parent of an entry is sent.
SentNext_One(i) == SelectSeq(log[i].parents, LAMBDA j : j = log[i].parents[1])

\* What is sent after entry i when the receiver does not have it.
SentNext(i) == log[i].parents

\* The next entry of the stack: skipped if it was checked before; acknowledged
\* if the receiver has it; else received, and its parents come next.
SendEntry(s) ==
  LET i == Last(stack[s])
      rest == Front(stack[s])
      has == i \in checked[s] \/ i \in db[Target(s)].journal
  IN
  /\ pc[s] = "send"
  /\ stack[s] # <<>>
  /\ checked' = [checked EXCEPT ![s] = @ \cup {i}]
  /\ stack' = [stack EXCEPT ![s] = IF has THEN rest ELSE rest \o SentNext(i)]
  /\ received' = [received EXCEPT ![s] = IF has THEN @ ELSE Append(@, i)]
  /\ UNCHANGED <<log, made, db, pc, push, from, upto>>

\* What a session can be asked to send of the branch: a push the version of its
\* workspace, which can be any, or a head; a pull the terminus or the only head.
Wanted(s) ==
  LET d == db[Source(s)] IN
  IF push[s] THEN 0..d.latest
  ELSE IF d.terminus # None THEN {d.terminus} \cap (0..d.latest)
  ELSE IF Len(d.heads) = 1 THEN {d.heads[1]} ELSE {}

\* The missing versions are sent; none if the session is for another branch.
SendVersions(s) ==
  /\ pc[s] = "send"
  /\ stack[s] = <<>>
  /\ pc' = [pc EXCEPT ![s] = "import"]
  /\ \/ UNCHANGED upto
     \/ \E v \in Wanted(s) :
          /\ v > db[Target(s)].latest
          /\ upto' = [upto EXCEPT ![s] = v]
  /\ UNCHANGED <<log, made, db, push, from, stack, checked, received>>

----------------------------------------------------------------------------
(* Importing *)

\* One entry in the import's loop: passed over when it is done, or while a
\* parent of it is missing.
Accept(w, i, known, choice) ==
  IF i \in w.d.journal \/ ~(Parents(i) \subseteq w.d.journal) THEN w
  ELSE [Replay(w, log[i], TRUE, known, choice)
          EXCEPT !.d.journal = @ \cup {i}, !.end = i]

\* One pass of the loop over the received entries.
Pass(w, entries, known, choice) ==
  LET after[k \in 0..Len(entries)] ==
        IF k = 0 THEN w ELSE Accept(after[k - 1], entries[k], known, choice)
  IN after[Len(entries)]

\* Faulty variant: one pass, and no complaint.
AcceptAll_OnePass(d, entries, known, choice) ==
  LET w == Pass(Work(d), entries, known, choice)
  IN [w EXCEPT !.ok = w.ok /\ ToSet(entries) \cap d.journal = {}]

\* The loop goes over the received entries until all of them are accepted.  An
\* entry that is in the database already, or whose parents do not come, is an
\* exception.
AcceptAll(d, entries, known, choice) ==
  LET after[k \in 0..Len(entries)] ==
        IF k = 0 THEN Work(d) ELSE Pass(after[k - 1], entries, known, choice)
      w == after[Len(entries)]
  IN [w EXCEPT !.ok = /\ w.ok
                      /\ ToSet(entries) \cap d.journal = {}
                      /\ ToSet(entries) \subseteq w.d.journal]

\* An entry that the import writes itself.  A conflict that its replay meets
\* has nowhere to go: conflicts is null, an exception.
AddEntry(w, e, i, known) ==
  LET x == Replay([w EXCEPT !.conflicts = <<>>], e, TRUE, known, "move")
  IN [x EXCEPT !.d.journal = @ \cup {i}, !.end = i, !.ok = @ /\ x.conflicts = <<>>]

\* All of them, in the places after those the log has.
AddEntries(w, new, known) ==
  LET after[k \in 0..Len(new)] ==
        IF k = 0 THEN w ELSE AddEntry(after[k - 1], new[k], Len(log) + k, known)
  IN after[Len(new)]

\* Whether no received entry follows the receiver's tip.
Diverged(d, entries) ==
  d.tip # None /\ \A i \in ToSet(entries) : d.tip \notin Parents(i)

\* Faulty variants: the receiver's tip is linked where there is none, or never.
FirstParents_Unchecked(d, end) == <<end, d.tip>>
FirstParents_NoTip(d, end) == <<end>>

\* The parents of the first entry the import writes: the last one it accepted
\* and the receiver's tip.
FirstParents(d, end) == <<end>> \o (IF d.tip = None THEN <<>> ELSE <<d.tip>>)

\* The entries the import writes: the conflicts, or a Merge, each after the last.
Additions(d, w, entries) ==
  LET es == IF w.conflicts # <<>> THEN w.conflicts
            ELSE IF Diverged(d, entries) THEN <<Merge>> ELSE <<>>
  IN [k \in 1..Len(es) |->
        Entry(es[k], IF k = 1 THEN FirstParents(d, w.end) ELSE <<Len(log) + k - 1>>)]

\* ImportBranchJournal: what it adds to the log, and the database it leaves.
ImportJournal(d, entries, known, choice) ==
  LET w == AcceptAll(d, entries, known, choice)
      new == Additions(d, w, entries)
      x == AddEntries(w, new, known)
  IN IF entries = <<>> THEN [new |-> <<>>, d |-> d, ok |-> TRUE]
     ELSE [new |-> new, d |-> [x.d EXCEPT !.tip = x.end], ok |-> x.ok]

\* The versions follow, and the heads they supersede become v.  The server
\* does so whether the branch is deleted or not, and rejects a push onto a
\* branch of several heads; a client leaves the heads of a deleted branch alone.
ImportVersions(d, v, isPush) ==
  [d EXCEPT !.latest = IF @ < v THEN v ELSE @,
            !.heads = IF \/ ~isPush /\ d.terminus # None
                         \/ \E h \in ToSet(@) : h > v
                      THEN @ ELSE <<v>>]

\* The answer of the user; on the server nobody is asked.
AnswersOf(s) == IF push[s] THEN {"move"} ELSE Answers

Outcome(s, choice) ==
  LET d == db[Target(s)]
      known == IF upto[s] = None \/ d.latest >= upto[s] THEN d.latest ELSE upto[s]
  IN ImportJournal(d, received[s], known, choice)

Accepted(s, o) == o.ok /\ ~(push[s] /\ upto[s] # None /\ Len(o.d.heads) > 1)

\* PushHead on the server, PullVersions on the client, for the branch.
Import(s) ==
  /\ pc[s] = "import"
  /\ \E choice \in AnswersOf(s) :
       LET o == Outcome(s, choice) IN
       /\ Accepted(s, o)
       /\ Len(log) + Len(o.new) <= MaxEntries
       /\ log' = log \o o.new
       /\ db' = [db EXCEPT ![Target(s)] =
                   IF upto[s] = None THEN o.d ELSE ImportVersions(o.d, upto[s], push[s])]
  /\ IF push[s] THEN Disconnect(s)
     ELSE pc' = [pc EXCEPT ![s] = "imported"] /\ UNCHANGED sessionVars
  /\ UNCHANGED made

\* pull --all goes on with the next branch over the same connection, which
\* keeps what it has checked and received.
NextBranch(s) ==
  LET tip == db[Vault].tip IN
  /\ pc[s] = "imported"
  /\ pc' = [pc EXCEPT ![s] = "send"]
  /\ from' = [from EXCEPT ![s] = tip]
  /\ stack' = [stack EXCEPT ![s] = IF tip = None THEN <<>> ELSE <<tip>>]
  /\ UNCHANGED <<log, made, db, push, checked, received, upto>>

\* The import throws or the push is rejected: the transaction is rolled back.
Refuse(s) ==
  /\ pc[s] = "import"
  /\ \E choice \in AnswersOf(s) : ~Accepted(s, Outcome(s, choice))
  /\ Disconnect(s)
  /\ UNCHANGED <<log, made, db>>

\* The connection ends, or breaks.
Close(s) ==
  /\ pc[s] # "idle"
  /\ Disconnect(s)
  /\ UNCHANGED <<log, made, db>>

Next ==
  \/ \E r \in Writers :
       \/ \E name \in Names : RenameBranch(r, name)
       \/ DeleteBranch(r)
       \/ Commit(r)
       \/ CommitUndeletes(r)
  \/ \E s \in Sessions :
       \/ \E isPush \in BOOLEAN : Start(s, isPush)
       \/ SendEntry(s)
       \/ SendVersions(s)
       \/ Import(s)
       \/ NextBranch(s)
       \/ Refuse(s)
       \/ Close(s)

Spec == Init /\ [][Next]_vars

----------------------------------------------------------------------------
(* Properties *)

\* Types, and that an entry's parents are older entries.
TypeOK ==
  /\ Len(log) <= MaxEntries
  /\ \A i \in 1..Len(log) : log[i].parents \in Seq(1..(i - 1))
  /\ made \in Version
  /\ db \in [Replicas -> Database]
  /\ pc \in [Sessions -> {"idle", "send", "import", "imported"}]
  /\ push \in [Sessions -> BOOLEAN]
  /\ from \in [Sessions -> (1..Len(log)) \cup {None}]
  /\ stack \in [Sessions -> Seq(1..Len(log))] /\ received \in [Sessions -> Seq(1..Len(log))]
  /\ checked \in [Sessions -> SUBSET (1..Len(log))]
  /\ upto \in [Sessions -> Version \cup {None}]

\* An entry and all the entries it follows.
Ancestry ==
  LET above[i \in 1..Len(log)] == {i} \cup UNION {above[j] : j \in Parents(i)}
  IN above
Followed(i) == IF i = None THEN {} ELSE Ancestry[i]

\* The journal of a repository is its tip and all that the tip follows: what
\* SendBranchJournal relies on when it only walks down from the tip.  Imports
\* and local changes in any order leave no entry behind and miss none.
TipIsLast == \A r \in Replicas : db[r].journal = Followed(db[r].tip)

\* When an import begins, the parents of what it received are in its journal or
\* among what it received: "Error while importing branch journal!" is never
\* thrown because of an entry that was not sent.
NothingMissing ==
  \A s \in Sessions : pc[s] = "import" =>
    \A i \in ToSet(received[s]) :
      Parents(i) \subseteq ToSet(received[s]) \cup db[Target(s)].journal

\* An import that is committed gives the receiver every entry the sender had
\* when it started to send, even those it only told it about by their children.
ImportDelivers ==
  [][\A s \in Sessions : Import(s) =>
       Followed(from[s]) \subseteq db'[Target(s)].journal]_vars

\* No change of a branch loses a head: where a version stops being one, the
\* head that takes its place follows it, or the branch is deleted at a version
\* not before it, unless a user accepted an older deletion.  A journal that
\* speaks of versions the repository does not have may leave it without any
\* head until they come.
HeadsSurvive ==
  [][\A r \in Replicas : \A h \in ToSet(db[r].heads) :
       \/ \E g \in ToSet(db'[r].heads) : g >= h
       \/ db'[r].terminus # None /\ db'[r].terminus >= h
       \/ db'[r].terminus = None /\ db'[r].heads = <<>>]_vars

=============================================================================
