------------------------------- MODULE Workspace -------------------------------
(***************************************************************************)
(* One workspace on disk and the commands run in it.  Its state is spread  *)
(* over four stores that commit separately: the version database           *)
(* (WorkspaceDB), the object store, the local database (LocalDB: the Tip,  *)
(* the stage) and the working files.  A command is a process with an Area  *)
(* of its own, which reads the Tip once, when it loads.                    *)
(*                                                                         *)
(* Commit runs under RunLocked and inside a WorkspaceDB transaction; its   *)
(* writes to LocalDB belong to the transaction that RunLocked opened, and  *)
(* become durable after those to the version database.  Merge, update and  *)
(* rebase do not use RunLocked: they write the files first and the stage   *)
(* or the Tip in transactions of their own, which find LocalDB busy while  *)
(* a locked command runs and then fail.                                    *)
(*                                                                         *)
(* What files and versions contain is the set of the versions whose        *)
(* changes they have taken in, and Edit for changes not committed yet.     *)
(***************************************************************************)
EXTENDS Naturals, FiniteSets

CONSTANTS Procs,      \* the processes that run commands in this workspace
          Ids,        \* the versions that can be created or pulled (bound)
          Branches, Trunk,   \* Trunk: the branch the workspace is on
          Root,       \* the initial version
          Edit,       \* stands for edits of the user not committed yet
          None,
          Commands,   \* the commands that are run
          Fragile     \* those a process can die in, or leave by an exception

AllVersions == Ids \cup {Root}

ASSUME TrunkAssumption == Trunk \in Branches
ASSUME NamesAssumption ==
  /\ Root \notin Ids
  /\ Edit \notin AllVersions
  /\ None \notin AllVersions \cup Procs \cup Branches
ASSUME CommandsAssumption ==
  /\ Commands \subseteq {"commit", "merge", "update", "rebase"}
  /\ Fragile \subseteq Commands

VARIABLES
  \* the version database and the object store
  versions,  \* the Version rows
  up,        \* up[v]: the parent and the merge sources of v
  anc,       \* anc[v]: v and its ancestors
  line,      \* line[v]: v and its ancestors by Parent alone, GetHistory
  branchOf,  \* branchOf[v]: Version.Branch
  heads,     \* heads[b]: the Head rows of branch b
  tags,      \* the versions named by the Tag rows of commits
  stored,    \* the versions whose new data the object store holds
  dataless,  \* the versions without data of their own here: pulled, rebased
  \* the local database and the working files
  tip,       \* Workspace.Tip
  stage,     \* the StageOperation rows
  files,     \* what the working files contain
  \* the processes
  lock,      \* the process inside RunLocked, or None
  pc,        \* pc[p]: where its command stands
  cachedTip, \* cachedTip[p]: m_Workspace.Tip
  mergeIDs,  \* mergeIDs[p]: the staged merges Commit has read
  headMode,  \* headMode[p]: what Commit does with the heads of the branch:
             \* "move" the one its parent is, or "add" or "force" a new one
  target,    \* target[p]: the version it creates, merges or updates to
  \* history variables
  content,   \* content[v]: what version v contains
  lost,      \* the versions of rebases that died after they had moved the Tip
  torn       \* the versions whose changes may be in the files unknown to the
             \* Tip, the stage and the commands that run

versionVars == <<versions, up, anc, line, branchOf, heads, dataless, content>>
databaseVars == <<versionVars, lost, torn>>
localVars == <<tip, stage, files>>
processVars == <<pc, cachedTip, mergeIDs, headMode, target>>
vars == <<databaseVars, tags, stored, localVars, lock, processVars>>

EmptyStage == [changes |-> {}, merges |-> {}, conflict |-> FALSE]

Init ==
  /\ versions = {Root}
  /\ up = [v \in AllVersions |-> {}]
  /\ anc = [v \in AllVersions |-> IF v = Root THEN {Root} ELSE {}]
  /\ line = anc
  /\ branchOf = [v \in AllVersions |-> IF v = Root THEN Trunk ELSE None]
  /\ heads = [b \in Branches |-> IF b = Trunk THEN {Root} ELSE {}]
  /\ tags = {}
  /\ stored = {Root}
  /\ dataless = {}
  /\ tip = Root
  /\ stage = EmptyStage
  /\ files = {Root}
  /\ lock = None
  /\ pc = [p \in Procs |-> "idle"]
  /\ cachedTip = [p \in Procs |-> Root]
  /\ mergeIDs = [p \in Procs |-> {}]
  /\ headMode = [p \in Procs |-> "move"]
  /\ target = [p \in Procs |-> None]
  /\ content = [v \in AllVersions |-> IF v = Root THEN {Root} ELSE {}]
  /\ lost = {}
  /\ torn = {}

Goto(p, place) == pc' = [pc EXCEPT ![p] = place]

\* The ids no version, commit or rebase has used.
Unused == Ids \ (versions \cup tags \cup lost \cup {target[p] : p \in Procs})

\* A process inside a rebase holds the write lock of the version database.
DatabaseBusy == \E p \in Procs : pc[p] = "rebased"

\* The Version row, its MergeInfo rows and its alterations.
InsertVersion(v, b, parent, merges, data) ==
  /\ versions' = versions \cup {v}
  /\ up' = [up EXCEPT ![v] = {parent} \cup merges]
  /\ anc' = [anc EXCEPT ![v] = {v} \cup anc[parent] \cup UNION {anc[u] : u \in merges}]
  /\ line' = [line EXCEPT ![v] = {v} \cup line[parent]]
  /\ branchOf' = [branchOf EXCEPT ![v] = b]
  /\ content' = [content EXCEPT ![v] = {v} \cup data]
  /\ UNCHANGED lost

----------------------------------------------------------------------------
(* What the files hold, for the history variable torn *)

Contents(S) == UNION {content[v] : v \in S}

\* What the merges and updates that are not at their end have brought.
Running(p) == pc[p] \in {"merged", "staged", "updated"}
Underway == Contents({target[q] : q \in {r \in Procs : Running(r)}})

\* What the Tip stands for: a rebase moves it before its version has a row.
AtTip == content[tip] \cup Contents({cachedTip[q] : q \in {r \in Procs : pc[r] = "rebased"}})

\* The Tip of a command, when it is not the Tip that the process p has read.
Passed(p) == IF tip = cachedTip[p] THEN {} ELSE AtTip

----------------------------------------------------------------------------
(* The user, and short commands *)

UserEdits ==
  /\ Edit \notin files
  /\ files' = files \cup {Edit}
  /\ UNCHANGED <<databaseVars, tags, stored, tip, stage, lock, processVars>>

\* Area.Load reads the Workspace row, which the LocalDB object keeps.
Load(p) ==
  /\ pc[p] = "idle"
  /\ cachedTip' = [cachedTip EXCEPT ![p] = tip]
  /\ Goto(p, "loaded")
  /\ UNCHANGED <<databaseVars, tags, stored, localVars, lock, mergeIDs, headMode, target>>

\* RecordChanges: what differs from the Tip is staged.
Record(p) ==
  /\ pc[p] = "loaded"
  /\ lock = None
  /\ cachedTip[p] \in versions
  /\ stage' = [stage EXCEPT !.changes = @ \cup (files \ content[cachedTip[p]])]
  /\ Goto(p, "idle")
  /\ UNCHANGED <<databaseVars, tags, stored, tip, files, lock, cachedTip,
                 mergeIDs, headMode, target>>

\* Resolve: the user declares the conflicts resolved.
Resolve(p) ==
  /\ pc[p] = "loaded"
  /\ lock = None
  /\ stage.conflict
  /\ stage' = [stage EXCEPT !.conflict = FALSE]
  /\ Goto(p, "idle")
  /\ UNCHANGED <<databaseVars, tags, stored, tip, files, lock, cachedTip,
                 mergeIDs, headMode, target>>

\* A pull imports a version under RunLocked, in one WorkspaceDB transaction.
Pull(p, v, b, parent) ==
  /\ pc[p] = "loaded"
  /\ lock = None /\ ~DatabaseBusy
  /\ v \in Unused
  /\ parent \in versions
  /\ b = Trunk => branchOf[parent] = Trunk
  /\ InsertVersion(v, b, parent, {}, content[parent])
  /\ UNCHANGED torn
  /\ heads' = [heads EXCEPT ![b] = (@ \ {parent}) \cup {v}]
  /\ dataless' = dataless \cup {v}
  /\ Goto(p, "idle")
  /\ UNCHANGED <<tags, stored, localVars, lock, cachedTip, mergeIDs, headMode, target>>

\* The Version property: a Tip the database lacks is replaced by the initial
\* version.
RecoverTip(p) ==
  /\ pc[p] = "loaded"
  /\ lock = None
  /\ cachedTip[p] \notin versions
  /\ tip' = Root
  /\ torn' = AllVersions
  /\ cachedTip' = [cachedTip EXCEPT ![p] = Root]
  /\ UNCHANGED <<versionVars, lost, tags, stored, stage, files, lock, pc, mergeIDs,
                 headMode, target>>

----------------------------------------------------------------------------
(* Commit *)

\* Before RunLocked: the stage is looked at, and its merges are remembered.
BeginCommit(p) ==
  /\ "commit" \in Commands
  /\ pc[p] = "loaded"
  /\ ~stage.conflict
  /\ stage.changes # {} \/ stage.merges # {}
  /\ mergeIDs' = [mergeIDs EXCEPT ![p] = stage.merges]
  /\ Goto(p, "waiting")
  /\ UNCHANGED <<databaseVars, tags, stored, localVars, lock, cachedTip, headMode,
                 target>>

Recorded == stage.changes \cap files

\* Faulty variant of EnterCommit: the parent of the new version need not be a
\* head of the branch.
EnterCommit_AnyParent(p, v, force) ==
  /\ pc[p] = "waiting"
  /\ lock = None
  /\ cachedTip[p] \in versions
  /\ Recorded # {} \/ mergeIDs[p] # {}
  /\ v \in Unused
  /\ headMode' = [headMode EXCEPT ![p] = IF cachedTip[p] \in heads[Trunk] THEN "move" ELSE "add"]
  /\ lock' = p
  /\ target' = [target EXCEPT ![p] = v]
  /\ Goto(p, "locked")
  /\ UNCHANGED <<databaseVars, tags, stored, localVars, cachedTip, mergeIDs>>

\* Inside RunLocked: there is something to commit, and the parent is a head of
\* the branch, unless the branch has none or the commit is forced.
EnterCommit(p, v, force) ==
  /\ pc[p] = "waiting"
  /\ lock = None
  /\ cachedTip[p] \in versions
  /\ Recorded # {} \/ mergeIDs[p] # {}
  /\ v \in Unused
  /\ \E mode \in {"move", "add", "force"} :
       /\ mode = "move" <=> cachedTip[p] \in heads[Trunk]
       /\ mode = "add" <=> heads[Trunk] = {}
       /\ mode = "force" => force
       /\ headMode' = [headMode EXCEPT ![p] = mode]
  /\ lock' = p
  /\ target' = [target EXCEPT ![p] = v]
  /\ Goto(p, "locked")
  /\ UNCHANGED <<databaseVars, tags, stored, localVars, cachedTip, mergeIDs>>

\* Faulty variant of InsertTags: the tags are written before the version has
\* its id.
InsertTags_Early(p) ==
  /\ pc[p] \in {"waiting", "locked"}
  /\ ~DatabaseBusy
  /\ tags' = tags \cup {target[p]}
  /\ UNCHANGED <<databaseVars, stored, localVars, lock, processVars>>

\* AddTagNoTransaction writes the initial tags, each in a statement that
\* commits by itself: the WorkspaceDB transaction begins later.
InsertTags(p) ==
  /\ pc[p] = "locked"
  /\ ~DatabaseBusy
  /\ tags' = tags \cup {target[p]}
  /\ UNCHANGED <<databaseVars, stored, localVars, lock, processVars>>

\* Faulty variant of StoreData: the Tip moves in a transaction of its own.
StoreData_MovesTip(p) ==
  /\ pc[p] = "locked"
  /\ stored' = stored \cup {target[p]}
  /\ tip' = target[p]
  /\ Goto(p, "stored")
  /\ UNCHANGED <<databaseVars, tags, stage, files, lock, cachedTip, mergeIDs, headMode,
                 target>>

\* The tasks of RecordData end and the storage transaction commits.
StoreData(p) ==
  /\ pc[p] = "locked"
  /\ stored' = stored \cup {target[p]}
  /\ Goto(p, "stored")
  /\ UNCHANGED <<databaseVars, tags, localVars, lock, cachedTip, mergeIDs, headMode,
                 target>>

\* Faulty variant of HeadsAfter: a new head is never inserted.
HeadsAfter_NeverInserts(p) ==
  LET others == heads[Trunk] \ mergeIDs[p]
      parent == cachedTip[p]
  IN  IF parent \in heads[Trunk] THEN (others \ {parent}) \cup {target[p]} ELSE others

\* UpdateSafe of the head row found before, which does nothing when that row
\* is gone, or InsertSafe of a new one; DeleteSafe of the merged heads.
HeadsAfter(p) ==
  LET others == heads[Trunk] \ mergeIDs[p]
      parent == cachedTip[p]
  IN  CASE headMode[p] # "move"    -> others \cup {target[p]}
        [] parent \in heads[Trunk] -> (others \ {parent}) \cup {target[p]}
        [] OTHER                   -> others

\* What the files may hold and the commit of p does not know of: merges that
\* were staged after it looked, merges and updates that are not at their end,
\* and the Tip another process has moved to in the meantime.
Unaware(p) ==
  Underway \cup Passed(p) \cup UNION {anc[m] : m \in stage.merges \ mergeIDs[p]}

\* Faulty variants of CommitDatabase: the storage transaction is still open;
\* the merge information is not written.
CommitDatabase_BeforeData(p) ==
  /\ pc[p] \in {"locked", "stored"}
  /\ ~DatabaseBusy
  /\ InsertVersion(target[p], Trunk, cachedTip[p], mergeIDs[p],
                   content[cachedTip[p]] \cup (Recorded \ {Edit}))
  /\ heads' = [heads EXCEPT ![Trunk] = HeadsAfter(p)]
  /\ torn' = torn \cup Unaware(p)
  /\ Goto(p, "saved")
  /\ UNCHANGED <<tags, stored, dataless, localVars, lock, cachedTip, mergeIDs, headMode,
                 target>>

CommitDatabase_NoMergeInfo(p) ==
  /\ pc[p] = "stored"
  /\ ~DatabaseBusy
  /\ InsertVersion(target[p], Trunk, cachedTip[p], {},
                   content[cachedTip[p]] \cup (Recorded \ {Edit}))
  /\ heads' = [heads EXCEPT ![Trunk] = HeadsAfter(p)]
  /\ torn' = torn \cup Unaware(p)
  /\ Goto(p, "saved")
  /\ UNCHANGED <<tags, stored, dataless, localVars, lock, cachedTip, mergeIDs, headMode,
                 target>>

\* The WorkspaceDB transaction: the version, the merge information, the heads.
\* The deletion of reintegrated branches and the undeletion of a deleted one,
\* which come first in it, are not modelled here.
CommitDatabase(p) ==
  /\ pc[p] = "stored"
  /\ ~DatabaseBusy
  /\ InsertVersion(target[p], Trunk, cachedTip[p], mergeIDs[p],
                   content[cachedTip[p]] \cup (Recorded \ {Edit}))
  /\ heads' = [heads EXCEPT ![Trunk] = HeadsAfter(p)]
  /\ torn' = torn \cup Unaware(p)
  /\ Goto(p, "saved")
  /\ UNCHANGED <<tags, stored, dataless, localVars, lock, cachedTip, mergeIDs, headMode,
                 target>>

Leave(p) ==
  /\ lock' = IF lock = p THEN None ELSE lock
  /\ Goto(p, "idle")
  /\ mergeIDs' = [mergeIDs EXCEPT ![p] = {}]
  /\ headMode' = [headMode EXCEPT ![p] = "move"]
  /\ target' = [target EXCEPT ![p] = None]

\* The end of RunLocked commits LocalDB: the Tip and the clean stage.
FinishCommit(p) ==
  /\ pc[p] = "saved"
  /\ tip' = target[p]
  /\ stage' = EmptyStage
  /\ files' = (IF Edit \in stage.changes THEN files \ {Edit} ELSE files) \cup {target[p]}
  /\ Leave(p)
  /\ UNCHANGED <<databaseVars, tags, stored, cachedTip>>

\* An exception: the pre-commit hook refuses, the data cannot be stored, or,
\* when the version is saved already, the post-commit hook throws.  Both
\* databases are rolled back, as far as they are in a transaction.
CommitFails(p) ==
  /\ "commit" \in Fragile
  /\ pc[p] \in {"locked", "stored", "saved"}
  /\ Leave(p)
  /\ UNCHANGED <<databaseVars, tags, stored, localVars, cachedTip>>

----------------------------------------------------------------------------
(* Merge and update *)

\* The versions already taken in by the Tip or by a staged merge.
Merged(p) == anc[cachedTip[p]] \cup UNION {anc[m] : m \in stage.merges}

BeginMerge(p, v) ==
  /\ "merge" \in Commands
  /\ pc[p] = "loaded"
  /\ ~stage.conflict
  /\ cachedTip[p] \in versions
  /\ v \in versions \ Merged(p)
  /\ target' = [target EXCEPT ![p] = v]
  /\ Goto(p, "merging")
  /\ UNCHANGED <<databaseVars, tags, stored, localVars, lock, cachedTip, mergeIDs,
                 headMode>>

\* Update merges a head of the branch, when the Tip is not one.
BeginUpdate(p, v) ==
  /\ "update" \in Commands
  /\ pc[p] = "loaded"
  /\ ~stage.conflict
  /\ cachedTip[p] \in versions \ heads[Trunk]
  /\ v \in heads[Trunk]
  /\ target' = [target EXCEPT ![p] = v]
  /\ Goto(p, "updating")
  /\ UNCHANGED <<databaseVars, tags, stored, localVars, lock, cachedTip, mergeIDs,
                 headMode>>

\* The versions a three-way merge can have as its base: for an update the Tip,
\* for a merge common ancestors, the nearest, several at once by way of a
\* virtual version, or the one the user names.
Bases(p) ==
  IF pc[p] = "updating" THEN {cachedTip[p]} ELSE Merged(p) \cap anc[target[p]]

\* The files are merged one by one: what the base had and the target lacks is
\* removed.  A conflict is staged at once.
MergeFiles(p) ==
  /\ pc[p] \in {"merging", "updating"}
  /\ \E base \in (SUBSET Bases(p)) \ {{}} :
       files' = (files \ UNION {content[a] : a \in base}) \cup content[target[p]]
  /\ \/ UNCHANGED stage
     \/ lock = None /\ stage' = [stage EXCEPT !.conflict = TRUE]
  /\ Goto(p, IF pc[p] = "merging" THEN "merged" ELSE "updated")
  /\ UNCHANGED <<databaseVars, tags, stored, tip, lock, cachedTip, mergeIDs,
                 headMode, target>>

\* The delayed stage operations: the merged files are recorded.
StageFiles(p) ==
  /\ pc[p] = "merged"
  /\ lock = None
  /\ stage' = [stage EXCEPT !.changes = @ \cup content[target[p]]]
  /\ Goto(p, "staged")
  /\ UNCHANGED <<databaseVars, tags, stored, tip, files, lock, cachedTip,
                 mergeIDs, headMode, target>>

\* Faulty variant of StageMerge: the merges it contains, itself among them,
\* are removed after it was added.
StageMerge_RemovesLast(p) ==
  /\ pc[p] = "staged"
  /\ lock = None
  /\ stage' = [stage EXCEPT !.merges = (@ \cup {target[p]}) \ anc[target[p]]]
  /\ Leave(p)
  /\ UNCHANGED <<databaseVars, tags, stored, tip, files, cachedTip>>

\* At last the merge itself, in the place of staged ones it contains.
StageMerge(p) ==
  /\ pc[p] = "staged"
  /\ lock = None
  /\ stage' = [stage EXCEPT !.merges = (@ \ anc[target[p]]) \cup {target[p]}]
  /\ Leave(p)
  /\ UNCHANGED <<databaseVars, tags, stored, tip, files, cachedTip>>

\* An update ends with the Tip.  What the files held for a Tip it did not start
\* from, or hold for two updates at once, is not accounted for.
MoveTip(p) ==
  /\ pc[p] = "updated"
  /\ lock = None
  /\ tip' = target[p]
  /\ torn' = torn \cup Passed(p)
               \cup UNION {content[target[p]] : q \in {r \in Procs \ {p} : pc[r] = "updated"}}
  /\ Leave(p)
  /\ UNCHANGED <<versionVars, lost, tags, stored, stage, files, cachedTip>>

----------------------------------------------------------------------------
(* Rebase *)

\* In a WorkspaceDB transaction not committed yet, the collapsed version is
\* inserted on top of the parent; LocalDB, and with it the Tip, commits first.
RebaseTip(p, v) ==
  /\ "rebase" \in Commands
  /\ pc[p] = "loaded"
  /\ lock = None /\ ~DatabaseBusy
  /\ v \in Unused
  /\ cachedTip[p] \in versions \ {Root}
  /\ tip' = v
  /\ torn' = torn \cup Passed(p)
  /\ target' = [target EXCEPT ![p] = v]
  /\ Goto(p, "rebased")
  /\ UNCHANGED <<versionVars, lost, tags, stored, stage, files, lock, cachedTip, mergeIDs,
                 headMode>>

\* Faulty variant of RebaseCommit: nothing links the rebased version to the one
\* it replaces.
RebaseCommit_NoMergeInfo(p, parent) ==
  /\ pc[p] = "rebased"
  /\ LET v == target[p]  current == cachedTip[p] IN
       /\ parent \in line[current] \ {current}
       /\ InsertVersion(v, Trunk, parent, {}, content[current])
       /\ heads' = [heads EXCEPT ![Trunk] = (@ \ {current, parent}) \cup {v}]
       /\ dataless' = dataless \cup {v}
  /\ Leave(p)
  /\ UNCHANGED <<torn, tags, stored, localVars, cachedTip>>

\* Then WorkspaceDB commits: a version on top of the parent, with a MergeInfo
\* that names the version it replaces, and a head in the place of theirs.
RebaseCommit(p, parent) ==
  /\ pc[p] = "rebased"
  /\ LET v == target[p]  current == cachedTip[p] IN
       /\ parent \in line[current] \ {current}
       /\ InsertVersion(v, Trunk, parent, {current}, content[current])
       /\ heads' = [heads EXCEPT ![Trunk] = (@ \ {current, parent}) \cup {v}]
       /\ dataless' = dataless \cup {v}
  /\ Leave(p)
  /\ UNCHANGED <<torn, tags, stored, localVars, cachedTip>>

----------------------------------------------------------------------------
CommandOf(p) ==
  CASE pc[p] \in {"waiting", "locked", "stored", "saved"} -> "commit"
    [] pc[p] \in {"merging", "merged", "staged"} -> "merge"
    [] pc[p] \in {"updating", "updated"} -> "update"
    [] pc[p] = "rebased" -> "rebase"
    [] OTHER -> "none"

\* The process dies, or an exception (a LocalDB that is busy, say) ends its
\* command: transactions that are open are rolled back, the files are not.
Die(p) ==
  /\ CommandOf(p) \in Fragile
  /\ lost' = IF CommandOf(p) = "rebase" THEN lost \cup {target[p]} ELSE lost
  /\ torn' = torn \cup (CASE Running(p)        -> content[target[p]]
                         [] pc[p] = "rebased" -> content[cachedTip[p]]
                         [] OTHER             -> {})
  /\ Leave(p)
  /\ UNCHANGED <<versionVars, tags, stored, localVars, cachedTip>>

\* A command that has nothing to do, or that Commit refuses.
Quit(p) ==
  /\ pc[p] \in {"loaded", "waiting"}
  /\ Leave(p)
  /\ UNCHANGED <<databaseVars, tags, stored, localVars, cachedTip>>

Commit(p) ==
  \/ BeginCommit(p) \/ InsertTags(p) \/ StoreData(p) \/ CommitDatabase(p)
  \/ FinishCommit(p) \/ CommitFails(p)
  \/ \E v \in Ids, force \in BOOLEAN : EnterCommit(p, v, force)

Merge(p) ==
  \/ \E v \in AllVersions : BeginMerge(p, v) \/ BeginUpdate(p, v)
  \/ MergeFiles(p) \/ StageFiles(p) \/ StageMerge(p) \/ MoveTip(p)

Rebase(p) ==
  \/ \E v \in Ids : RebaseTip(p, v)
  \/ \E parent \in AllVersions : RebaseCommit(p, parent)

Other(p) ==
  \/ Load(p) \/ Record(p) \/ Resolve(p) \/ RecoverTip(p)
  \/ \E v \in Ids, b \in Branches, parent \in AllVersions : Pull(p, v, b, parent)
  \/ Die(p) \/ Quit(p)

Next == UserEdits \/ \E p \in Procs : Commit(p) \/ Merge(p) \/ Rebase(p) \/ Other(p)

Spec == Init /\ [][Next]_vars

----------------------------------------------------------------------------
(* Properties *)

Places == {"idle", "loaded", "waiting", "locked", "stored", "saved", "merging", "merged",
           "staged", "updating", "updated", "rebased"}

\* Every variable holds a value of its kind.
TypeOK ==
  /\ versions \subseteq AllVersions
  /\ up \in [AllVersions -> SUBSET AllVersions]
  /\ anc \in [AllVersions -> SUBSET AllVersions]
  /\ line \in [AllVersions -> SUBSET AllVersions]
  /\ branchOf \in [AllVersions -> Branches \cup {None}]
  /\ heads \in [Branches -> SUBSET AllVersions]
  /\ tags \subseteq Ids
  /\ stored \subseteq AllVersions
  /\ dataless \subseteq Ids
  /\ tip \in AllVersions
  /\ stage \in [changes : SUBSET (AllVersions \cup {Edit}), merges : SUBSET AllVersions,
                conflict : BOOLEAN]
  /\ files \subseteq AllVersions \cup {Edit}
  /\ lock \in Procs \cup {None}
  /\ pc \in [Procs -> Places]
  /\ cachedTip \in [Procs -> AllVersions]
  /\ mergeIDs \in [Procs -> SUBSET AllVersions]
  /\ headMode \in [Procs -> {"move", "add", "force"}]
  /\ target \in [Procs -> AllVersions \cup {None}]
  /\ content \in [AllVersions -> SUBSET AllVersions]
  /\ lost \subseteq Ids
  /\ torn \subseteq AllVersions

\* The data of every version committed here is in the object store, whichever
\* of the four stores a crash left behind.
DataStored == versions \ dataless \subseteq stored

\* The Tip names a version the database has, or one of a rebase that is about
\* to commit it or died before: what Commit and update write to LocalDB never
\* runs ahead of WorkspaceDB.
TipStored ==
  tip \in versions \cup lost \cup {target[p] : p \in {q \in Procs : pc[q] = "rebased"}}

\* A commit without --force never gives the branch one more head, although
\* the process read its Tip long before it got the lock.
UnforcedKeepsHeads ==
  [][\A p \in Procs :
       pc[p] = "stored" /\ pc'[p] = "saved" /\ headMode[p] # "force"
         => heads[Trunk] = {} \/ Cardinality(heads'[Trunk]) <= Cardinality(heads[Trunk])]_vars

\* A commit ends with the branch head on the version it made.
CommitBecomesHead ==
  [][\A p \in Procs : pc[p] = "stored" /\ pc'[p] = "saved" => target[p] \in heads'[Trunk]]_vars

\* What a version contains it has as an ancestor: the changes of a merged
\* version never enter the history without the merge information, whatever
\* commands interleave and die.  The exceptions, which the code does not
\* prevent, are in torn: a merge or update died after it wrote the files; a
\* commit did not see a merge that was staged after it looked, or one still
\* under way; a command moved or used a Tip that was no longer the one it had
\* read; the Tip was replaced by the initial version, and then everything is.
MergeRecorded == \A v \in versions : content[v] \subseteq anc[v] \cup torn

\* The workspace keeps the promise of VersionStore, whatever commands are run
\* at the same time and wherever they die: every version stays, with its
\* whole history, under a head of its branch.
Repository == INSTANCE VersionStore WITH written <- versions, stored <- versions

RepositoryKeepsPromise == Repository!Spec
=============================================================================
