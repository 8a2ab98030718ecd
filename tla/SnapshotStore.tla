---------------------------- MODULE SnapshotStore ----------------------------
(***************************************************************************)
(* What a database in WAL mode promises to its connections.  A transaction *)
(* sees one image of the database, the latest when it began, until it      *)
(* ends.  It may write only while its image is still the latest and nobody *)
(* else writes.  Its change becomes visible at once and as a whole, and    *)
(* only when no failure can undo it any more.  When all processes have     *)
(* died, or the power has failed, the database holds one of the images     *)
(* that survive: the latest one, or the change of a writer that did not    *)
(* come to its end.                                                        *)
(***************************************************************************)
CONSTANTS Conns,   \* connections
          Image,   \* the contents the database can have
          None     \* no image

VARIABLES stored,     \* the latest image
          survivors,  \* the images that a failure now may leave
          seen,       \* seen[c]: the image the transaction of c sees
          draft       \* draft[c]: the image the transaction of c writes

vars == <<stored, survivors, seen, draft>>

NoneOf == [c \in Conns |-> None]

Init ==
  /\ stored \in Image
  /\ survivors = {stored}
  /\ seen = NoneOf /\ draft = NoneOf

Begin(c) ==
  /\ seen[c] = None
  /\ seen' = [seen EXCEPT ![c] = stored]
  /\ UNCHANGED <<stored, survivors, draft>>

BeginWrite(c) ==
  /\ seen[c] = stored
  /\ draft = NoneOf
  /\ \E image \in Image : draft' = [draft EXCEPT ![c] = image]
  /\ UNCHANGED <<stored, survivors, seen>>

\* A writer works on what is to survive; nobody else adds to it.
Prepare(c) ==
  /\ draft[c] # None
  /\ survivors' \in SUBSET (survivors \cup {stored, draft[c]}) \ {{}}
  /\ UNCHANGED <<stored, seen, draft>>

\* Any connection may make the latest image last, or end what could survive.
Harden ==
  /\ UNCHANGED <<stored, seen, draft>>
  /\ survivors' \in SUBSET (survivors \cup {stored}) \ {{}}

Commit(c) ==
  /\ draft[c] # None
  /\ survivors = {draft[c]}
  /\ stored' = draft[c]
  /\ seen' = [seen EXCEPT ![c] = None]
  /\ draft' = [draft EXCEPT ![c] = None]
  /\ UNCHANGED survivors

End(c) ==
  /\ seen' = [seen EXCEPT ![c] = None]
  /\ draft' = [draft EXCEPT ![c] = None]
  /\ UNCHANGED <<stored, survivors>>

Fail ==
  /\ stored' \in survivors
  /\ survivors' \in SUBSET survivors /\ stored' \in survivors'
  /\ seen' = NoneOf /\ draft' = NoneOf

Next ==
  \/ Harden \/ Fail
  \/ \E c \in Conns : Begin(c) \/ BeginWrite(c) \/ Prepare(c) \/ Commit(c) \/ End(c)

Spec == Init /\ [][Next]_vars
=============================================================================
