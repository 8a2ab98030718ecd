--------------------------- MODULE MCWorkspaceLock ---------------------------
(* WorkspaceLock on three sessions: two that only use RunLocked, and one     *)
(* that also runs transactions outside it.                                   *)
EXTENDS WorkspaceLock
CONSTANTS s1, s2, s3

AllSessions == {s1, s2, s3}
OneDirect == {s3}
=============================================================================
