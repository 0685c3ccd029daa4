-------------------------- MODULE MCWorkspaceLock ---------------------------
(* A small instance of WorkspaceLock for TLC. *)
EXTENDS WorkspaceLock

\* A fresh workspace, one left by a dead process, one with an unreadable lock.
MCAnyLock == {NoFile, Garbage, GhostToken}
=============================================================================
