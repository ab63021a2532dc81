-------------------------- MODULE MCSnapshotStore --------------------------
(* SnapshotStore for TLC.  The threads are interchangeable. *)
EXTENDS SnapshotStore, TLC

Perms == Permutations(Threads)
=============================================================================
