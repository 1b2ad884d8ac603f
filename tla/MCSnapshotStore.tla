---------------------------- MODULE MCSnapshotStore ----------------------------
(* SnapshotStore with two maps. *)
EXTENDS SnapshotStore
=============================================================================
