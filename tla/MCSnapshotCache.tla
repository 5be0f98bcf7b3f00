-------------------------- MODULE MCSnapshotCache --------------------------
(* Model-checking instance of SnapshotCache.                               *)
EXTENDS SnapshotCache
=============================================================================
