----------------------- MODULE MCRequestAccounting -----------------------
(* Model-checking instance of RequestAccounting: three requests that start *)
(* and finish on any of two shards while the gauge is read.                *)
EXTENDS RequestAccounting, TLC

RequestSymmetry == Permutations(Requests) \cup Permutations(Shards)
=============================================================================
