------------------------ MODULE MCThreadIndexPool ------------------------
(* Model-checking instance of ThreadIndexPool and StageCounters: a handful *)
(* of threads that start, record, exit and start again, with fewer stages  *)
(* than threads.                                                           *)
EXTENDS StageCounters, TLC

ThreadSymmetry == Permutations(Threads)
=============================================================================
