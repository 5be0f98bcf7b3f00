------------------------- MODULE MCSlidingWindow -------------------------
(* Model-checking instance of SlidingWindow: a three-second ring, so that  *)
(* a stage is moved at age one, kept in place at age two and discarded at  *)
(* age three.                                                              *)
EXTENDS SlidingWindow, TLC

SampleSymmetry == Permutations(Samples)
=============================================================================
