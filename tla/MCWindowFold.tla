-------------------------- MODULE MCWindowFold --------------------------
(* Model-checking instances of WindowFold: one fold after another over two *)
(* recording threads, in a three-second window.                            *)
EXTENDS WindowFold, TLC

\* The bound of the largest instance: recorders lag by at most MaxStale seconds.
OnTime == ~late

SampleSymmetry == Permutations(Samples)
=============================================================================
