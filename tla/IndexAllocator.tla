--------------------------- MODULE IndexAllocator ---------------------------
(***************************************************************************)
(* What the index pool promises: a thread that needs an index gets the     *)
(* least number no other thread holds, and keeps it until it gives it      *)
(* back.  How the pool remembers which numbers are free is its own affair. *)
(***************************************************************************)
EXTENDS Integers

CONSTANTS Threads,  \* the threads
          NoIndex   \* what a thread without an index holds

VARIABLE index  \* the index each thread holds

vars == index

Init == index = [t \in Threads |-> NoIndex]

Held == {index[t] : t \in Threads} \ {NoIndex}

Take(t) ==
  /\ index[t] = NoIndex
  /\ index'[t] \in Nat \ Held
  /\ 0..(index'[t] - 1) \subseteq Held
  /\ index' = [index EXCEPT ![t] = index'[t]]

Give(t) ==
  /\ index[t] # NoIndex
  /\ index' = [index EXCEPT ![t] = NoIndex]

Next == \E t \in Threads : Take(t) \/ Give(t)

Spec == Init /\ [][Next]_vars
=============================================================================
