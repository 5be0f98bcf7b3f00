---------------------------- MODULE SampleWindow ----------------------------
(***************************************************************************)
(* What the recording side of a sliding window promises: a sample belongs  *)
(* to the second it completed in, it is counted once it is recorded, and   *)
(* it stays counted for as long as its second is in the window.  How the   *)
(* counts travel between stages and ring slots cannot be seen.             *)
(***************************************************************************)
EXTENDS Integers

CONSTANTS Samples,     \* completed requests
          WindowSecs,  \* seconds in the window
          MaxTick      \* the last second the clock reaches

VARIABLES now,     \* the second of the clock
          second,  \* the second each sample completed in, once it has
          state    \* what became of each sample

vars == <<now, second, state>>

NoSecond == MaxTick + 2

Init ==
  /\ now = 0
  /\ second = [s \in Samples |-> NoSecond]
  /\ state = [s \in Samples |-> "new"]

Expired(s) == now - second[s] >= WindowSecs

Tick ==
  /\ now < MaxTick
  /\ now' = now + 1
  /\ UNCHANGED <<second, state>>

Begin(s) ==
  /\ state[s] = "new"
  /\ \E past \in 0..now : second' = [second EXCEPT ![s] = past]
  /\ state' = [state EXCEPT ![s] = "open"]
  /\ UNCHANGED now

Count(s) ==
  /\ state[s] = "open"
  /\ state' = [state EXCEPT ![s] = "counted"]
  /\ UNCHANGED <<now, second>>

\* Samples leave the window, or never enter it, only when their seconds have.
Lose ==
  /\ \E lost \in SUBSET {s \in Samples : state[s] \in {"open", "counted"} /\ Expired(s)} :
       state' = [s \in Samples |-> IF s \in lost THEN "gone" ELSE state[s]]
  /\ UNCHANGED <<now, second>>

Next == Tick \/ Lose \/ \E s \in Samples : Begin(s) \/ Count(s)

Spec == Init /\ [][Next]_vars
=============================================================================
