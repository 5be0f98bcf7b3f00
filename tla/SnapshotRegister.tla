-------------------------- MODULE SnapshotRegister --------------------------
(***************************************************************************)
(* What the snapshot cache promises its callers: it behaves like one       *)
(* register.  A poll is answered with the snapshot the register held at    *)
(* some moment during the poll, when that snapshot was younger than the    *)
(* refresh interval, or with the one it just put there; the register is    *)
(* renewed only when what it holds is no longer fresh.                     *)
(***************************************************************************)
EXTENDS Integers

CONSTANTS Callers,  \* those that ask for a snapshot
          MaxTime,  \* the last instant the clock reaches
          Refresh   \* how long a snapshot is fresh

VARIABLES now,      \* the clock
          version,  \* the snapshot in the register: 0 for none, then 1, 2, ...
          at,       \* when it was put there
          stage,    \* where each caller's poll stands
          answer    \* the snapshot the poll is answered with, or 0

vars == <<now, version, at, stage, answer>>

Init ==
  /\ now = 0
  /\ version = 0
  /\ at = 0
  /\ stage = [c \in Callers |-> "idle"]
  /\ answer = [c \in Callers |-> 0]

Fresh == version # 0 /\ now - at < Refresh

Tick ==
  /\ now < MaxTime
  /\ now' = now + 1
  /\ UNCHANGED <<version, at, stage, answer>>

Ask(c) ==
  /\ stage[c] = "idle"
  /\ stage' = [stage EXCEPT ![c] = "asked"]
  /\ UNCHANGED <<now, version, at, answer>>

\* The poll is decided: it reads the register.
Read(c) ==
  /\ stage[c] = "asked"
  /\ Fresh
  /\ stage' = [stage EXCEPT ![c] = "served"]
  /\ answer' = [answer EXCEPT ![c] = version]
  /\ UNCHANGED <<now, version, at>>

\* The register is renewed, by the poll of one caller or by one whose caller
\* has gone.
Renew ==
  /\ ~Fresh
  /\ version' = version + 1
  /\ at' = now
  /\ \/ UNCHANGED <<stage, answer>>
     \/ \E c \in Callers :
          /\ stage[c] = "asked"
          /\ stage' = [stage EXCEPT ![c] = "served"]
          /\ answer' = [answer EXCEPT ![c] = version']
  /\ UNCHANGED now

\* The caller has its answer, or gives up before.
Leave(c) ==
  /\ stage[c] # "idle"
  /\ stage' = [stage EXCEPT ![c] = "idle"]
  /\ answer' = [answer EXCEPT ![c] = 0]
  /\ UNCHANGED <<now, version, at>>

Next == Tick \/ Renew \/ \E c \in Callers : Ask(c) \/ Read(c) \/ Leave(c)

Spec == Init /\ [][Next]_vars
=============================================================================
