------------------------- MODULE ThreadIndexPool -------------------------
(***************************************************************************)
(* The pool of thread indices of src/src/shard.rs.                         *)
(*                                                                         *)
(* Every thread that records draws an index from one process-wide pool,    *)
(* keeps it in its thread-local storage, and returns it when that storage  *)
(* is torn down.  The index selects the thread's stage in every sliding    *)
(* window, its stamp line in every route and its shard of the lifetime     *)
(* counters.  Threads below MaxStages own their stage and line: the plain  *)
(* load-and-store updates of a stage are correct only because no two live  *)
(* threads ever hold the same index.                                       *)
(*                                                                         *)
(* acquire and release hold the pool's mutex from their first to their     *)
(* last access, so each is one action.  handed_out reads `next' without    *)
(* the lock; `next' changes by a single fetch_add, so any value it had is  *)
(* what a reader may see.                                                  *)
(***************************************************************************)
EXTENDS Integers, Sequences, FiniteSets, Functions

CONSTANTS Threads,    \* operating-system threads that may record
          MaxStages   \* MAX_STAGES: stages and stamp lines (64 in the code)

ASSUME StagesAssumption == MaxStages \in Nat \ {0}

VARIABLES next,      \* next index handed out when none was released
          released,  \* released indices, descending, so the lowest is last
          index,     \* the index each live thread owns
          life,      \* where each thread stands with its INDEX thread-local
          peak       \* history: most threads that held an index at one time

vars == <<next, released, index, life, peak>>

(***************************************************************************)
(* "new": INDEX not initialised; "live": INDEX holds an index; "torn": its *)
(* destructor ran, so thread_index returns None for the rest of the        *)
(* thread's life.                                                          *)
(***************************************************************************)
Lives == {"new", "live", "torn"}

NoIndex == -1

Live == {t \in Threads : life[t] = "live"}

Held == {index[t] : t \in Live}

Released == Range(released)

TypeOK ==
  /\ next \in Nat
  /\ released \in Seq(Nat)
  /\ index \in [Threads -> Nat \cup {NoIndex}]
  /\ life \in [Threads -> Lives]
  /\ peak \in Nat

Init ==
  /\ next = 0
  /\ released = <<>>
  /\ index = [t \in Threads |-> NoIndex]
  /\ life = [t \in Threads |-> "new"]
  /\ peak = 0

-----------------------------------------------------------------------------
(* What acquire and release do to the vector of released indices.          *)

\* Vec::partition_point for the predicate "greater than i": in a descending
\* vector, how many entries come before the place of i.
PartitionPoint(seq, i) == Cardinality({j \in DOMAIN seq : seq[j] > i})

\* Vec::insert of e after the first p entries.
InsertAfter(seq, p, e) ==
  [j \in 1..(Len(seq) + 1) |->
     IF j <= p THEN seq[j] ELSE IF j = p + 1 THEN e ELSE seq[j - 1]]

\* The index acquire returns: the last of the released ones, or a fresh one.
Popped == IF released = <<>> THEN next ELSE released[Len(released)]

-----------------------------------------------------------------------------
(* Actions.                                                                *)

\* The operators marked "mistake" are plausible wrong versions of the
\* definition that follows them; the properties notice each of them.

\* mistake: always a fresh index
AcquireFresh(t) ==
  /\ life[t] = "new"
  /\ index' = [index EXCEPT ![t] = next]
  /\ next' = next + 1
  /\ life' = [life EXCEPT ![t] = "live"]
  /\ peak' = IF Cardinality(Live') > peak THEN Cardinality(Live') ELSE peak
  /\ UNCHANGED released

\* mistake: the last released index is read but left in the pool
AcquireWithoutPop(t) ==
  /\ life[t] = "new"
  /\ index' = [index EXCEPT ![t] = Popped]
  /\ next' = IF released = <<>> THEN next + 1 ELSE next
  /\ life' = [life EXCEPT ![t] = "live"]
  /\ peak' = IF Cardinality(Live') > peak THEN Cardinality(Live') ELSE peak
  /\ UNCHANGED released

\* The first access to INDEX: the initialiser of the thread-local acquires.
Acquire(t) ==
  /\ life[t] = "new"
  /\ index' = [index EXCEPT ![t] = Popped]
  /\ IF released = <<>>
     THEN next' = next + 1 /\ UNCHANGED released
     ELSE released' = SubSeq(released, 1, Len(released) - 1) /\ UNCHANGED next
  /\ life' = [life EXCEPT ![t] = "live"]
  /\ peak' = IF Cardinality(Live') > peak THEN Cardinality(Live') ELSE peak

\* mistake: the index goes to the end, unsorted
ReleasePush(t) ==
  /\ life[t] = "live"
  /\ released' = Append(released, index[t])
  /\ index' = [index EXCEPT ![t] = NoIndex]
  /\ life' = [life EXCEPT ![t] = "torn"]
  /\ UNCHANGED <<next, peak>>

\* mistake: the thread forgets its index before returning it
ReleaseForgotten(t) ==
  /\ life[t] = "live"
  /\ released' = InsertAfter(released, PartitionPoint(released, NoIndex), NoIndex)
  /\ index' = [index EXCEPT ![t] = NoIndex]
  /\ life' = [life EXCEPT ![t] = "torn"]
  /\ UNCHANGED <<next, peak>>

\* The thread exits: ThreadIndex::drop returns the index in sorted position.
Release(t) ==
  /\ life[t] = "live"
  /\ released' = InsertAfter(released, PartitionPoint(released, index[t]),
                             index[t])
  /\ index' = [index EXCEPT ![t] = NoIndex]
  /\ life' = [life EXCEPT ![t] = "torn"]
  /\ UNCHANGED <<next, peak>>

\* The thread is gone; the name may stand for a thread started later.
Respawn(t) ==
  /\ life[t] = "torn"
  /\ life' = [life EXCEPT ![t] = "new"]
  /\ UNCHANGED <<next, released, index, peak>>

Next == \E t \in Threads : Acquire(t) \/ Release(t) \/ Respawn(t)

Spec == Init /\ [][Next]_vars

-----------------------------------------------------------------------------
(* What the rest of the crate derives from an index.                       *)

\* live_indices: how many stages and stamp lines a reader looks at.
LiveIndices == IF next < MaxStages THEN next ELSE MaxStages

\* mistake: the bound is inclusive
OwnsStageInclusive(t) == life[t] = "live" /\ index[t] <= MaxStages

\* SlidingWindow::record gives a stage to the indices below MAX_STAGES.
OwnsStage(t) == life[t] = "live" /\ index[t] < MaxStages

-----------------------------------------------------------------------------
(* Properties.                                                             *)

\* "The index is stable for the thread's lifetime and unique among live
\* threads" (shard.rs:94), in the strength the pool needs to keep it so: every
\* index handed out is either held by exactly one live thread or waits exactly
\* once in the pool.
IndicesPartitioned ==
  /\ \A t, u \in Live : t # u => index[t] # index[u]
  /\ IsInjective(released)
  /\ Held \cap Released = {}
  /\ Held \cup Released = 0..(next - 1)

\* The released indices stay strictly descending, whatever order threads exit
\* in: this is what lets acquire pop the lowest from the end (shard.rs:28-29).
ReleasedDescending ==
  \A i, j \in DOMAIN released : i < j => released[i] > released[j]

\* live_indices is "the most threads that ever recorded at the same time"
\* (shard.rs:102): churn alone never grows the index space, so a process with
\* at most MAX_STAGES recording threads at once always has a stage for each.
SpaceIsCompact ==
  /\ next = peak
  /\ \A t \in Live : index[t] < peak
=============================================================================
