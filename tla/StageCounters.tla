--------------------------- MODULE StageCounters ---------------------------
(***************************************************************************)
(* The index pool together with what it is for: threads that add samples   *)
(* to the counters of one second, and a reader that sums them without a    *)
(* lock.  A slot of src/src/histogram.rs keeps several counters, added to  *)
(* one after the other; SlidingWindow moves them together, this module     *)
(* takes them apart and keeps the second fixed instead.                    *)
(*                                                                         *)
(* The owner of a stage replaces each atomic addition by a load and a      *)
(* store, which loses counts as soon as two threads own one stage.         *)
(* Threads beyond the stages, and threads whose thread-local storage is    *)
(* gone, add atomically to the slot of the shared ring.                    *)
(***************************************************************************)
EXTENDS ThreadIndexPool

CONSTANT MaxSamples  \* samples recorded in all

VARIABLES count,   \* the counters of each stage and of the ring slot
          step,    \* the counter each thread adds to next, or "idle"
          loaded,  \* what the owner of a stage loaded from it, or Nothing
          added,   \* history: additions made to each counter, wherever
          reader   \* the read of all stages and the ring slot

counterVars == <<count, step, loaded, added>>
allVars == <<vars, counterVars, reader>>

\* Slot::requests; one status class, "errors"; Slot::buckets.
Fields == {"requests", "errors", "latency"}

Ring == MaxStages
SlotsOfSecond == 0..MaxStages

Nothing == -1

\* The reader is at a slot, has read them all, or is not reading.
AllRead == Ring + 1
NotReading == -1

NoSums == [f \in Fields |-> 0]

CountersInit ==
  /\ Init
  /\ count = [p \in SlotsOfSecond |-> NoSums]
  /\ step = [t \in Threads |-> "idle"]
  /\ loaded = [t \in Threads |-> Nothing]
  /\ added = NoSums
  /\ reader = [at |-> NotReading, limit |-> 0, next |-> "requests",
               sums |-> NoSums, before |-> NoSums]

-----------------------------------------------------------------------------
(* Recording.                                                              *)

\* mistake: the error class is counted before the request
AfterErrorsFirst(field) ==
  IF field = "idle" THEN {"errors", "requests"}
  ELSE IF field = "errors" THEN {"requests"}
  ELSE IF field = "requests" THEN {"latency"} ELSE {"idle"}

\* The order of Slot::add and add_owned: the request, its status class if it
\* has one of interest, its latency.
After(field) ==
  IF field = "idle" THEN {"requests"}
  ELSE IF field = "requests" THEN {"errors", "latency"}
  ELSE IF field = "errors" THEN {"latency"} ELSE {"idle"}

Proceed(t) == \E field \in After(step[t]) : step' = [step EXCEPT ![t] = field]

\* SlidingWindow::record; the second is that of the stage.
BeginRecord(t) ==
  /\ step[t] = "idle"
  /\ life[t] # "new"
  /\ added["requests"] + Cardinality({u \in Threads : step[u] # "idle"}) < MaxSamples
  /\ Proceed(t)
  /\ UNCHANGED <<vars, count, loaded, added, reader>>

\* bump reads the counter.
LoadCount(t) ==
  /\ step[t] # "idle"
  /\ OwnsStage(t) /\ loaded[t] = Nothing
  /\ loaded' = [loaded EXCEPT ![t] = count[index[t]][step[t]]]
  /\ UNCHANGED <<vars, count, step, added, reader>>

\* bump writes it.
StoreCount(t) ==
  /\ step[t] # "idle"
  /\ OwnsStage(t) /\ loaded[t] # Nothing
  /\ count' = [count EXCEPT ![index[t]][step[t]] = loaded[t] + 1]
  /\ added' = [added EXCEPT ![step[t]] = @ + 1]
  /\ loaded' = [loaded EXCEPT ![t] = Nothing]
  /\ Proceed(t)
  /\ UNCHANGED <<vars, reader>>

\* Slot::add adds atomically to the ring slot.
AddToRing(t) ==
  /\ step[t] # "idle"
  /\ ~OwnsStage(t)
  /\ count' = [count EXCEPT ![Ring][step[t]] = @ + 1]
  /\ added' = [added EXCEPT ![step[t]] = @ + 1]
  /\ Proceed(t)
  /\ UNCHANGED <<vars, loaded, reader>>

\* The pool's steps; a thread exits, and its name returns, between records.
PoolStep(t) ==
  /\ \/ Acquire(t)
     \/ step[t] = "idle" /\ (Release(t) \/ Respawn(t))
  /\ UNCHANGED <<counterVars, reader>>

-----------------------------------------------------------------------------
(* Reading, as read_stages and then the walk over the ring do.             *)

\* live_indices is read once per pass.
Limit == LiveIndices

StartRead ==
  /\ reader.at = NotReading
  /\ reader' = [at |-> IF Limit = 0 THEN Ring ELSE 0, limit |-> Limit,
                next |-> "requests", sums |-> NoSums, before |-> added]
  /\ UNCHANGED <<vars, counterVars>>

\* The slot after this one: the stages below the limit, then the ring.
NextPlace ==
  IF reader.at = Ring THEN AllRead
  ELSE IF reader.at + 1 < reader.limit THEN reader.at + 1 ELSE Ring

\* Slot::read loads the counters in the order they are added in; a slot
\* without requests is skipped.
ReadCount ==
  /\ reader.at \in SlotsOfSecond
  /\ LET value == count[reader.at][reader.next]
         over == reader.next = "latency" \/ (reader.next = "requests" /\ value = 0)
     IN reader' = [reader EXCEPT
          !.sums[reader.next] = @ + value,
          !.at = IF over THEN NextPlace ELSE @,
          !.next = IF over THEN "requests"
                   ELSE IF @ = "requests" THEN "errors" ELSE "latency"]
  /\ UNCHANGED <<vars, counterVars>>

EndRead ==
  /\ reader.at = AllRead
  /\ reader' = [reader EXCEPT !.at = NotReading, !.limit = 0,
                              !.sums = NoSums, !.before = NoSums]
  /\ UNCHANGED <<vars, counterVars>>

CountersNext ==
  \/ \E t \in Threads : PoolStep(t) \/ BeginRecord(t) \/ LoadCount(t)
                          \/ StoreCount(t) \/ AddToRing(t)
  \/ StartRead \/ ReadCount \/ EndRead

CountersSpec == CountersInit /\ [][CountersNext]_allVars

-----------------------------------------------------------------------------
(* Properties.                                                             *)

Total(f) == FoldFunctionOnSet(LAMBDA slot, sum : slot[f] + sum, 0, count, SlotsOfSecond)

\* No addition is ever lost to a load and store of another thread, however
\* threads start, exit and inherit stages: every counter holds exactly the
\* additions made to it (histogram.rs:193-201, shard.rs:94-97).
CountersExact == \A f \in Fields : Total(f) = added[f]

\* A lock-free read is between the counts when it began and the counts when it
\* ended, counter by counter: the stages below live_indices and the ring are
\* all there is, and skipping a slot without requests skips nothing that was
\* recorded before the read.
ReadBetween ==
  reader.at = AllRead =>
    \A f \in Fields : reader.before[f] <= reader.sums[f] /\ reader.sums[f] <= added[f]

\* The pool is an allocator of the least free index (IndexAllocator): "reused
\* lowest first" (shard.rs:21-24), over any interleaving of starts and exits.
Allocator == INSTANCE IndexAllocator

ImplementsAllocator == Allocator!Spec
=============================================================================
