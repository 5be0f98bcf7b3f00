-------------------------- MODULE SlidingWindow --------------------------
(***************************************************************************)
(* The recording side of the sliding window of src/src/histogram.rs: a     *)
(* ring of one-second slots shared by all threads, and one stage per       *)
(* recording thread.  A thread adds to its own stage without atomic        *)
(* read-modify-writes; when it records a later second it first moves the   *)
(* stage into the ring slot of the second the stage holds.  A slot is      *)
(* recycled, through the mark TickResetting, by the first thread that      *)
(* reaches it with a newer second.                                         *)
(*                                                                         *)
(* Every access to shared memory is an action; accesses that only the      *)
(* owner of a stage can make between two shared ones are joined with the   *)
(* shared one.  The code's fences and orderings make a read that saw a     *)
(* counter change also see the tick change before it, so the steps         *)
(* interleave in one order that all threads agree on.                      *)
(*                                                                         *)
(* A counter is modelled by the set of samples it has counted: its value   *)
(* is the size of the set.  Requests, status and latency counters of one   *)
(* second move together, so one set stands for the 278 counters.           *)
(***************************************************************************)
EXTENDS Integers, FiniteSets

CONSTANTS Threads,     \* thread indices (see ThreadIndexPool: one thread each)
          MaxStages,   \* MAX_STAGES: the indices below it own a stage
          WindowSecs,  \* WINDOW_SECS: seconds in the window, slots in the ring
          MaxTick,     \* the last second the clock reaches
          MaxStale,    \* seconds a recorder may lag behind the clock (see late)
          Samples,     \* completed requests
          NoSample     \* none of them

ASSUME WindowAssumption ==
  /\ Threads \subseteq Nat
  /\ MaxStages \in Nat
  /\ WindowSecs \in Nat \ {0, 1}
  /\ MaxTick \in Nat
  /\ MaxStale \in Nat
  /\ NoSample \notin Samples

(***************************************************************************)
(* TICK_RESETTING is u64::MAX - 1 and TICK_EMPTY is u64::MAX: both above   *)
(* every second, and compared as numbers with seconds by the code.         *)
(***************************************************************************)
TickResetting == MaxTick + 1
TickEmpty == MaxTick + 2

Seconds == 0..MaxTick
Slots == 0..(WindowSecs - 1)

\* FLUSH_MAX_AGE: the oldest age of a stage that is still moved into the ring.
FlushMaxAge == WindowSecs - 2

VARIABLES now,         \* the second of the monotonic clock
          slotTick,    \* tick of each ring slot
          slotCount,   \* samples each ring slot has counted
          stageTick,   \* tick of each thread's stage
          stageCount,  \* samples each stage has counted
          pc,          \* the step each thread is about to make
          sample,      \* the sample the thread is recording
          tick,        \* the second of that sample, read from the clock
          from,        \* the second its stage is being moved out of, or TickEmpty
          carry,       \* counts taken from the stage and not yet in the ring
          tickOf,      \* history: the second each sample was completed in
          by,          \* history: the thread that recorded it, or NoThread
          late         \* history: a recorder was overtaken by the clock by more
                       \* than MaxStale seconds, which FLUSH_MAX_AGE rules out

slotVars == <<slotTick, slotCount>>
stageVars == <<stageTick, stageCount>>
localVars == <<pc, sample, tick, from, carry>>
history == <<tickOf, by, late>>
vars == <<now, slotVars, stageVars, localVars, history>>

NoThread == -1

PCs == {"idle", "begun", "claim", "clear", "publish", "check", "add",
        "drain", "deliver", "discard", "settle", "bump"}

TypeOK ==
  /\ now \in Seconds
  /\ slotTick \in [Slots -> 0..TickEmpty]
  /\ slotCount \in [Slots -> SUBSET Samples]
  /\ stageTick \in [Threads -> 0..TickEmpty]
  /\ stageCount \in [Threads -> SUBSET Samples]
  /\ pc \in [Threads -> PCs]
  /\ sample \in [Threads -> Samples \cup {NoSample}]
  /\ tick \in [Threads -> Seconds]
  /\ from \in [Threads -> Seconds \cup {TickEmpty}]
  /\ carry \in [Threads -> SUBSET Samples]
  /\ tickOf \in [Samples -> Seconds \cup {TickEmpty}]
  /\ by \in [Samples -> Threads \cup {NoThread}]
  /\ late \in BOOLEAN

Init ==
  /\ now = 0
  /\ slotTick = [k \in Slots |-> TickEmpty]
  /\ slotCount = [k \in Slots |-> {}]
  /\ stageTick = [t \in Threads |-> TickEmpty]
  /\ stageCount = [t \in Threads |-> {}]
  /\ pc = [t \in Threads |-> "idle"]
  /\ sample = [t \in Threads |-> NoSample]
  /\ tick = [t \in Threads |-> 0]
  /\ from = [t \in Threads |-> TickEmpty]
  /\ carry = [t \in Threads |-> {}]
  /\ tickOf = [s \in Samples |-> TickEmpty]
  /\ by = [s \in Samples |-> NoThread]
  /\ late = FALSE

-----------------------------------------------------------------------------
(* Where a sample goes.                                                    *)

HasStage(t) == t < MaxStages

Moving(t) == from[t] # TickEmpty

\* The second whose ring slot the thread is after: that of its stage while it
\* moves the stage, else that of its sample.
Target(t) == IF Moving(t) THEN from[t] ELSE tick[t]

Slot(t) == Target(t) % WindowSecs

\* mistake: no margin to the second that recycles the slot
MovableNoMargin(age) == age <= WindowSecs - 1

Movable(age) == age <= FlushMaxAge

\* The age of the stage as an unsigned difference, which wraps around when the
\* stage holds a later second than the sample.
StageAge(t) ==
  IF stageTick[t] <= tick[t] THEN tick[t] - stageTick[t]
  ELSE tick[t] - stageTick[t] + TickEmpty + 1

\* mistake: a stage that holds a later second is not looked for
BypassesStageUnordered(t) ==
  \/ ~HasStage(t)
  \/ /\ stageTick[t] # TickEmpty
     /\ ~Movable(StageAge(t))
     /\ StageAge(t) < WindowSecs

\* mistake: a stage too old to be moved is discarded while still in the window
BypassesStageNeverAged(t) ==
  \/ ~HasStage(t)
  \/ /\ stageTick[t] # TickEmpty
     /\ stageTick[t] > tick[t]

\* record: the sample of this thread bypasses its stage.
BypassesStage(t) ==
  \/ ~HasStage(t)
  \/ /\ stageTick[t] # TickEmpty
     /\ stageTick[t] > tick[t]
  \/ /\ stageTick[t] # TickEmpty
     /\ ~Movable(StageAge(t))
     /\ StageAge(t) < WindowSecs

Goto(t, label) == pc' = [pc EXCEPT ![t] = label]

\* The record of t is over, whether its sample was counted or dropped.
Finish(t) ==
  /\ Goto(t, "idle")
  /\ sample' = [sample EXCEPT ![t] = NoSample]
  /\ tick' = [tick EXCEPT ![t] = 0]
  /\ from' = [from EXCEPT ![t] = TickEmpty]

-----------------------------------------------------------------------------
(* Starting to record.                                                     *)

\* Time passes, also while threads record.
Tick ==
  /\ now < MaxTick
  /\ now' = now + 1
  /\ late' = (late \/ \E t \in Threads : pc[t] # "idle" /\ now' - tick[t] > MaxStale)
  /\ UNCHANGED <<slotVars, stageVars, localVars, tickOf, by>>

\* HttpMetrics::finish calls record for a second that was read from the clock
\* before.  The thread may have got its index only since then, with a stage that
\* its previous owner left at a later second.
Begin(t, s) ==
  /\ pc[t] = "idle"
  /\ tickOf[s] = TickEmpty
  /\ Goto(t, "begun")
  /\ sample' = [sample EXCEPT ![t] = s]
  /\ \E second \in 0..now :
       /\ tick' = [tick EXCEPT ![t] = second]
       /\ tickOf' = [tickOf EXCEPT ![s] = second]
       /\ late' = (late \/ now - second > MaxStale)
  /\ by' = [by EXCEPT ![s] = t]
  /\ UNCHANGED <<now, slotVars, stageVars, from, carry>>

\* The stage holds the second of the sample already.
RecordStaged(t) ==
  /\ pc[t] = "begun"
  /\ HasStage(t) /\ stageTick[t] = tick[t]
  /\ Goto(t, "bump")
  /\ UNCHANGED <<now, slotVars, stageVars, sample, tick, from, carry, history>>

\* record_direct: the sample goes straight into the ring.
RecordDirect(t) ==
  /\ pc[t] = "begun"
  /\ BypassesStage(t)
  /\ Goto(t, "claim")
  /\ UNCHANGED <<now, slotVars, stageVars, sample, tick, from, carry, history>>

\* mistake: the stage's second is read back after the mark
MarkThenRead(t) ==
  /\ pc[t] = "begun"
  /\ ~BypassesStage(t) /\ stageTick[t] # tick[t]
  /\ stageTick' = [stageTick EXCEPT ![t] = TickResetting]
  /\ from' = [from EXCEPT ![t] = stageTick'[t]]
  /\ Goto(t, "claim")
  /\ UNCHANGED <<now, slotVars, stageCount, sample, tick, carry, history>>

\* advance_stage marks the stage before it touches its counters.
MarkStage(t) ==
  /\ pc[t] = "begun"
  /\ ~BypassesStage(t) /\ stageTick[t] # tick[t]
  /\ stageTick' = [stageTick EXCEPT ![t] = TickResetting]
  /\ from' = [from EXCEPT ![t] = stageTick[t]]
  /\ Goto(t, IF stageTick[t] = TickEmpty THEN "settle"
             ELSE IF Movable(StageAge(t)) THEN "claim" ELSE "discard")
  /\ UNCHANGED <<now, slotVars, stageCount, sample, tick, carry, history>>

-----------------------------------------------------------------------------
(* slot_for: getting the ring slot of the target second.                   *)

\* The slot holds the second already.
FindSlot(t) ==
  /\ pc[t] = "claim"
  /\ slotTick[Slot(t)] = Target(t)
  /\ Goto(t, IF Moving(t) THEN "drain" ELSE "check")
  /\ UNCHANGED <<now, slotVars, stageVars, sample, tick, from, carry, history>>

\* mistake: a slot that is being reset is taken over
ClaimAnySlot(t) ==
  /\ pc[t] = "claim"
  /\ slotTick[Slot(t)] # Target(t)
  /\ slotTick[Slot(t)] < Target(t) \/ slotTick[Slot(t)] >= TickResetting
  /\ slotTick' = [slotTick EXCEPT ![Slot(t)] = TickResetting]
  /\ Goto(t, "clear")
  /\ UNCHANGED <<now, slotCount, stageVars, sample, tick, from, carry, history>>

\* The compare-and-swap from an older second, or from never written, succeeds.
\* (A failed one loads the tick again, which is what not stepping yet means; a
\* slot that is being reset keeps the thread spinning.)
ClaimSlot(t) ==
  /\ pc[t] = "claim"
  /\ slotTick[Slot(t)] < Target(t) \/ slotTick[Slot(t)] = TickEmpty
  /\ slotTick' = [slotTick EXCEPT ![Slot(t)] = TickResetting]
  /\ Goto(t, "clear")
  /\ UNCHANGED <<now, slotCount, stageVars, sample, tick, from, carry, history>>

\* The slot belongs to a newer second: a moved stage is discarded, a direct
\* sample is dropped.
MissSlot(t) ==
  /\ pc[t] = "claim"
  /\ slotTick[Slot(t)] > Target(t)
  /\ slotTick[Slot(t)] \notin {TickResetting, TickEmpty}
  /\ IF Moving(t)
     THEN Goto(t, "discard") /\ UNCHANGED <<sample, tick, from>>
     ELSE Finish(t)
  /\ UNCHANGED <<now, slotVars, stageVars, carry, history>>

ClearSlot(t) ==
  /\ pc[t] = "clear"
  /\ slotCount' = [slotCount EXCEPT ![Slot(t)] = {}]
  /\ Goto(t, "publish")
  /\ UNCHANGED <<now, slotTick, stageVars, sample, tick, from, carry, history>>

\* mistake: the mark is left on the slot
PublishNothing(t) ==
  /\ pc[t] = "publish"
  /\ Goto(t, IF Moving(t) THEN "drain" ELSE "check")
  /\ UNCHANGED <<now, slotVars, stageVars, sample, tick, from, carry, history>>

PublishSlot(t) ==
  /\ pc[t] = "publish"
  /\ slotTick' = [slotTick EXCEPT ![Slot(t)] = Target(t)]
  /\ Goto(t, IF Moving(t) THEN "drain" ELSE "check")
  /\ UNCHANGED <<now, slotCount, stageVars, sample, tick, from, carry, history>>

-----------------------------------------------------------------------------
(* Counting the sample in the ring.                                        *)

\* record_direct looks at the tick once more before it adds.
CheckSlot(t) ==
  /\ pc[t] = "check"
  /\ IF slotTick[Slot(t)] = tick[t]
     THEN Goto(t, "add") /\ UNCHANGED <<sample, tick, from>>
     ELSE Finish(t)
  /\ UNCHANGED <<now, slotVars, stageVars, carry, history>>

\* Slot::add.
AddToSlot(t) ==
  /\ pc[t] = "add"
  /\ slotCount' = [slotCount EXCEPT ![Slot(t)] = @ \cup {sample[t]}]
  /\ Finish(t)
  /\ UNCHANGED <<now, slotTick, stageVars, carry, history>>

-----------------------------------------------------------------------------
(* Moving the stage and counting the sample in it.                         *)

\* move_count zeroes the stage's counter before it adds to the slot's.
DrainStage(t) ==
  /\ pc[t] = "drain"
  /\ carry' = [carry EXCEPT ![t] = stageCount[t]]
  /\ stageCount' = [stageCount EXCEPT ![t] = {}]
  /\ Goto(t, "deliver")
  /\ UNCHANGED <<now, slotVars, stageTick, sample, tick, from, history>>

DeliverCounts(t) ==
  /\ pc[t] = "deliver"
  /\ slotCount' = [slotCount EXCEPT ![Slot(t)] = @ \cup carry[t]]
  /\ carry' = [carry EXCEPT ![t] = {}]
  /\ Goto(t, "settle")
  /\ UNCHANGED <<now, slotTick, stageVars, sample, tick, from, history>>

\* Slot::clear on a stage whose second cannot be moved any more.
DiscardStage(t) ==
  /\ pc[t] = "discard"
  /\ stageCount' = [stageCount EXCEPT ![t] = {}]
  /\ Goto(t, "settle")
  /\ UNCHANGED <<now, slotVars, stageTick, sample, tick, from, carry, history>>

\* The stage now holds the second of the sample.
SettleStage(t) ==
  /\ pc[t] = "settle"
  /\ stageTick' = [stageTick EXCEPT ![t] = tick[t]]
  /\ from' = [from EXCEPT ![t] = TickEmpty]
  /\ Goto(t, "bump")
  /\ UNCHANGED <<now, slotVars, stageCount, sample, tick, carry, history>>

\* Slot::add_owned.
BumpStage(t) ==
  /\ pc[t] = "bump"
  /\ stageCount' = [stageCount EXCEPT ![t] = @ \cup {sample[t]}]
  /\ Finish(t)
  /\ UNCHANGED <<now, slotVars, stageTick, carry, history>>

-----------------------------------------------------------------------------

\* What a thread does once it has begun to record.
Advance(t) ==
  \/ RecordStaged(t) \/ RecordDirect(t) \/ MarkStage(t)
  \/ FindSlot(t) \/ ClaimSlot(t) \/ MissSlot(t) \/ ClearSlot(t) \/ PublishSlot(t)
  \/ CheckSlot(t) \/ AddToSlot(t)
  \/ DrainStage(t) \/ DeliverCounts(t) \/ DiscardStage(t) \/ SettleStage(t)
  \/ BumpStage(t)

Record(t) == Advance(t) \/ \E s \in Samples : Begin(t, s)

Next == Tick \/ \E t \in Threads : Record(t)

Spec == Init /\ [][Next]_vars

\* Every thread that has begun to record keeps being scheduled.
Fairness == \A t \in Threads : WF_vars(Advance(t))

-----------------------------------------------------------------------------
(* Properties.                                                             *)

InFlight == {sample[t] : t \in Threads}

\* Samples whose record call has returned.
Recorded == {s \in Samples : tickOf[s] # TickEmpty /\ s \notin InFlight}

\* The seconds of the window that ends now.
InWindow(second) == second <= now /\ now - second < WindowSecs

\* The second whose samples a stage holds, its owner being in the middle of a
\* move or not.
StageSecond(t) == IF stageTick[t] = TickResetting THEN from[t] ELSE stageTick[t]

\* The mark is a lock: a slot that is being reset has exactly one thread
\* resetting it, and a stage that is being moved belongs to a thread that is
\* in advance_stage.  Two threads clearing one slot, or a stage left marked,
\* would lose counts (histogram.rs:160, 469-471).
ResetExclusive ==
  /\ \A k \in Slots :
       slotTick[k] = TickResetting =>
         \E t \in Threads : pc[t] \in {"clear", "publish"} /\ Slot(t) = k
  /\ \A t, u \in Threads :
       /\ t # u
       /\ pc[t] \in {"clear", "publish"}
       /\ pc[u] \in {"clear", "publish"}
       => Slot(t) # Slot(u)
  /\ \A t \in Threads :
       stageTick[t] = TickResetting
         <=> /\ HasStage(t)
             /\ \/ pc[t] \in {"drain", "deliver", "discard", "settle"}
                \/ Moving(t) /\ pc[t] \in {"claim", "clear", "publish"}

\* Every count is in the second its request completed in: no move and no
\* direct add ever lands in a slot that was recycled for a later second, as
\* long as no recorder lags by more than a second (histogram.rs:41-49).
RightSecond ==
  ~late =>
    /\ \A k \in Slots : slotTick[k] # TickResetting =>
         \A s \in slotCount[k] : tickOf[s] = slotTick[k]
    /\ \A t \in Threads :
         /\ \A s \in stageCount[t] : tickOf[s] = StageSecond(t)
         /\ \A s \in carry[t] : tickOf[s] = from[t]

\* Where the counts of one second are.
PlacesOf(s) ==
  {<<"slot", k>> : k \in {j \in Slots : s \in slotCount[j]}}
    \cup {<<"stage", t>> : t \in {u \in Threads : s \in stageCount[u]}}
    \cup {<<"carry", t>> : t \in {u \in Threads : s \in carry[u]}}

\* A sample whose record has returned is counted in exactly one place for as
\* long as its second is in the window: moving a stage neither loses nor
\* doubles counts, and a slot is recycled only once its second has expired.
\* No sample is ever in two places, expired or not.  Both hold however recorders
\* lag.
CountedOnce ==
  \A s \in Recorded :
    /\ Cardinality(PlacesOf(s)) <= 1
    /\ InWindow(tickOf[s]) => PlacesOf(s) # {}

\* Recording implements a window of samples (SampleWindow): a sample becomes
\* counted in one step, never comes back once it is gone, and is lost or cleared
\* only when its second has left the window, however recorders lag.
State(s) ==
  IF tickOf[s] = TickEmpty THEN "new"
  ELSE IF PlacesOf(s) # {} THEN "counted"
  ELSE IF s \in InFlight THEN "open" ELSE "gone"

Window == INSTANCE SampleWindow WITH
  second <- tickOf,
  state <- [s \in Samples |-> State(s)]

ImplementsWindow == Window!Spec

\* If recording threads keep being scheduled, every record ends: the only wait,
\* spinning on a slot that another thread is resetting, is over once that thread
\* gets to run (histogram.rs:650-653).
RecordsEnd == Fairness => \A t \in Threads : pc[t] # "idle" ~> pc[t] = "idle"
=============================================================================
