------------------------ MODULE SlidingWindowProofs ------------------------
(***************************************************************************)
(* For any threads, samples, window length and number of stages: the mark  *)
(* on slots and stages is a lock, every sample is counted exactly once     *)
(* while its second is in the window, and what the stages and the ring     *)
(* count together is a window of samples.                                  *)
(***************************************************************************)
EXTENDS SlidingWindow, FiniteSetTheorems, TLAPS

\* The thread resets a ring slot.
Resets(t) == pc[t] \in {"clear", "publish"}

\* Where a thread may be in the middle of a move, and where it must be.
MovePCs == {"claim", "clear", "publish", "drain", "deliver", "discard", "settle"}

\* What the place of a thread says of its own variables and of its stage.
ControlOK ==
  \A t \in Threads :
    /\ pc[t] # "idle" => sample[t] \in Samples /\ tickOf[sample[t]] = tick[t]
    /\ pc[t] = "idle" => sample[t] = NoSample
    /\ Moving(t) => pc[t] \in MovePCs
    /\ pc[t] \in {"drain", "deliver", "discard"} => Moving(t)
    /\ pc[t] \in {"discard", "settle", "bump"} \/ Moving(t) => HasStage(t)
    /\ pc[t] = "bump" => stageTick[t] = tick[t]
    /\ pc[t] # "deliver" => carry[t] = {}

\* A slot is marked as long as a thread resets it, and a stage as long as its
\* owner moves it.
MarksOK ==
  /\ \A t \in Threads : Resets(t) => slotTick[Slot(t)] = TickResetting
  /\ ResetExclusive

\* The shared invariant of the recording threads.
ThreadsInv == TypeOK /\ ControlOK /\ MarksOK

-----------------------------------------------------------------------------

\* Seconds, slots and marks as numbers.
LEMMA Numbers ==
  /\ WindowSecs \in Nat /\ WindowSecs >= 2 /\ MaxTick \in Nat /\ MaxStages \in Nat
  /\ NoSample \notin Samples /\ Threads \subseteq Nat
BY WindowAssumption

\* The target of a thread is a second, and its slot is a slot.
LEMMA TargetIsSecond ==
  ASSUME TypeOK, NEW t \in Threads
  PROVE  Target(t) \in Seconds /\ Slot(t) \in Slots
<1>1. Target(t) \in Seconds
  BY DEF TypeOK, Target, Moving
<1>2. Target(t) \in Nat /\ WindowSecs \in Nat \ {0}
  BY <1>1, Numbers DEF Seconds
<1>3. Target(t) % WindowSecs \in 0..(WindowSecs - 1)
  BY <1>2, SMT
<1> QED
  BY <1>1, <1>3 DEF Slot, Slots

\* What a tick may be, and that the marks are no seconds.
LEMMA SecondOrMark ==
  /\ \A x \in 0..TickEmpty : x \in Seconds \/ x = TickResetting \/ x = TickEmpty
  /\ TickResetting \notin Seconds /\ TickEmpty \notin Seconds /\ TickResetting # TickEmpty
  /\ TickResetting \in 0..TickEmpty /\ TickEmpty \in 0..TickEmpty
  /\ Seconds \subseteq 0..TickEmpty /\ Seconds \subseteq Nat
BY Numbers DEF Seconds, TickEmpty, TickResetting

\* Two seconds of one slot are a turn of the ring apart.
LEMMA SameSlot ==
  ASSUME NEW a \in Nat, NEW b \in Nat, a % WindowSecs = b % WindowSecs, a < b
  PROVE  a + WindowSecs <= b
<1> DEFINE W == WindowSecs
           q == a \div W
           r == b \div W
<1>1. W \in Nat \ {0}
  BY Numbers
<1>2. q \in Nat /\ r \in Nat /\ a = W * q + (a % W) /\ b = W * r + (b % W)
  BY <1>1, SMT
<1> HIDE DEF q, r, W
<1>3. W * q < W * r
  BY <1>1, <1>2, SMT DEF W
<1>4. q + 1 <= r
  BY <1>1, <1>2, <1>3, SMT
<1>5. W * (q + 1) <= W * r
  BY <1>1, <1>2, <1>4, SMT
<1>6. W * (q + 1) = W * q + W
  BY <1>1, <1>2, SMT
<1> QED
  BY <1>1, <1>2, <1>5, <1>6, SMT DEF W

-----------------------------------------------------------------------------

\* Types.
LEMMA TypeKept ==
  ASSUME ThreadsInv, NEW t \in Threads, Record(t)
  PROVE  TypeOK'
<1>a. Target(t) \in Seconds /\ Slot(t) \in Slots
  BY TargetIsSecond DEF ThreadsInv
<1> USE DEF ThreadsInv, TypeOK, ControlOK, Goto, PCs, Seconds, TickResetting, TickEmpty, Moving,
           history, slotVars, stageVars, localVars
<1>1. ASSUME NEW s \in Samples, Begin(t, s) PROVE TypeOK'
  BY <1>1, <1>a, Numbers DEF Begin
<1>2. CASE RecordStaged(t)
  BY <1>2, <1>a, Numbers DEF RecordStaged
<1>3. CASE RecordDirect(t)
  BY <1>3, <1>a, Numbers DEF RecordDirect
<1>4. CASE MarkStage(t)
  BY <1>4, <1>a, Numbers DEF MarkStage, MarksOK, ResetExclusive, HasStage, MovePCs
<1>5. CASE FindSlot(t)
  BY <1>5, <1>a, Numbers DEF FindSlot
<1>6. CASE ClaimSlot(t)
  BY <1>6, <1>a, Numbers DEF ClaimSlot
<1>7. CASE MissSlot(t)
  BY <1>7, <1>a, Numbers DEF MissSlot, Finish
<1>8. CASE ClearSlot(t)
  BY <1>8, <1>a, Numbers DEF ClearSlot
<1>9. CASE PublishSlot(t)
  BY <1>9, <1>a, Numbers DEF PublishSlot
<1>10. CASE CheckSlot(t)
  BY <1>10, <1>a, Numbers DEF CheckSlot, Finish
<1>11. CASE AddToSlot(t)
  BY <1>11, <1>a, Numbers DEF AddToSlot, Finish
<1>12. CASE DrainStage(t)
  BY <1>12, <1>a, Numbers DEF DrainStage
<1>13. CASE DeliverCounts(t)
  BY <1>13, <1>a, Numbers DEF DeliverCounts
<1>14. CASE DiscardStage(t)
  BY <1>14, <1>a, Numbers DEF DiscardStage
<1>15. CASE SettleStage(t)
  BY <1>15, <1>a, Numbers DEF SettleStage
<1>16. CASE BumpStage(t)
  BY <1>16, <1>a, Numbers DEF BumpStage, Finish
<1> QED
  BY <1>1, <1>2, <1>3, <1>4, <1>5, <1>6, <1>7, <1>8, <1>9, <1>10, <1>11, <1>12, <1>13, <1>14, <1>15, <1>16 DEF Record, Advance

\* Places and variables of the threads.
LEMMA ControlKept ==
  ASSUME ThreadsInv, NEW t \in Threads, Record(t)
  PROVE  ControlOK'
<1> USE DEF ThreadsInv, TypeOK, ControlOK, MarksOK, ResetExclusive, Goto, PCs, MovePCs, Seconds,
           TickResetting, TickEmpty, Moving, HasStage, history, slotVars, stageVars, localVars
<1>1. ASSUME NEW s \in Samples, Begin(t, s) PROVE ControlOK'
  BY <1>1, Numbers DEF Begin
<1>2. CASE RecordStaged(t)
  BY <1>2, Numbers DEF RecordStaged
<1>3. CASE RecordDirect(t)
  BY <1>3, Numbers DEF RecordDirect, BypassesStage
<1>4. CASE MarkStage(t)
  BY <1>4, Numbers DEF MarkStage, BypassesStage
<1>5. CASE FindSlot(t)
  BY <1>5, Numbers DEF FindSlot
<1>6. CASE ClaimSlot(t)
  BY <1>6, Numbers DEF ClaimSlot
<1>7. CASE MissSlot(t)
  BY <1>7, Numbers DEF MissSlot, Finish
<1>8. CASE ClearSlot(t)
  BY <1>8, Numbers DEF ClearSlot
<1>9. CASE PublishSlot(t)
  BY <1>9, Numbers DEF PublishSlot
<1>10. CASE CheckSlot(t)
  BY <1>10, Numbers DEF CheckSlot, Finish
<1>11. CASE AddToSlot(t)
  BY <1>11, Numbers DEF AddToSlot, Finish
<1>12. CASE DrainStage(t)
  BY <1>12, Numbers DEF DrainStage
<1>13. CASE DeliverCounts(t)
  BY <1>13, Numbers DEF DeliverCounts
<1>14. CASE DiscardStage(t)
  BY <1>14, Numbers DEF DiscardStage
<1>15. CASE SettleStage(t)
  BY <1>15, Numbers DEF SettleStage
<1>16. CASE BumpStage(t)
  BY <1>16, Numbers DEF BumpStage, Finish
<1> QED
  BY <1>1, <1>2, <1>3, <1>4, <1>5, <1>6, <1>7, <1>8, <1>9,
     <1>10, <1>11, <1>12, <1>13, <1>14, <1>15, <1>16 DEF Record, Advance

\* A thread's step leaves the others where they are.
LEMMA OthersStay ==
  ASSUME ThreadsInv, NEW t \in Threads, Record(t), NEW u \in Threads, u # t
  PROVE  /\ pc'[u] = pc[u] /\ sample'[u] = sample[u] /\ tick'[u] = tick[u]
         /\ from'[u] = from[u] /\ carry'[u] = carry[u]
         /\ stageTick'[u] = stageTick[u] /\ stageCount'[u] = stageCount[u]
<1> USE DEF ThreadsInv, TypeOK, Goto, history, slotVars, stageVars, localVars
<1> DEFINE Stays == /\ pc'[u] = pc[u] /\ sample'[u] = sample[u] /\ tick'[u] = tick[u]
                   /\ from'[u] = from[u] /\ carry'[u] = carry[u]
                   /\ stageTick'[u] = stageTick[u] /\ stageCount'[u] = stageCount[u]
<1>1. ASSUME NEW s \in Samples, Begin(t, s) PROVE Stays
  BY <1>1 DEF Begin
<1>2. CASE RecordStaged(t)
  BY <1>2 DEF RecordStaged
<1>3. CASE RecordDirect(t)
  BY <1>3 DEF RecordDirect
<1>4. CASE MarkStage(t)
  BY <1>4 DEF MarkStage
<1>5. CASE FindSlot(t)
  BY <1>5 DEF FindSlot
<1>6. CASE ClaimSlot(t)
  BY <1>6 DEF ClaimSlot
<1>7. CASE MissSlot(t)
  BY <1>7 DEF MissSlot, Finish
<1>8. CASE ClearSlot(t)
  BY <1>8 DEF ClearSlot
<1>9. CASE PublishSlot(t)
  BY <1>9 DEF PublishSlot
<1>10. CASE CheckSlot(t)
  BY <1>10 DEF CheckSlot, Finish
<1>11. CASE AddToSlot(t)
  BY <1>11 DEF AddToSlot, Finish
<1>12. CASE DrainStage(t)
  BY <1>12 DEF DrainStage
<1>13. CASE DeliverCounts(t)
  BY <1>13 DEF DeliverCounts
<1>14. CASE DiscardStage(t)
  BY <1>14 DEF DiscardStage
<1>15. CASE SettleStage(t)
  BY <1>15 DEF SettleStage
<1>16. CASE BumpStage(t)
  BY <1>16 DEF BumpStage, Finish
<1> QED
  BY <1>1, <1>2, <1>3, <1>4, <1>5, <1>6, <1>7, <1>8, <1>9,
     <1>10, <1>11, <1>12, <1>13, <1>14, <1>15, <1>16 DEF Record, Advance

\* The slot another thread is after does not change.
LEMMA OthersKeepSlots ==
  ASSUME ThreadsInv, NEW t \in Threads, Record(t), NEW u \in Threads, u # t
  PROVE  Target(u)' = Target(u) /\ Slot(u)' = Slot(u) /\ (Resets(u)' <=> Resets(u))
BY OthersStay DEF Target, Slot, Moving, Resets

\* The owner of a stage marks it exactly while it moves it.
LEMMA StageMarksKept ==
  ASSUME ThreadsInv, NEW t \in Threads, Record(t)
  PROVE  \A u \in Threads :
           stageTick'[u] = TickResetting
             <=> /\ HasStage(u)
                 /\ \/ pc'[u] \in {"drain", "deliver", "discard", "settle"}
                    \/ Moving(u)' /\ pc'[u] \in {"claim", "clear", "publish"}
<1> DEFINE Marked(u) ==
      stageTick[u] = TickResetting
        <=> /\ HasStage(u)
            /\ \/ pc[u] \in {"drain", "deliver", "discard", "settle"}
               \/ Moving(u) /\ pc[u] \in {"claim", "clear", "publish"}
<1>0. \A u \in Threads : Marked(u)
  BY DEF ThreadsInv, MarksOK, ResetExclusive
<1>b. ASSUME NEW u \in Threads \ {t} PROVE Marked(u)'
  BY <1>0, OthersStay DEF Moving, HasStage
<1>t. Marked(t)'
  <2> USE <1>0, Numbers
      DEF ThreadsInv, TypeOK, ControlOK, Goto, MovePCs, Seconds, TickResetting,
          TickEmpty, Moving, HasStage, history, slotVars, stageVars, localVars
  <2>1. ASSUME NEW s \in Samples, Begin(t, s) PROVE Marked(t)'
    BY <2>1 DEF Begin
  <2>2. CASE RecordStaged(t)
    BY <2>2 DEF RecordStaged
  <2>3. CASE RecordDirect(t)
    BY <2>3 DEF RecordDirect, BypassesStage
  <2>4. CASE MarkStage(t)
    BY <2>4 DEF MarkStage, BypassesStage
  <2>5. CASE FindSlot(t)
    BY <2>5 DEF FindSlot
  <2>6. CASE ClaimSlot(t)
    BY <2>6 DEF ClaimSlot
  <2>7. CASE MissSlot(t)
    BY <2>7 DEF MissSlot, Finish
  <2>8. CASE ClearSlot(t)
    BY <2>8 DEF ClearSlot
  <2>9. CASE PublishSlot(t)
    BY <2>9 DEF PublishSlot
  <2>10. CASE CheckSlot(t)
    BY <2>10 DEF CheckSlot, Finish
  <2>11. CASE AddToSlot(t)
    BY <2>11 DEF AddToSlot, Finish
  <2>12. CASE DrainStage(t)
    BY <2>12 DEF DrainStage
  <2>13. CASE DeliverCounts(t)
    BY <2>13 DEF DeliverCounts
  <2>14. CASE DiscardStage(t)
    BY <2>14 DEF DiscardStage
  <2>15. CASE SettleStage(t)
    BY <2>15 DEF SettleStage
  <2>16. CASE BumpStage(t)
    BY <2>16 DEF BumpStage, Finish
  <2> QED
    BY <2>1, <2>2, <2>3, <2>4, <2>5, <2>6, <2>7, <2>8, <2>9,
       <2>10, <2>11, <2>12, <2>13, <2>14, <2>15, <2>16 DEF Record, Advance
<1> QED
  BY <1>b, <1>t

\* The slots that are marked are those the threads reset, one thread each.
SlotMarks ==
  /\ \A t \in Threads : Resets(t) => slotTick[Slot(t)] = TickResetting
  /\ \A k \in Slots :
       slotTick[k] = TickResetting => \E t \in Threads : Resets(t) /\ Slot(t) = k
  /\ \A t, u \in Threads : t # u /\ Resets(t) /\ Resets(u) => Slot(t) # Slot(u)

\* No mark appears or disappears, and the thread resets what it did before.
LEMMA NoMarkMoves ==
  ASSUME ThreadsInv, SlotMarks, NEW t \in Threads, Record(t), UNCHANGED slotTick,
         Resets(t)' <=> Resets(t), Resets(t) => Slot(t)' = Slot(t)
  PROVE  SlotMarks'
<1>1. ASSUME NEW u \in Threads
      PROVE  (Resets(u)' <=> Resets(u)) /\ (Resets(u) => Slot(u)' = Slot(u))
  BY OthersKeepSlots
<1>2. ASSUME NEW u \in Threads, Resets(u)'
      PROVE  slotTick'[Slot(u)'] = TickResetting
  <2>1. Resets(u) /\ Slot(u)' = Slot(u) /\ slotTick' = slotTick
    BY <1>1, <1>2
  <2>2. slotTick[Slot(u)] = TickResetting
    BY <2>1 DEF SlotMarks
  <2> QED
    BY <2>1, <2>2 DEF TickResetting
<1>3. ASSUME NEW k \in Slots, slotTick'[k] = TickResetting
      PROVE  \E u \in Threads : Resets(u)' /\ Slot(u)' = k
  <2>1. PICK u \in Threads : Resets(u) /\ Slot(u) = k
    BY <1>3 DEF SlotMarks
  <2>2. Resets(u)' /\ Slot(u)' = k
    BY <1>1, <2>1
  <2> QED
    BY <2>2
<1>4. ASSUME NEW u \in Threads, NEW v \in Threads, u # v, Resets(u)', Resets(v)'
      PROVE  Slot(u)' # Slot(v)'
  <2>1. Resets(u) /\ Slot(u)' = Slot(u) /\ Resets(v) /\ Slot(v)' = Slot(v)
    BY <1>1, <1>4
  <2> QED
    BY <1>4, <2>1 DEF SlotMarks
<1> QED
  BY <1>2, <1>3, <1>4 DEF SlotMarks

\* Resets is about the program counter, Slot about the second it is after.
LEMMA SlotMarksKept ==
  ASSUME ThreadsInv, NEW t \in Threads, Record(t)
  PROVE  SlotMarks'
<1>a. Target(t) \in Seconds /\ Slot(t) \in Slots
  BY TargetIsSecond DEF ThreadsInv
<1>0. SlotMarks
  BY DEF ThreadsInv, MarksOK, ResetExclusive, SlotMarks, Resets
<1>1. CASE ClaimSlot(t)
  <2>1. /\ slotTick[Slot(t)] # TickResetting
        /\ slotTick' = [slotTick EXCEPT ![Slot(t)] = TickResetting]
        /\ ~Resets(t) /\ Resets(t)' /\ Slot(t)' = Slot(t)
    BY <1>1, <1>a, Numbers DEF ClaimSlot, Goto, Resets, Slot, Target, Moving, ThreadsInv,
       TypeOK, Seconds, TickResetting, TickEmpty
  <2>2. \A u \in Threads : u # t /\ Resets(u) => Slot(u) # Slot(t)
    BY <1>0, <2>1 DEF SlotMarks
  <2>3. \A u \in Threads : u # t => (Resets(u)' <=> Resets(u)) /\ Slot(u)' = Slot(u)
    BY OthersKeepSlots
  <2>4. \A u \in Threads : Slot(u)' \in Slots
    BY <2>1, <2>3, TargetIsSecond DEF ThreadsInv
  <2> QED
    BY <1>0, <1>a, <2>1, <2>2, <2>3, <2>4 DEF SlotMarks, ThreadsInv, TypeOK
<1>2. CASE PublishSlot(t)
  <2>1. /\ slotTick' = [slotTick EXCEPT ![Slot(t)] = Target(t)]
        /\ Target(t) # TickResetting /\ Resets(t) /\ ~Resets(t)'
    BY <1>2, <1>a, Numbers DEF PublishSlot, Goto, Resets, ThreadsInv, TypeOK, Seconds,
       TickResetting
  <2>3. \A u \in Threads : u # t => (Resets(u)' <=> Resets(u)) /\ Slot(u)' = Slot(u)
    BY OthersKeepSlots
  <2> QED
    BY <1>0, <1>a, <2>1, <2>3 DEF SlotMarks, ThreadsInv, TypeOK
<1>3. CASE ClearSlot(t)
  <2>1. UNCHANGED slotTick /\ Resets(t)' /\ Resets(t) /\ Slot(t)' = Slot(t)
    BY <1>3 DEF ClearSlot, Goto, Resets, Slot, Target, Moving, ThreadsInv, TypeOK
  <2> QED
    BY <1>0, <2>1, NoMarkMoves
<1>4. CASE ~(ClaimSlot(t) \/ PublishSlot(t) \/ ClearSlot(t))
  <2> USE DEF ThreadsInv, TypeOK, Resets, Goto, slotVars
  <2>1. UNCHANGED slotTick /\ ~Resets(t) /\ ~Resets(t)'
    BY <1>4 DEF Record, Advance, Begin, RecordStaged, RecordDirect, MarkStage, FindSlot,
       MissSlot, CheckSlot, AddToSlot, DrainStage, DeliverCounts, DiscardStage,
       SettleStage, BumpStage, Finish
  <2> QED
    BY <1>0, <2>1, NoMarkMoves
<1> QED
  BY <1>1, <1>2, <1>3, <1>4

\* The clock marks nothing.
LEMMA ClockKeepsThreads ==
  ASSUME ThreadsInv, Tick
  PROVE  ThreadsInv'
BY Numbers DEF ThreadsInv, TypeOK, ControlOK, MarksOK, ResetExclusive, Tick, slotVars,
   stageVars, localVars, Moving, Target, Slot, Resets, HasStage, Seconds

\* Every step keeps types, control and marks.
LEMMA ThreadsKept == ThreadsInv /\ [Next]_vars => ThreadsInv'
<1> SUFFICES ASSUME ThreadsInv, [Next]_vars PROVE ThreadsInv'
  OBVIOUS
<1>1. CASE Tick
  BY <1>1, ClockKeepsThreads
<1>2. ASSUME NEW t \in Threads, Record(t) PROVE ThreadsInv'
  <2>1. TypeOK' /\ ControlOK' /\ SlotMarks'
    BY <1>2, TypeKept, ControlKept, SlotMarksKept
  <2>2. MarksOK'
    BY <1>2, <2>1, StageMarksKept DEF MarksOK, SlotMarks, ResetExclusive, Resets
  <2> QED
    BY <2>1, <2>2 DEF ThreadsInv
<1>3. CASE UNCHANGED vars
  BY <1>3 DEF vars, slotVars, stageVars, localVars, history, ThreadsInv, TypeOK, ControlOK,
     MarksOK, ResetExclusive, Moving, Target, Slot, Resets
<1> QED
  BY <1>1, <1>2, <1>3 DEF Next

\* Nothing is recorded or marked at the start.
LEMMA ThreadsStart == Init => ThreadsInv
<1> SUFFICES ASSUME Init PROVE ThreadsInv
  OBVIOUS
<1>1. TypeOK
  <2>1. 0 \in Seconds /\ TickEmpty \in 0..TickEmpty
    BY Numbers DEF Seconds, TickEmpty
  <2> QED
    BY <2>1 DEF Init, TypeOK, PCs
<1>2. ControlOK
  BY Numbers DEF Init, ControlOK, Moving
<1>3. MarksOK
  BY Numbers DEF Init, MarksOK, ResetExclusive, Resets, Moving, TickEmpty, TickResetting
<1> QED
  BY <1>1, <1>2, <1>3 DEF ThreadsInv

\* The recording threads keep their types, and the marks of slots and stages are
\* locks: advance_stage and slot_for hold what they mark (histogram.rs:472-489, 643-671).
THEOREM ThreadsAlwaysRight == Spec => []ThreadsInv
BY ThreadsStart, ThreadsKept, PTL DEF Spec

\* The variables of the window keep their types: in particular, no thread takes
\* the mark of a stage for the second it holds (histogram.rs:472-489).
THEOREM WindowTypeCorrect == Spec => []TypeOK
<1>1. ThreadsInv => TypeOK
  BY DEF ThreadsInv
<1> QED
  BY <1>1, ThreadsAlwaysRight, PTL

\* The mark is a lock, on slots and on stages, for any number of threads.
THEOREM MarksAreLocks == Spec => []ResetExclusive
<1>1. ThreadsInv => ResetExclusive
  BY DEF ThreadsInv, MarksOK
<1> QED
  BY <1>1, ThreadsAlwaysRight, PTL

-----------------------------------------------------------------------------
(* Seconds.                                                                *)

\* No second is ahead of the clock, a moved stage is not ahead of the sample that
\* moves it, and a slot holds one of its own seconds.
ClockOK ==
  /\ \A s \in Samples : tickOf[s] \in Seconds => tickOf[s] <= now
  /\ \A k \in Slots : slotTick[k] \in Seconds =>
       slotTick[k] <= now /\ slotTick[k] % WindowSecs = k
  /\ \A t \in Threads :
       /\ tick[t] <= now
       /\ stageTick[t] \in Seconds => stageTick[t] <= now
       /\ Moving(t) => from[t] <= tick[t]
       /\ pc[t] = "discard" => from[t] + WindowSecs <= now

\* A thread that found its slot still has it, or its second has expired.
HoldPCs == {"drain", "deliver", "check", "add"}

HoldsSlot(t) == slotTick[Slot(t)] = Target(t) \/ Target(t) + WindowSecs <= now

SlotsHeld == \A t \in Threads : pc[t] \in HoldPCs => HoldsSlot(t)

TimeInv == ThreadsInv /\ ClockOK /\ SlotsHeld

\* No thread is after a slot of the future.
LEMMA TargetNotAhead ==
  ASSUME TimeInv, NEW t \in Threads
  PROVE  Target(t) \in Nat /\ Target(t) <= now /\ now \in Nat
<1>1. Target(t) \in Seconds /\ now \in Seconds
  BY TargetIsSecond DEF TimeInv, ThreadsInv, TypeOK
<1>2. tick[t] \in Nat /\ tick[t] <= now /\ (Moving(t) => from[t] \in Nat /\ from[t] <= tick[t])
  BY Numbers DEF TimeInv, ThreadsInv, TypeOK, ClockOK, Moving, Seconds
<1> QED
  BY <1>1, <1>2, Numbers DEF Target, Seconds

\* A slot that belongs to a newer second than the target: the target has expired.
LEMMA NewerExpires ==
  ASSUME TimeInv, NEW t \in Threads, slotTick[Slot(t)] \in Seconds,
         slotTick[Slot(t)] > Target(t)
  PROVE  Target(t) + WindowSecs <= now
<1> DEFINE k == Slot(t)
           b == slotTick[k]
<1>1. k \in Slots /\ Target(t) \in Nat /\ b \in Nat /\ now \in Nat
  BY TargetIsSecond, TargetNotAhead, Numbers DEF TimeInv, ThreadsInv, Seconds
<1>2. b <= now /\ b % WindowSecs = k
  BY <1>1 DEF TimeInv, ClockOK
<1>3. Target(t) % WindowSecs = b % WindowSecs
  BY <1>2 DEF Slot
<1>4. Target(t) + WindowSecs <= b
  BY <1>1, <1>3, SameSlot
<1> QED
  BY <1>1, <1>2, <1>4, Numbers

\* A stage that is marked holds an earlier second, so its age does not wrap.
LEMMA AgeOfMarked ==
  ASSUME TypeOK, NEW t \in Threads, ~BypassesStage(t), stageTick[t] # TickEmpty
  PROVE  stageTick[t] <= tick[t] /\ StageAge(t) = tick[t] - stageTick[t]
<1>1. stageTick[t] \in Nat /\ tick[t] \in Nat /\ ~(stageTick[t] > tick[t])
  BY Numbers DEF TypeOK, Seconds, BypassesStage
<1> QED
  BY <1>1 DEF StageAge

\* The steps of a thread keep the seconds right.
LEMMA ClockKept ==
  ASSUME TimeInv, NEW t \in Threads, Record(t)
  PROVE  ClockOK'
<1>a. Target(t) \in Seconds /\ Slot(t) \in Slots
  BY TargetIsSecond DEF TimeInv, ThreadsInv
<1>b. /\ Target(t) <= now /\ Target(t) % WindowSecs = Slot(t)
      /\ slotTick[Slot(t)] \in Seconds /\ slotTick[Slot(t)] > Target(t)
           => Target(t) + WindowSecs <= now
  BY TargetNotAhead, NewerExpires DEF Slot
<1>c. ClockOK
  BY DEF TimeInv
<1> USE DEF ClockOK, TimeInv, ThreadsInv, TypeOK, ControlOK, Goto, Seconds, TickResetting, TickEmpty, Moving,
           history, slotVars, stageVars, localVars
<1>1. ASSUME NEW s \in Samples, Begin(t, s) PROVE ClockOK'
  <2>1. PICK second \in 0..now : /\ tick' = [tick EXCEPT ![t] = second]
                                 /\ tickOf' = [tickOf EXCEPT ![s] = second]
    BY <1>1 DEF Begin
  <2>2. /\ now' = now /\ from' = from /\ pc' = [pc EXCEPT ![t] = "begun"]
        /\ ~Moving(t) /\ UNCHANGED <<slotTick, stageTick>>
    BY <1>1, <1>c DEF Begin, MovePCs
  <2>3. \A x \in Samples : tickOf'[x] \in Seconds => tickOf'[x] <= now
    BY <1>c, <2>1
  <2>4. ASSUME NEW u \in Threads
        PROVE  /\ tick'[u] <= now
               /\ Moving(u)' => from'[u] <= tick'[u]
               /\ pc'[u] = "discard" => from'[u] + WindowSecs <= now
    BY <1>c, <2>1, <2>2
  <2> QED
    BY <1>c, <2>2, <2>3, <2>4
<1>2. CASE RecordStaged(t)
  BY <1>2, <1>a, <1>b, <1>c, Numbers DEF RecordStaged
<1>3. CASE RecordDirect(t)
  BY <1>3, <1>a, <1>b, <1>c, Numbers DEF RecordDirect
<1>4. CASE MarkStage(t)
  <2>1. ~BypassesStage(t) /\ HasStage(t)
    BY <1>4 DEF MarkStage, BypassesStage
  <2>2. stageTick[t] # TickEmpty =>
          stageTick[t] <= tick[t] /\ StageAge(t) = tick[t] - stageTick[t]
    BY <2>1, AgeOfMarked
  <2>3. stageTick[t] # TickEmpty =>
          Movable(StageAge(t)) \/ tick[t] - stageTick[t] >= WindowSecs
    <3>1. stageTick[t] # TickEmpty => Movable(StageAge(t)) \/ ~(StageAge(t) < WindowSecs)
      BY <2>1 DEF BypassesStage
    <3> QED
      BY <2>2, <3>1, <1>c, Numbers
  <2> QED
    BY <1>4, <1>a, <1>b, <1>c, <2>1, <2>2, <2>3, Numbers DEF MarkStage, MovePCs, MarksOK,
       ResetExclusive, HasStage
<1>5. CASE FindSlot(t)
  BY <1>5, <1>a, <1>b, <1>c, Numbers DEF FindSlot
<1>6. CASE ClaimSlot(t)
  BY <1>6, <1>a, <1>b, <1>c, Numbers DEF ClaimSlot
<1>7. CASE MissSlot(t)
  <2>1. Target(t) + WindowSecs <= now
    <3>1. /\ slotTick[Slot(t)] \in 0..TickEmpty /\ slotTick[Slot(t)] > Target(t)
          /\ slotTick[Slot(t)] # TickResetting /\ slotTick[Slot(t)] # TickEmpty
      BY <1>7, <1>a DEF MissSlot
    <3>2. slotTick[Slot(t)] \in Seconds
      BY <3>1, SecondOrMark
    <3> QED
      BY <3>1, <3>2, NewerExpires
  <2>2. CASE Moving(t)
    BY <1>7, <2>1, <2>2, <1>c, Numbers DEF MissSlot, Target
  <2>3. CASE ~Moving(t)
    BY <1>7, <2>3, <1>c, Numbers DEF MissSlot, Finish
  <2> QED
    BY <2>2, <2>3
<1>8. CASE ClearSlot(t)
  BY <1>8, <1>a, <1>b, <1>c, Numbers DEF ClearSlot
<1>9. CASE PublishSlot(t)
  BY <1>9, <1>a, <1>b, <1>c, Numbers DEF PublishSlot
<1>10. CASE CheckSlot(t)
  BY <1>10, <1>a, <1>b, <1>c, Numbers DEF CheckSlot, Finish
<1>11. CASE AddToSlot(t)
  BY <1>11, <1>a, <1>b, <1>c, Numbers DEF AddToSlot, Finish
<1>12. CASE DrainStage(t)
  BY <1>12, <1>a, <1>b, <1>c, Numbers DEF DrainStage
<1>13. CASE DeliverCounts(t)
  BY <1>13, <1>a, <1>b, <1>c, Numbers DEF DeliverCounts
<1>14. CASE DiscardStage(t)
  BY <1>14, <1>a, <1>b, <1>c, Numbers DEF DiscardStage
<1>15. CASE SettleStage(t)
  BY <1>15, <1>a, <1>b, <1>c, Numbers DEF SettleStage
<1>16. CASE BumpStage(t)
  BY <1>16, <1>a, <1>b, <1>c, Numbers DEF BumpStage, Finish
<1> QED
  BY <1>1, <1>2, <1>3, <1>4, <1>5, <1>6, <1>7, <1>8, <1>9,
     <1>10, <1>11, <1>12, <1>13, <1>14, <1>15, <1>16 DEF Record, Advance

\* What a thread holds is taken from it only once its second has expired.
LEMMA OthersHold ==
  ASSUME TimeInv, NEW t \in Threads, Record(t), NEW u \in Threads, u # t,
         pc[u] \in HoldPCs
  PROVE  HoldsSlot(u)'
<1>1. HoldsSlot(u)
  BY DEF TimeInv, SlotsHeld
<1>2. Target(u)' = Target(u) /\ Slot(u)' = Slot(u) /\ now' = now
  <2>1. now' = now
    BY DEF Record, Advance, Begin, RecordStaged, RecordDirect, MarkStage, FindSlot, ClaimSlot,
       MissSlot, ClearSlot, PublishSlot, CheckSlot, AddToSlot, DrainStage, DeliverCounts,
       DiscardStage, SettleStage, BumpStage
  <2> QED
    BY <2>1, OthersKeepSlots DEF TimeInv
<1>3. /\ Target(u) \in Seconds /\ Slot(u) \in Slots
      /\ Target(t) \in Seconds /\ Slot(t) \in Slots
  BY TargetIsSecond DEF TimeInv, ThreadsInv
<1>4. CASE slotTick'[Slot(u)] = slotTick[Slot(u)]
  BY <1>1, <1>2, <1>4 DEF HoldsSlot
<1>5. CASE slotTick'[Slot(u)] # slotTick[Slot(u)] /\ ClaimSlot(t)
  <2>1. /\ Slot(u) = Slot(t)
        /\ slotTick[Slot(t)] < Target(t) \/ slotTick[Slot(t)] = TickEmpty
    BY <1>3, <1>5 DEF ClaimSlot, TimeInv, ThreadsInv, TypeOK
  <2>2. CASE slotTick[Slot(u)] = Target(u)
    <3>1. Target(u) < Target(t)
      BY <1>3, <2>1, <2>2, SecondOrMark
    <3>2. Target(u) % WindowSecs = Target(t) % WindowSecs
      BY <2>1 DEF Slot
    <3>3. Target(u) + WindowSecs <= Target(t)
      BY <1>3, <3>1, <3>2, SameSlot, SecondOrMark
    <3>4. Target(u) \in Nat /\ Target(t) \in Nat /\ Target(t) <= now /\ now \in Nat
      BY TargetNotAhead
    <3>5. Target(u) + WindowSecs <= now
      BY <3>3, <3>4, Numbers
    <3> QED
      BY <1>2, <3>5 DEF HoldsSlot
  <2> QED
    BY <1>1, <1>2, <2>2 DEF HoldsSlot
<1>6. CASE slotTick'[Slot(u)] # slotTick[Slot(u)] /\ PublishSlot(t)
  <2>1. Slot(u) = Slot(t) /\ Resets(t)
    BY <1>3, <1>6 DEF PublishSlot, TimeInv, ThreadsInv, TypeOK, Resets
  <2>2. slotTick[Slot(u)] = TickResetting
    BY <2>1 DEF TimeInv, ThreadsInv, MarksOK
  <2>3. slotTick[Slot(u)] # Target(u)
    BY <1>3, <2>2, SecondOrMark
  <2> QED
    BY <1>1, <1>2, <2>3 DEF HoldsSlot
<1>7. CASE ~ClaimSlot(t) /\ ~PublishSlot(t)
  <2>1. slotTick' = slotTick
    BY <1>7 DEF Record, Advance, Begin, RecordStaged, RecordDirect, MarkStage, FindSlot,
       MissSlot, ClearSlot, CheckSlot, AddToSlot, DrainStage, DeliverCounts,
       DiscardStage, SettleStage, BumpStage, slotVars
  <2> QED
    BY <1>1, <1>2, <2>1 DEF HoldsSlot
<1> QED
  BY <1>4, <1>5, <1>6, <1>7

\* A slot that was found is held, or its second has expired, after every step.
LEMMA HoldKept ==
  ASSUME TimeInv, NEW t \in Threads, Record(t)
  PROVE  SlotsHeld'
<1>1. ASSUME NEW u \in Threads, u # t, pc'[u] \in HoldPCs PROVE HoldsSlot(u)'
  BY <1>1, OthersStay, OthersHold DEF TimeInv
<1>2. ASSUME pc'[t] \in HoldPCs PROVE HoldsSlot(t)'
  <2>a. Slot(t) \in Slots
    BY TargetIsSecond DEF TimeInv, ThreadsInv
  <2>b. pc[t] \in HoldPCs => HoldsSlot(t)
    BY DEF TimeInv, SlotsHeld
  <2> USE <1>2 DEF TimeInv, ThreadsInv, TypeOK, Goto, HoldPCs, slotVars, Moving
  <2>1. CASE FindSlot(t)
    BY <2>1 DEF FindSlot, HoldsSlot, Slot, Target
  <2>2. CASE PublishSlot(t)
    BY <2>2, <2>a DEF PublishSlot, HoldsSlot, Slot, Target
  <2>3. CASE CheckSlot(t) \/ DrainStage(t)
    BY <2>3, <2>b DEF CheckSlot, Finish, DrainStage, HoldsSlot, Slot, Target
  <2>4. CASE ~FindSlot(t) /\ ~PublishSlot(t) /\ ~CheckSlot(t) /\ ~DrainStage(t)
    BY <2>4 DEF Record, Advance, Begin, RecordStaged, RecordDirect, MarkStage, ClaimSlot,
       MissSlot, ClearSlot, AddToSlot, DeliverCounts, DiscardStage, SettleStage, BumpStage,
       Finish
  <2> QED
    BY <2>1, <2>2, <2>3, <2>4
<1> QED
  BY <1>1, <1>2 DEF SlotsHeld

\* Every step keeps the clock ahead of all ticks and the found slots held.
LEMMA TimeKept == TimeInv /\ [Next]_vars => TimeInv'
<1> SUFFICES ASSUME TimeInv, [Next]_vars PROVE TimeInv'
  OBVIOUS
<1>0. ThreadsInv'
  BY ThreadsKept DEF TimeInv
<1>1. CASE Tick
  <2>1. /\ now' = now + 1 /\ now \in Nat
        /\ UNCHANGED <<slotVars, stageVars, localVars, tickOf, by>>
    BY <1>1, SecondOrMark DEF Tick, TimeInv, ThreadsInv, TypeOK
  <2>2. ClockOK'
    <3>1. \A x \in Seconds : x <= now => x <= now'
      BY <2>1, SecondOrMark
    <3>2. \A t \in Threads : tick[t] \in Seconds
      BY DEF TimeInv, ThreadsInv, TypeOK
    <3>3. \A x \in Seconds : x + WindowSecs <= now => x + WindowSecs <= now'
      BY <2>1, Numbers, SecondOrMark
    <3>4. \A t \in Threads : pc[t] = "discard" => from[t] \in Seconds
      BY DEF TimeInv, ThreadsInv, TypeOK, ControlOK, Moving
    <3> QED
      BY <2>1, <3>1, <3>2, <3>3, <3>4 DEF TimeInv, ClockOK, slotVars, stageVars, localVars, Moving
  <2>3. SlotsHeld'
    <3>1. \A t \in Threads : Target(t) \in Nat
      BY TargetNotAhead
    <3>2. \A t \in Threads : HoldsSlot(t) => HoldsSlot(t)'
      BY <2>1, <3>1, Numbers DEF HoldsSlot, Slot, Target, Moving, slotVars, localVars
    <3> QED
      BY <2>1, <3>2 DEF TimeInv, SlotsHeld, localVars
  <2> QED
    BY <1>0, <2>2, <2>3 DEF TimeInv
<1>2. ASSUME NEW t \in Threads, Record(t) PROVE TimeInv'
  BY <1>0, <1>2, ClockKept, HoldKept DEF TimeInv
<1>3. CASE UNCHANGED vars
  BY <1>0, <1>3 DEF vars, slotVars, stageVars, localVars, history, TimeInv, ClockOK,
     SlotsHeld, HoldsSlot, Moving, Target, Slot
<1> QED
  BY <1>1, <1>2, <1>3 DEF Next

\* No slot is held at the start.
LEMMA TimeStart == Init => TimeInv
<1> SUFFICES ASSUME Init PROVE TimeInv
  OBVIOUS
<1>1. ClockOK
  BY SecondOrMark, Numbers DEF Init, ClockOK, Moving
<1>2. SlotsHeld
  BY DEF Init, SlotsHeld, HoldPCs
<1> QED
  BY <1>1, <1>2, ThreadsStart DEF TimeInv

-----------------------------------------------------------------------------
(* Counts.                                                                 *)

\* A sample is in a slot, in a stage, or on its way from one to the other, and
\* nowhere else.
Apart ==
  \A s \in Samples :
    /\ \A j, k \in Slots : s \in slotCount[j] /\ s \in slotCount[k] => j = k
    /\ \A t, u \in Threads : s \in stageCount[t] /\ s \in stageCount[u] => t = u
    /\ \A t, u \in Threads : s \in carry[t] /\ s \in carry[u] => t = u
    /\ \A k \in Slots, t \in Threads : s \in slotCount[k] => s \notin stageCount[t]
    /\ \A k \in Slots, t \in Threads : s \in slotCount[k] => s \notin carry[t]
    /\ \A t, u \in Threads : s \in stageCount[t] => s \notin carry[u]

Placed(s) ==
  \/ \E k \in Slots : s \in slotCount[k]
  \/ \E t \in Threads : s \in stageCount[t] \/ s \in carry[t]

\* A sample that is being recorded is recorded by one thread and counted nowhere
\* yet; one that is counted was completed.
FlightOK ==
  /\ \A t, u \in Threads : pc[t] # "idle" /\ sample[t] = sample[u] => t = u
  /\ \A t \in Threads : pc[t] # "idle" => ~Placed(sample[t])
  /\ \A s \in Samples : Placed(s) => tickOf[s] \in Seconds

CountInv == TimeInv /\ Apart /\ FlightOK

\* What Begin may take is counted nowhere and recorded by nobody.
LEMMA NewIsNowhere ==
  ASSUME CountInv, NEW s \in Samples, tickOf[s] = TickEmpty
  PROVE  ~Placed(s) /\ \A t \in Threads : sample[t] # s
<1>1. ~Placed(s)
  BY SecondOrMark DEF CountInv, FlightOK
<1>2. ASSUME NEW t \in Threads PROVE sample[t] # s
  <2>1. CASE pc[t] = "idle"
    BY <2>1, Numbers DEF CountInv, TimeInv, ThreadsInv, ControlOK
  <2>2. CASE pc[t] # "idle"
    BY <2>2, SecondOrMark DEF CountInv, TimeInv, ThreadsInv, TypeOK, ControlOK
  <2> QED
    BY <2>1, <2>2
<1> QED
  BY <1>1, <1>2


\* No step puts a sample in a second place.
LEMMA ApartKept ==
  ASSUME CountInv, NEW t \in Threads, Record(t)
  PROVE  Apart'
<1>a. Target(t) \in Seconds /\ Slot(t) \in Slots
  BY TargetIsSecond DEF CountInv, TimeInv, ThreadsInv
<1>b. Apart /\ TimeInv
  BY DEF CountInv
<1>c. pc[t] # "idle" => sample[t] \in Samples /\ ~Placed(sample[t])
  BY DEF CountInv, FlightOK, TimeInv, ThreadsInv, ControlOK
<1> USE DEF Apart, TimeInv, ThreadsInv, TypeOK, ControlOK, Goto, slotVars, stageVars, localVars
<1>1. ASSUME NEW s \in Samples, Begin(t, s) PROVE Apart'
  BY <1>1, <1>a, <1>b DEF Begin
<1>2. CASE RecordStaged(t)
  BY <1>2, <1>a, <1>b DEF RecordStaged
<1>3. CASE RecordDirect(t)
  BY <1>3, <1>a, <1>b DEF RecordDirect
<1>4. CASE MarkStage(t)
  BY <1>4, <1>a, <1>b DEF MarkStage
<1>5. CASE FindSlot(t)
  BY <1>5, <1>a, <1>b DEF FindSlot
<1>6. CASE ClaimSlot(t)
  BY <1>6, <1>a, <1>b DEF ClaimSlot
<1>7. CASE MissSlot(t)
  BY <1>7, <1>a, <1>b DEF MissSlot
<1>8. CASE ClearSlot(t)
  BY <1>8, <1>a, <1>b DEF ClearSlot
<1>9. CASE PublishSlot(t)
  BY <1>9, <1>a, <1>b DEF PublishSlot
<1>10. CASE CheckSlot(t)
  BY <1>10, <1>a, <1>b DEF CheckSlot
<1>11. CASE AddToSlot(t)
  BY <1>11, <1>a, <1>b, <1>c DEF AddToSlot, Placed
<1>12. CASE DrainStage(t)
  BY <1>12, <1>a, <1>b DEF DrainStage
<1>13. CASE DeliverCounts(t)
  BY <1>13, <1>a, <1>b DEF DeliverCounts
<1>14. CASE DiscardStage(t)
  BY <1>14, <1>a, <1>b DEF DiscardStage
<1>15. CASE SettleStage(t)
  BY <1>15, <1>a, <1>b DEF SettleStage
<1>16. CASE BumpStage(t)
  BY <1>16, <1>a, <1>b, <1>c DEF BumpStage, Placed
<1> QED
  BY <1>1, <1>2, <1>3, <1>4, <1>5, <1>6, <1>7, <1>8, <1>9,
     <1>10, <1>11, <1>12, <1>13, <1>14, <1>15, <1>16 DEF Record, Advance

\* A sample comes to be counted only by the step that ends its record.
LEMMA CountedByItsRecord ==
  ASSUME CountInv, NEW t \in Threads, Record(t), NEW s \in Samples, Placed(s)'
  PROVE  Placed(s) \/ (s = sample[t] /\ pc[t] # "idle" /\ pc'[t] = "idle")
<1> DEFINE Goal == Placed(s) \/ (s = sample[t] /\ pc[t] # "idle" /\ pc'[t] = "idle")
<1>a. Slot(t) \in Slots
  BY TargetIsSecond DEF CountInv, TimeInv, ThreadsInv
<1> USE DEF Placed, CountInv, TimeInv, ThreadsInv, TypeOK, Goto, slotVars, stageVars, localVars
<1>1. ASSUME NEW x \in Samples, Begin(t, x) PROVE Goal
  BY <1>1, <1>a DEF Begin
<1>2. CASE RecordStaged(t)
  BY <1>2, <1>a DEF RecordStaged
<1>3. CASE RecordDirect(t)
  BY <1>3, <1>a DEF RecordDirect
<1>4. CASE MarkStage(t)
  BY <1>4, <1>a DEF MarkStage
<1>5. CASE FindSlot(t)
  BY <1>5, <1>a DEF FindSlot
<1>6. CASE ClaimSlot(t)
  BY <1>6, <1>a DEF ClaimSlot
<1>7. CASE MissSlot(t)
  BY <1>7, <1>a DEF MissSlot
<1>8. CASE ClearSlot(t)
  BY <1>8, <1>a DEF ClearSlot
<1>9. CASE PublishSlot(t)
  BY <1>9, <1>a DEF PublishSlot
<1>10. CASE CheckSlot(t)
  BY <1>10, <1>a DEF CheckSlot
<1>11. CASE AddToSlot(t)
  BY <1>11, <1>a DEF AddToSlot, Finish
<1>12. CASE DrainStage(t)
  BY <1>12, <1>a DEF DrainStage
<1>13. CASE DeliverCounts(t)
  BY <1>13, <1>a DEF DeliverCounts
<1>14. CASE DiscardStage(t)
  BY <1>14, <1>a DEF DiscardStage
<1>15. CASE SettleStage(t)
  BY <1>15, <1>a DEF SettleStage
<1>16. CASE BumpStage(t)
  BY <1>16, <1>a DEF BumpStage, Finish
<1> QED
  BY <1>1, <1>2, <1>3, <1>4, <1>5, <1>6, <1>7, <1>8, <1>9,
     <1>10, <1>11, <1>12, <1>13, <1>14, <1>15, <1>16 DEF Record, Advance

\* A sample whose record goes on is not counted yet.
LEMMA FlightKept ==
  ASSUME CountInv, NEW t \in Threads, Record(t)
  PROVE  FlightOK'
<1>1. FlightOK /\ TypeOK /\ ControlOK
  BY DEF CountInv, TimeInv, ThreadsInv
<1>2. \A u \in Threads : u # t => pc'[u] = pc[u] /\ sample'[u] = sample[u]
  BY OthersStay DEF CountInv, TimeInv
<1>3. ASSUME NEW s \in Samples, Begin(t, s) PROVE FlightOK'
  <2>0. PICK second \in 0..now : tickOf' = [tickOf EXCEPT ![s] = second]
    BY <1>3 DEF Begin
  <2>1. /\ pc[t] = "idle" /\ pc'[t] # "idle" /\ sample'[t] = s
        /\ tickOf[s] = TickEmpty
        /\ UNCHANGED <<slotCount, stageCount, carry>>
    BY <1>1, <1>3 DEF Begin, Goto, TypeOK, slotVars, stageVars
  <2>a. second \in Seconds
    BY <1>1, Numbers DEF TypeOK, Seconds
  <2>2. \A x \in Samples : Placed(x)' <=> Placed(x)
    BY <2>1 DEF Placed
  <2>3. ~Placed(s) /\ \A u \in Threads : sample[u] # s
    BY <2>1, NewIsNowhere
  <2>4. \A x \in Samples : Placed(x)' => tickOf'[x] \in Seconds
    BY <1>1, <2>0, <2>1, <2>a, <2>2, <2>3 DEF FlightOK, TypeOK
  <2> QED
    BY <1>1, <1>2, <2>1, <2>2, <2>3, <2>4 DEF FlightOK, ControlOK
<1>4. ASSUME \A s \in Samples : ~Begin(t, s) PROVE FlightOK'
  <2>1. /\ pc[t] # "idle" /\ UNCHANGED tickOf
        /\ pc'[t] # "idle" => sample'[t] = sample[t]
    BY <1>1, <1>4 DEF Record, Advance, RecordStaged, RecordDirect, MarkStage, FindSlot,
       ClaimSlot, MissSlot, ClearSlot, PublishSlot, CheckSlot, AddToSlot, DrainStage,
       DeliverCounts, DiscardStage, SettleStage, BumpStage, Goto, Finish, TypeOK, history
  <2>2. ASSUME NEW s \in Samples, Placed(s)' PROVE tickOf'[s] \in Seconds
    BY <1>1, <2>1, <2>2, CountedByItsRecord DEF FlightOK, ControlOK, TypeOK
  <2>3. ASSUME NEW u \in Threads, pc'[u] # "idle"
        PROVE  pc[u] # "idle" /\ sample'[u] = sample[u] /\ sample[u] \in Samples
    BY <1>1, <1>2, <2>1, <2>3 DEF ControlOK
  <2>4. ASSUME NEW u \in Threads, pc'[u] # "idle" PROVE (~Placed(sample[u]))'
    <3> DEFINE x == sample'[u]
    <3>1. x \in Samples /\ ~Placed(x) /\ pc[u] # "idle" /\ x = sample[u]
      BY <1>1, <2>3, <2>4 DEF FlightOK
    <3>2. x = sample[t] => u = t
      BY <1>1, <2>1, <3>1 DEF FlightOK
    <3> QED
      BY <2>1, <2>4, <3>1, <3>2, CountedByItsRecord DEF Placed
  <2>5. ASSUME NEW u \in Threads, NEW v \in Threads, pc'[u] # "idle",
               sample'[u] = sample'[v]
        PROVE  u = v
    <3>1. ControlOK'
      BY ControlKept DEF CountInv, TimeInv
    <3>2. sample'[u] \in Samples
      BY <2>3, <2>5
    <3>3. pc'[v] # "idle"
      BY <2>5, <3>1, <3>2, Numbers DEF ControlOK
    <3> QED
      BY <1>1, <2>3, <2>5, <3>3 DEF FlightOK
  <2> QED
    BY <2>2, <2>4, <2>5 DEF FlightOK
<1> QED
  BY <1>3, <1>4

-----------------------------------------------------------------------------
(* Counts and seconds.                                                     *)

\* A stage and what is taken from it hold samples of the second it stands for.
StagesRight ==
  \A t \in Threads :
    /\ \A s \in stageCount[t] : tickOf[s] = StageSecond(t)
    /\ \A s \in carry[t] : tickOf[s] = from[t]
    /\ pc[t] \in {"deliver", "settle"} => stageCount[t] = {}

\* A slot holds samples of its second, besides some that have expired.
SlotsRight ==
  \A k \in Slots : \A s \in slotCount[k] :
    tickOf[s] = slotTick[k] \/ tickOf[s] + WindowSecs <= now

\* A sample that is counted nowhere after its record has expired.
NoneLost ==
  \A s \in Samples :
    tickOf[s] \in Seconds /\ (\A t \in Threads : sample[t] # s) =>
      Placed(s) \/ tickOf[s] + WindowSecs <= now

WindowInv == CountInv /\ StagesRight /\ SlotsRight /\ NoneLost

\* tickOf of a counted sample is a second, and stays.
LEMMA PlacedHasSecond ==
  ASSUME WindowInv, NEW t \in Threads, Record(t), NEW s \in Samples, Placed(s)
  PROVE  tickOf[s] \in Seconds /\ tickOf'[s] = tickOf[s] /\ now' = now
<1>1. tickOf[s] \in Seconds
  BY DEF WindowInv, CountInv, FlightOK
<1>2. ASSUME NEW x \in Samples, Begin(t, x) PROVE tickOf'[s] = tickOf[s] /\ now' = now
  BY <1>1, <1>2, SecondOrMark DEF Begin, WindowInv, CountInv, TimeInv, ThreadsInv, TypeOK
<1>3. ASSUME Advance(t) PROVE tickOf'[s] = tickOf[s] /\ now' = now
  BY <1>3 DEF Advance, RecordStaged, RecordDirect, MarkStage, FindSlot,
     ClaimSlot, MissSlot, ClearSlot, PublishSlot, CheckSlot, AddToSlot, DrainStage,
     DeliverCounts, DiscardStage, SettleStage, BumpStage, history
<1> QED
  BY <1>1, <1>2, <1>3 DEF Record

\* The stage of a thread that does not move it holds no mark.
LEMMA StageUnmarked ==
  ASSUME ThreadsInv, NEW t \in Threads,
         pc[t] \in {"idle", "begun", "check", "add", "bump"} \/ (pc[t] = "claim" /\ ~Moving(t))
  PROVE  stageTick[t] # TickResetting /\ StageSecond(t) = stageTick[t]
BY DEF ThreadsInv, MarksOK, ResetExclusive, StageSecond

\* The stage of the thread that moves.
OwnStageRight(t) ==
  /\ \A s \in stageCount[t] : tickOf[s] = StageSecond(t)
  /\ \A s \in carry[t] : tickOf[s] = from[t]
  /\ pc[t] \in {"deliver", "settle"} => stageCount[t] = {}

\* Its own steps keep a stage right.
LEMMA OwnStageKept ==
  ASSUME WindowInv, NEW t \in Threads, Record(t)
  PROVE  OwnStageRight(t)'
<1>a. TypeOK /\ ControlOK /\ OwnStageRight(t)
  BY DEF WindowInv, CountInv, TimeInv, ThreadsInv, StagesRight, OwnStageRight
<1>b. stageCount[t] \subseteq Samples /\ carry[t] \subseteq Samples
  BY <1>a DEF TypeOK
<1>c. \A s \in stageCount[t] \cup carry[t] : tickOf[s] \in Seconds /\ tickOf'[s] = tickOf[s]
  BY <1>b, PlacedHasSecond DEF Placed
<1>d. pc[t] \in {"idle", "begun", "check", "add", "bump"} \/ (pc[t] = "claim" /\ ~Moving(t))
        => stageTick[t] # TickResetting /\ StageSecond(t) = stageTick[t]
  BY StageUnmarked DEF WindowInv, CountInv, TimeInv
<1>e. pc[t] \in {"drain", "deliver", "discard", "settle"} => stageTick[t] = TickResetting
  BY <1>a DEF WindowInv, CountInv, TimeInv, ThreadsInv, MarksOK, ResetExclusive, ControlOK
<1>f. carry[t] # {} => pc[t] = "deliver"
  BY <1>a DEF ControlOK
<1>g. TickEmpty \notin Seconds
  BY SecondOrMark
<1> USE DEF OwnStageRight, StageSecond, TypeOK, ControlOK, Goto, slotVars, stageVars, localVars,
           history
<1>1. ASSUME NEW s \in Samples, Begin(t, s) PROVE OwnStageRight(t)'
  BY <1>1, <1>a, <1>b, <1>c, <1>d, <1>e DEF Begin
<1>2. CASE RecordStaged(t)
  BY <1>2, <1>a, <1>b, <1>c, <1>d, <1>e DEF RecordStaged
<1>3. CASE RecordDirect(t)
  BY <1>3, <1>a, <1>b, <1>c, <1>d, <1>e DEF RecordDirect
<1>4. CASE MarkStage(t)
  <2>1. /\ stageTick[t] # TickResetting /\ StageSecond(t) = stageTick[t] /\ carry[t] = {}
    BY <1>4, <1>d, <1>f DEF MarkStage
  <2>2. /\ stageTick'[t] = TickResetting /\ from'[t] = stageTick[t]
        /\ UNCHANGED <<stageCount, carry>>
        /\ pc'[t] # "deliver" /\ (pc'[t] = "settle" => stageTick[t] = TickEmpty)
    BY <1>4, <1>a DEF MarkStage
  <2>3. stageTick[t] = TickEmpty => stageCount[t] = {}
    BY <1>a, <1>c, <1>g, <2>1
  <2> QED
    BY <1>a, <1>c, <2>1, <2>2, <2>3
<1>5. CASE FindSlot(t)
  BY <1>5, <1>a, <1>b, <1>c, <1>d, <1>e DEF FindSlot
<1>6. CASE ClaimSlot(t)
  BY <1>6, <1>a, <1>b, <1>c, <1>d, <1>e DEF ClaimSlot
<1>7. CASE MissSlot(t)
  BY <1>7, <1>a, <1>b, <1>c, <1>d, <1>e, <1>f DEF MissSlot, Finish, Moving
<1>8. CASE ClearSlot(t)
  BY <1>8, <1>a, <1>b, <1>c, <1>d, <1>e DEF ClearSlot
<1>9. CASE PublishSlot(t)
  BY <1>9, <1>a, <1>b, <1>c, <1>d, <1>e DEF PublishSlot
<1>10. CASE CheckSlot(t)
  <2>1. /\ stageTick[t] # TickResetting /\ carry[t] = {} /\ pc'[t] \in {"idle", "add"}
        /\ UNCHANGED <<stageTick, stageCount, carry>>
    BY <1>10, <1>a, <1>d, <1>f DEF CheckSlot, Finish
  <2> QED
    BY <1>a, <1>c, <2>1
<1>11. CASE AddToSlot(t)
  <2>1. /\ stageTick[t] # TickResetting /\ carry[t] = {} /\ pc'[t] = "idle"
        /\ UNCHANGED <<stageTick, stageCount, carry>>
    BY <1>11, <1>a, <1>d, <1>f DEF AddToSlot, Finish
  <2> QED
    BY <1>a, <1>c, <2>1
<1>12. CASE DrainStage(t)
  BY <1>12, <1>a, <1>b, <1>c, <1>d, <1>e DEF DrainStage
<1>13. CASE DeliverCounts(t)
  BY <1>13, <1>a, <1>b, <1>c, <1>d, <1>e DEF DeliverCounts
<1>14. CASE DiscardStage(t)
  BY <1>14, <1>a, <1>b, <1>c, <1>d, <1>e DEF DiscardStage
<1>15. CASE SettleStage(t)
  BY <1>15, <1>a, <1>b, <1>c, <1>d, <1>e DEF SettleStage
<1>16. CASE BumpStage(t)
  <2>1. /\ stageTick[t] # TickResetting /\ carry[t] = {} /\ pc'[t] = "idle"
        /\ stageCount'[t] = stageCount[t] \cup {sample[t]}
        /\ UNCHANGED <<stageTick, carry, tickOf>>
    BY <1>16, <1>a, <1>d, <1>f DEF BumpStage, Finish
  <2>2. tickOf[sample[t]] = stageTick[t]
    BY <1>16, <1>a DEF BumpStage
  <2> QED
    BY <1>a, <1>c, <2>1, <2>2
<1> QED
  BY <1>1, <1>2, <1>3, <1>4, <1>5, <1>6, <1>7, <1>8, <1>9,
     <1>10, <1>11, <1>12, <1>13, <1>14, <1>15, <1>16 DEF Record, Advance

\* A stage, and what was taken from it, counts samples of one second.
LEMMA StagesKept ==
  ASSUME WindowInv, NEW t \in Threads, Record(t)
  PROVE  StagesRight'
<1>1. ASSUME NEW u \in Threads, u # t PROVE OwnStageRight(u)'
  <2>1. /\ pc'[u] = pc[u] /\ from'[u] = from[u] /\ carry'[u] = carry[u]
        /\ stageTick'[u] = stageTick[u] /\ stageCount'[u] = stageCount[u]
    BY <1>1, OthersStay DEF WindowInv, CountInv, TimeInv
  <2>2. stageCount[u] \subseteq Samples /\ carry[u] \subseteq Samples
    BY DEF WindowInv, CountInv, TimeInv, ThreadsInv, TypeOK
  <2>3. \A s \in stageCount[u] \cup carry[u] : tickOf'[s] = tickOf[s]
    BY <2>2, PlacedHasSecond DEF Placed
  <2>4. OwnStageRight(u)
    BY DEF WindowInv, StagesRight, OwnStageRight
  <2> QED
    BY <2>1, <2>3, <2>4 DEF OwnStageRight, StageSecond
<1>2. OwnStageRight(t)'
  BY OwnStageKept
<1>3. \A u \in Threads : OwnStageRight(u)'
  BY <1>1, <1>2
<1> QED
  BY <1>3 DEF StagesRight, OwnStageRight

\* What a thread adds to a slot is of the second it is after.
LEMMA AddedIsOfTarget ==
  ASSUME WindowInv, NEW t \in Threads, AddToSlot(t) \/ DeliverCounts(t),
         NEW s \in Samples, NEW k \in Slots, s \in slotCount'[k], s \notin slotCount[k]
  PROVE  k = Slot(t) /\ tickOf[s] = Target(t) /\ HoldsSlot(t)
<1>a. TypeOK /\ ControlOK /\ StagesRight /\ Slot(t) \in Slots
  BY TargetIsSecond DEF WindowInv, CountInv, TimeInv, ThreadsInv
<1>b. pc[t] \in HoldPCs => HoldsSlot(t)
  BY DEF WindowInv, CountInv, TimeInv, SlotsHeld
<1>1. CASE AddToSlot(t)
  <2>1. pc[t] = "add" /\ k = Slot(t) /\ s = sample[t]
    BY <1>1, <1>a DEF AddToSlot, TypeOK
  <2>2. tickOf[s] = tick[t] /\ ~Moving(t)
    BY <1>a, <2>1 DEF ControlOK, MovePCs
  <2> QED
    BY <1>b, <2>1, <2>2 DEF Target, HoldPCs
<1>2. CASE DeliverCounts(t)
  <2>1. pc[t] = "deliver" /\ k = Slot(t) /\ s \in carry[t]
    BY <1>2, <1>a DEF DeliverCounts, TypeOK
  <2>2. tickOf[s] = from[t] /\ Moving(t)
    BY <1>a, <2>1 DEF ControlOK, StagesRight
  <2> QED
    BY <1>b, <2>1, <2>2 DEF Target, HoldPCs
<1> QED
  BY <1>1, <1>2

\* Slots are recycled by newer seconds of their own.
LEMMA SlotsKept ==
  ASSUME WindowInv, NEW t \in Threads, Record(t)
  PROVE  SlotsRight'
<1> SUFFICES ASSUME NEW k \in Slots, NEW s \in slotCount'[k]
             PROVE  tickOf'[s] = slotTick'[k] \/ tickOf'[s] + WindowSecs <= now'
  BY DEF SlotsRight
<1>a. /\ TypeOK /\ ControlOK /\ TypeOK' /\ TimeInv
      /\ Target(t) \in Seconds /\ Slot(t) \in Slots
  BY TargetIsSecond, TypeKept DEF WindowInv, CountInv, TimeInv, ThreadsInv
<1>b. s \in Samples
  BY <1>a DEF TypeOK
<1>1. CASE s \in slotCount[k]
  <2>1. tickOf[s] \in Seconds /\ tickOf'[s] = tickOf[s] /\ now' = now
    BY <1>1, <1>b, PlacedHasSecond DEF Placed
  <2>2. tickOf[s] = slotTick[k] \/ tickOf[s] + WindowSecs <= now
    BY <1>1 DEF WindowInv, SlotsRight
  <2>3. CASE slotTick'[k] = slotTick[k] \/ tickOf[s] # slotTick[k]
    BY <2>1, <2>2, <2>3
  <2>4. CASE slotTick'[k] # slotTick[k] /\ tickOf[s] = slotTick[k] /\ ClaimSlot(t)
    <3>1. k = Slot(t) /\ (slotTick[k] < Target(t) \/ slotTick[k] = TickEmpty)
      BY <1>a, <2>4 DEF ClaimSlot, TypeOK
    <3>2. slotTick[k] \in Nat /\ slotTick[k] < Target(t) /\ Target(t) \in Nat
      BY <1>a, <2>1, <2>4, <3>1, SecondOrMark
    <3>3. slotTick[k] % WindowSecs = Target(t) % WindowSecs
      BY <1>a, <2>1, <2>4, <3>1 DEF TimeInv, ClockOK, Slot
    <3>4. slotTick[k] + WindowSecs <= Target(t)
      BY <3>2, <3>3, SameSlot
    <3>5. Target(t) <= now /\ now \in Nat
      BY <1>a, TargetNotAhead
    <3> QED
      BY <2>1, <2>4, <3>2, <3>4, <3>5, Numbers
  <2>5. CASE slotTick'[k] # slotTick[k] /\ tickOf[s] = slotTick[k] /\ PublishSlot(t)
    <3>1. k = Slot(t) /\ Resets(t)
      BY <1>a, <2>5 DEF PublishSlot, TypeOK, Resets
    <3> QED
      BY <2>1, <2>5, <3>1, SecondOrMark DEF WindowInv, CountInv, TimeInv, ThreadsInv, MarksOK
  <2>6. ClaimSlot(t) \/ PublishSlot(t) \/ slotTick' = slotTick
    BY DEF Record, Advance, Begin, RecordStaged, RecordDirect, MarkStage, FindSlot,
       MissSlot, ClearSlot, CheckSlot, AddToSlot, DrainStage, DeliverCounts,
       DiscardStage, SettleStage, BumpStage, slotVars
  <2> QED
    BY <2>3, <2>4, <2>5, <2>6
<1>2. CASE s \notin slotCount[k]
  <2>1. AddToSlot(t) \/ DeliverCounts(t)
    BY <1>2, <1>a DEF Record, Advance, Begin, RecordStaged, RecordDirect, MarkStage, FindSlot,
       ClaimSlot, MissSlot, ClearSlot, PublishSlot, CheckSlot, DrainStage,
       DiscardStage, SettleStage, BumpStage, slotVars, TypeOK
  <2>2. k = Slot(t) /\ tickOf[s] = Target(t) /\ HoldsSlot(t)
    BY <1>2, <1>b, <2>1, AddedIsOfTarget
  <2>3. UNCHANGED <<now, slotTick, tickOf>>
    BY <2>1 DEF AddToSlot, DeliverCounts, history
  <2> QED
    BY <2>2, <2>3 DEF HoldsSlot
<1> QED
  BY <1>1, <1>2

\* A counted sample stays counted until it has expired.
LEMMA PlacedUntilExpired ==
  ASSUME WindowInv, NEW t \in Threads, Record(t), NEW s \in Samples, Placed(s)
  PROVE  Placed(s)' \/ tickOf[s] + WindowSecs <= now
<1>a. TypeOK /\ ControlOK /\ Slot(t) \in Slots /\ tickOf[s] \in Seconds
  BY TargetIsSecond, PlacedHasSecond DEF WindowInv, CountInv, TimeInv, ThreadsInv
<1>1. CASE ClearSlot(t)
  <2>1. CASE s \in slotCount[Slot(t)]
    <3>1. slotTick[Slot(t)] = TickResetting
      BY <1>1 DEF ClearSlot, Resets, WindowInv, CountInv, TimeInv, ThreadsInv, MarksOK
    <3>2. tickOf[s] # slotTick[Slot(t)]
      BY <1>a, <3>1, SecondOrMark
    <3> QED
      BY <1>a, <2>1, <3>2 DEF WindowInv, SlotsRight
  <2>2. CASE s \notin slotCount[Slot(t)]
    BY <1>1, <1>a, <2>2 DEF ClearSlot, Placed, TypeOK, stageVars
  <2> QED
    BY <2>1, <2>2
<1>2. CASE DiscardStage(t)
  <2>1. CASE s \in stageCount[t]
    <3>1. StageSecond(t) = from[t]
      BY <1>2 DEF DiscardStage, WindowInv, CountInv, TimeInv, ThreadsInv, ControlOK, MarksOK,
         ResetExclusive, StageSecond
    <3> QED
      BY <1>2, <2>1, <3>1 DEF DiscardStage, WindowInv, StagesRight, CountInv, TimeInv, ClockOK
  <2>2. CASE s \notin stageCount[t]
    BY <1>2, <1>a, <2>2 DEF DiscardStage, Placed, TypeOK, slotVars
  <2> QED
    BY <2>1, <2>2
<1>3. CASE DrainStage(t)
  BY <1>3, <1>a DEF DrainStage, Placed, TypeOK, ControlOK, slotVars
<1>4. CASE DeliverCounts(t)
  BY <1>4, <1>a DEF DeliverCounts, Placed, TypeOK, stageVars
<1>5. CASE ~(ClearSlot(t) \/ DiscardStage(t) \/ DrainStage(t) \/ DeliverCounts(t))
  BY <1>5, <1>a DEF Record, Advance, Begin, RecordStaged, RecordDirect, MarkStage, FindSlot,
     ClaimSlot, MissSlot, PublishSlot, CheckSlot, AddToSlot, SettleStage, BumpStage,
     Placed, TypeOK, slotVars, stageVars
<1> QED
  BY <1>1, <1>2, <1>3, <1>4, <1>5

\* A record that ends without counting its sample was overtaken by a whole window.
LEMMA EndedIsPlaced ==
  ASSUME WindowInv, NEW t \in Threads, Record(t), pc[t] # "idle", pc'[t] = "idle",
         NEW s \in Samples, s = sample[t]
  PROVE  Placed(s)' \/ tick[t] + WindowSecs <= now
<1>a. /\ TypeOK /\ ControlOK /\ SlotsHeld /\ Slot(t) \in Slots /\ TimeInv
      /\ Target(t) \in Seconds
  BY TargetIsSecond DEF WindowInv, CountInv, TimeInv, ThreadsInv
<1>1. CASE AddToSlot(t)
  BY <1>1, <1>a DEF AddToSlot, Placed, TypeOK
<1>2. CASE BumpStage(t)
  BY <1>2, <1>a DEF BumpStage, Placed, TypeOK
<1>3. CASE CheckSlot(t)
  <2>1. pc[t] = "check" /\ slotTick[Slot(t)] # tick[t] /\ ~Moving(t)
    BY <1>3, <1>a DEF CheckSlot, ControlOK, MovePCs, Goto, TypeOK
  <2> QED
    BY <1>a, <2>1 DEF SlotsHeld, HoldPCs, HoldsSlot, Target
<1>4. CASE MissSlot(t)
  <2>1. /\ ~Moving(t) /\ slotTick[Slot(t)] > Target(t)
        /\ slotTick[Slot(t)] \notin {TickResetting, TickEmpty}
    BY <1>4, <1>a DEF MissSlot, Goto, TypeOK
  <2>2. slotTick[Slot(t)] \in Seconds
    BY <1>a, <2>1, SecondOrMark DEF TypeOK
  <2> QED
    BY <1>a, <2>1, <2>2, NewerExpires DEF Target
<1>5. CASE ~(AddToSlot(t) \/ BumpStage(t) \/ CheckSlot(t) \/ MissSlot(t))
  BY <1>5, <1>a DEF Record, Advance, Begin, RecordStaged, RecordDirect, MarkStage, FindSlot,
     ClaimSlot, ClearSlot, PublishSlot, DrainStage, DeliverCounts, DiscardStage, SettleStage,
     Goto, TypeOK
<1> QED
  BY <1>1, <1>2, <1>3, <1>4, <1>5

\* A step of a record loses no sample of the window.
LEMMA NoneLostKept ==
  ASSUME WindowInv, NEW t \in Threads, Record(t)
  PROVE  NoneLost'
<1> SUFFICES ASSUME NEW s \in Samples, tickOf'[s] \in Seconds,
                    \A u \in Threads : sample'[u] # s
             PROVE  Placed(s)' \/ tickOf'[s] + WindowSecs <= now'
  BY DEF NoneLost
<1>a. TypeOK /\ ControlOK
  BY DEF WindowInv, CountInv, TimeInv, ThreadsInv
<1>b. \A u \in Threads : u # t => sample'[u] = sample[u]
  BY OthersStay DEF WindowInv, CountInv, TimeInv
<1>1. now' = now /\ tickOf'[s] = tickOf[s]
  <2>1. ASSUME NEW x \in Samples, Begin(t, x) PROVE now' = now /\ tickOf'[s] = tickOf[s]
    BY <1>a, <2>1 DEF Begin, TypeOK
  <2>2. ASSUME Advance(t) PROVE now' = now /\ tickOf'[s] = tickOf[s]
    BY <2>2 DEF Advance, RecordStaged, RecordDirect, MarkStage, FindSlot,
       ClaimSlot, MissSlot, ClearSlot, PublishSlot, CheckSlot, AddToSlot, DrainStage,
       DeliverCounts, DiscardStage, SettleStage, BumpStage, history
  <2> QED
    BY <2>1, <2>2 DEF Record
<1>2. CASE \A u \in Threads : sample[u] # s
  BY <1>1, <1>2, PlacedUntilExpired DEF WindowInv, NoneLost
<1>3. CASE \E u \in Threads : sample[u] = s
  <2>1. sample[t] = s
    BY <1>b, <1>3
  <2>2. pc[t] # "idle" /\ tickOf[s] = tick[t]
    BY <1>a, <2>1, Numbers DEF ControlOK
  <2>3. pc'[t] = "idle"
    BY <1>a, <2>1, <2>2 DEF Record, Advance, Begin, RecordStaged, RecordDirect, MarkStage,
       FindSlot, ClaimSlot, MissSlot, ClearSlot, PublishSlot, CheckSlot, AddToSlot, DrainStage,
       DeliverCounts, DiscardStage, SettleStage, BumpStage, Finish, Goto, TypeOK
  <2> QED
    BY <1>1, <2>1, <2>2, <2>3, EndedIsPlaced
<1> QED
  BY <1>2, <1>3

\* Every step keeps the invariant of the window.
LEMMA WindowKept == WindowInv /\ [Next]_vars => WindowInv'
<1> SUFFICES ASSUME WindowInv, [Next]_vars PROVE WindowInv'
  OBVIOUS
<1>0. TimeInv'
  BY TimeKept DEF WindowInv, CountInv
<1>1. CASE Tick
  <2>1. /\ now' = now + 1 /\ now \in Nat
        /\ UNCHANGED <<slotVars, stageVars, localVars, tickOf, by>>
    BY <1>1, SecondOrMark DEF Tick, WindowInv, CountInv, TimeInv, ThreadsInv, TypeOK
  <2>2. Apart' /\ FlightOK' /\ StagesRight'
    BY <2>1 DEF slotVars, stageVars, localVars, WindowInv, CountInv, Apart, FlightOK, Placed,
       StagesRight, StageSecond
  <2>3. \A x \in Seconds : x + WindowSecs <= now => x + WindowSecs <= now'
    BY <2>1, Numbers, SecondOrMark
  <2>4. \A k \in Slots : \A s \in slotCount[k] : tickOf[s] \in Seconds
    BY DEF WindowInv, CountInv, TimeInv, ThreadsInv, TypeOK, FlightOK, Placed
  <2>5. SlotsRight'
    BY <2>1, <2>3, <2>4 DEF slotVars, WindowInv, SlotsRight
  <2>6. NoneLost'
    BY <2>1, <2>3 DEF slotVars, stageVars, localVars, WindowInv, NoneLost, Placed
  <2> QED
    BY <1>0, <2>2, <2>5, <2>6 DEF WindowInv, CountInv
<1>2. ASSUME NEW t \in Threads, Record(t) PROVE WindowInv'
  BY <1>0, <1>2, ApartKept, FlightKept, StagesKept, SlotsKept, NoneLostKept
     DEF WindowInv, CountInv
<1>3. CASE UNCHANGED vars
  BY <1>0, <1>3 DEF vars, slotVars, stageVars, localVars, history, WindowInv, CountInv, Apart,
     FlightOK, Placed, StagesRight, StageSecond, SlotsRight, NoneLost
<1> QED
  BY <1>1, <1>2, <1>3 DEF Next

\* The window starts empty.
LEMMA WindowStart == Init => WindowInv
<1> SUFFICES ASSUME Init PROVE WindowInv
  OBVIOUS
<1>1. Apart /\ FlightOK /\ StagesRight /\ SlotsRight /\ NoneLost
  BY SecondOrMark DEF Init, Apart, FlightOK, Placed, StagesRight, SlotsRight, NoneLost
<1> QED
  BY <1>1, TimeStart DEF WindowInv, CountInv

\* Stages and ring hold each sample of the window once, those of a stage in their
\* second, however the recorders of histogram.rs:405-489 interleave.
THEOREM WindowInvariant == Spec => []WindowInv
BY WindowStart, WindowKept, PTL DEF Spec

\* The places of a sample, and when there are any.
LEMMA PlacedInPlaces ==
  ASSUME NEW s \in Samples
  PROVE  PlacesOf(s) # {} <=> Placed(s)
BY DEF PlacesOf, Placed

\* No place but one.
LEMMA OnePlace ==
  ASSUME WindowInv, NEW s \in Samples
  PROVE  Cardinality(PlacesOf(s)) <= 1
<1>1. ASSUME NEW p \in PlacesOf(s), NEW q \in PlacesOf(s) PROVE p = q
  BY <1>1 DEF PlacesOf, WindowInv, CountInv, Apart
<1>2. CASE PlacesOf(s) = {}
  BY <1>2, FS_EmptySet
<1>3. CASE PlacesOf(s) # {}
  <2>1. PICK p : p \in PlacesOf(s)
    BY <1>3
  <2>2. PlacesOf(s) = {p}
    BY <1>1, <2>1
  <2>3. Cardinality(PlacesOf(s)) = 1
    BY <2>2, FS_Singleton
  <2> QED
    BY <2>3
<1> QED
  BY <1>2, <1>3

\* Moving a stage neither loses nor doubles counts, and a slot is recycled only
\* once its second has expired: after its record a sample is counted in exactly one
\* place while its second is in the window, however recorders lag.
THEOREM EachCountedOnce == Spec => []CountedOnce
<1>1. WindowInv => CountedOnce
  <2> SUFFICES ASSUME WindowInv, NEW s \in Recorded
               PROVE  /\ Cardinality(PlacesOf(s)) <= 1
                      /\ InWindow(tickOf[s]) => PlacesOf(s) # {}
    BY DEF CountedOnce
  <2>1. s \in Samples /\ tickOf[s] \in Seconds /\ \A t \in Threads : sample[t] # s
    BY DEF Recorded, InFlight, WindowInv, CountInv, TimeInv, ThreadsInv, TypeOK
  <2>2. Placed(s) \/ tickOf[s] + WindowSecs <= now
    BY <2>1 DEF WindowInv, NoneLost
  <2>3. now \in Nat /\ tickOf[s] \in Nat
    BY <2>1, SecondOrMark DEF WindowInv, CountInv, TimeInv, ThreadsInv, TypeOK
  <2>4. InWindow(tickOf[s]) => Placed(s)
    BY <2>2, <2>3, Numbers DEF InWindow
  <2> QED
    BY <2>1, <2>4, OnePlace, PlacedInPlaces
<1> QED
  BY <1>1, WindowInvariant, PTL

-----------------------------------------------------------------------------
(* Recorders that keep up with the clock.                                  *)

\* A stage is moved only while it is young enough.
MovesYoung ==
  \A t \in Threads :
    Moving(t) /\ pc[t] \in {"claim", "clear", "publish", "drain", "deliver"} =>
      Movable(tick[t] - from[t])

\* Nobody was overtaken by more than the margin.
OnTime == ~late => \A t \in Threads : pc[t] # "idle" => now - tick[t] <= MaxStale

\* Then slots are exact, and a slot that is about to be published is empty.
SlotsExact ==
  ~late =>
    /\ \A k \in Slots : slotTick[k] # TickResetting =>
         \A s \in slotCount[k] : tickOf[s] = slotTick[k]
    /\ \A t \in Threads : pc[t] = "publish" => slotCount[Slot(t)] = {}

PromptInv == WindowInv /\ MovesYoung /\ OnTime /\ SlotsExact

\* The margin of FLUSH_MAX_AGE: a thread that keeps up has the slot it found.
LEMMA PromptHolds ==
  ASSUME MaxStale <= 1, PromptInv, ~late, NEW t \in Threads, pc[t] \in HoldPCs
  PROVE  slotTick[Slot(t)] = Target(t)
<1>1. HoldsSlot(t)
  BY DEF PromptInv, WindowInv, CountInv, TimeInv, SlotsHeld
<1>2. /\ Target(t) \in Nat /\ now \in Nat /\ tick[t] \in Nat /\ MaxStale \in Nat
      /\ now - tick[t] <= MaxStale
  BY TargetNotAhead, SecondOrMark, WindowAssumption DEF PromptInv, WindowInv, CountInv, TimeInv,
     ThreadsInv, TypeOK, OnTime, HoldPCs
<1>3. CASE Moving(t)
  <2>1. Target(t) = from[t] /\ pc[t] \in {"drain", "deliver"}
    BY <1>3 DEF Target, HoldPCs, PromptInv, WindowInv, CountInv, TimeInv, ThreadsInv,
       ControlOK, MovePCs
  <2>2. tick[t] - from[t] <= WindowSecs - 2
    BY <1>3, <2>1 DEF PromptInv, MovesYoung, Movable, FlushMaxAge
  <2> QED
    BY <1>1, <1>2, <2>1, <2>2, Numbers DEF HoldsSlot
<1>4. CASE ~Moving(t)
  BY <1>1, <1>2, <1>4, Numbers DEF HoldsSlot, Target
<1> QED
  BY <1>3, <1>4

\* A stage is moved only while its second keeps the margin of FLUSH_MAX_AGE.
LEMMA YoungKept ==
  ASSUME PromptInv, NEW t \in Threads, Record(t)
  PROVE  MovesYoung'
<1>a. TypeOK /\ ControlOK /\ MovesYoung
  BY DEF PromptInv, WindowInv, CountInv, TimeInv, ThreadsInv
<1>1. ASSUME NEW u \in Threads, u # t, Moving(u)',
             pc'[u] \in {"claim", "clear", "publish", "drain", "deliver"}
      PROVE  Movable(tick'[u] - from'[u])
  BY <1>1, <1>a, OthersStay DEF PromptInv, WindowInv, CountInv, TimeInv, MovesYoung, Moving
<1>2. ASSUME Moving(t)', pc'[t] \in {"claim", "clear", "publish", "drain", "deliver"}
      PROVE  Movable(tick'[t] - from'[t])
  <2>1. CASE MarkStage(t)
    <3>1. ~BypassesStage(t) /\ stageTick[t] # TickEmpty /\ Movable(StageAge(t))
          /\ tick'[t] = tick[t] /\ from'[t] = stageTick[t]
      BY <1>2, <1>a, <2>1 DEF MarkStage, TypeOK, Goto, Moving
    <3> QED
      BY <1>a, <3>1, AgeOfMarked
  <2>2. CASE ~MarkStage(t)
    <3>1. /\ Moving(t) /\ pc[t] \in {"claim", "clear", "publish", "drain", "deliver"}
          /\ tick'[t] = tick[t] /\ from'[t] = from[t]
      BY <1>2, <1>a, <2>2 DEF Record, Advance, Begin, RecordStaged, RecordDirect, FindSlot,
         ClaimSlot, MissSlot, ClearSlot, PublishSlot, CheckSlot, AddToSlot, DrainStage,
         DeliverCounts, DiscardStage, SettleStage, BumpStage, Finish, Goto, TypeOK, Moving,
         ControlOK, MovePCs
    <3> QED
      BY <1>a, <3>1 DEF MovesYoung
  <2> QED
    BY <2>1, <2>2
<1> QED
  BY <1>1, <1>2 DEF MovesYoung

\* Threads do not move the clock; one that begins has read it in time, or is late.
LEMMA StepIsPrompt ==
  ASSUME PromptInv, NEW t \in Threads, Record(t)
  PROVE  now' = now /\ (late => late') /\ OnTime'
<1>a. TypeOK
  BY DEF PromptInv, WindowInv, CountInv, TimeInv, ThreadsInv
<1>b. now \in Nat /\ MaxStale \in Nat
  BY <1>a, SecondOrMark, WindowAssumption DEF TypeOK
<1>1. /\ now' = now /\ (late => late')
      /\ ~late' /\ pc'[t] # "idle" =>
           now - tick'[t] <= MaxStale \/ (pc[t] # "idle" /\ tick'[t] = tick[t])
  <2>1. ASSUME NEW s \in Samples, Begin(t, s)
        PROVE  now' = now /\ (late => late') /\ (~late' => now - tick'[t] <= MaxStale)
    <3>1. PICK second \in 0..now :
            /\ tick' = [tick EXCEPT ![t] = second]
            /\ late' = (late \/ now - second > MaxStale)
      BY <2>1 DEF Begin
    <3>2. tick'[t] = second /\ second \in Nat
      BY <1>a, <3>1 DEF TypeOK
    <3>3. ASSUME ~late' PROVE now - second <= MaxStale
      <4>1. ~(now - second > MaxStale)
        BY <3>1, <3>3
      <4> QED
        BY <1>b, <3>2, <4>1
    <3> QED
      BY <2>1, <3>1, <3>2, <3>3 DEF Begin
  <2>2. CASE Advance(t)
    BY <1>a, <2>2 DEF Advance, RecordStaged, RecordDirect, MarkStage, FindSlot,
       ClaimSlot, MissSlot, ClearSlot, PublishSlot, CheckSlot, AddToSlot, DrainStage,
       DeliverCounts, DiscardStage, SettleStage, BumpStage, Finish, Goto, TypeOK, history
  <2> QED
    BY <2>1, <2>2 DEF Record
<1>2. \A u \in Threads : u # t => pc'[u] = pc[u] /\ tick'[u] = tick[u]
  BY OthersStay DEF PromptInv, WindowInv, CountInv, TimeInv
<1>3. ASSUME ~late', NEW u \in Threads, pc'[u] # "idle" PROVE now' - tick'[u] <= MaxStale
  BY <1>1, <1>2, <1>b, <1>3 DEF PromptInv, OnTime
<1> QED
  BY <1>1, <1>3 DEF OnTime

\* What is added to a slot on time has the second of the slot.
LEMMA AddedIsExact ==
  ASSUME MaxStale <= 1, PromptInv, ~late, NEW t \in Threads, Record(t),
         NEW k \in Slots, NEW s \in slotCount'[k], s \notin slotCount[k]
  PROVE  /\ tickOf[s] = slotTick[k] /\ slotTick[k] \in Seconds
         /\ UNCHANGED <<slotTick, tickOf>>
<1>a. TypeOK /\ TypeOK' /\ Target(t) \in Seconds
  BY TypeKept, TargetIsSecond DEF PromptInv, WindowInv, CountInv, TimeInv, ThreadsInv
<1>1. AddToSlot(t) \/ DeliverCounts(t)
  BY <1>a DEF Record, Advance, Begin, RecordStaged, RecordDirect, MarkStage, FindSlot,
     ClaimSlot, MissSlot, ClearSlot, PublishSlot, CheckSlot, DrainStage,
     DiscardStage, SettleStage, BumpStage, slotVars, TypeOK
<1>2. s \in Samples /\ pc[t] \in HoldPCs /\ UNCHANGED <<slotTick, tickOf>>
  BY <1>1, <1>a DEF TypeOK, AddToSlot, DeliverCounts, HoldPCs, history
<1>3. k = Slot(t) /\ tickOf[s] = Target(t)
  BY <1>1, <1>2, AddedIsOfTarget DEF PromptInv
<1>4. slotTick[Slot(t)] = Target(t)
  BY <1>2, PromptHolds
<1> QED
  BY <1>a, <1>2, <1>3, <1>4

\* A slot that is not being reset counts samples of its own second only.
LEMMA ExactKept ==
  ASSUME MaxStale <= 1, PromptInv, NEW t \in Threads, Record(t)
  PROVE  SlotsExact'
<1> SUFFICES ASSUME ~late'
             PROVE  /\ \A k \in Slots : slotTick'[k] # TickResetting =>
                         \A s \in slotCount'[k] : tickOf'[s] = slotTick'[k]
                    /\ \A u \in Threads : pc'[u] = "publish" => slotCount'[Slot(u)'] = {}
  BY DEF SlotsExact
<1>a. TypeOK /\ Slot(t) \in Slots /\ ~late
  BY StepIsPrompt, TargetIsSecond DEF PromptInv, WindowInv, CountInv, TimeInv, ThreadsInv
<1>b. /\ \A k \in Slots : slotTick[k] # TickResetting =>
           \A s \in slotCount[k] : tickOf[s] = slotTick[k]
      /\ \A u \in Threads : pc[u] = "publish" => slotCount[Slot(u)] = {}
  BY <1>a DEF PromptInv, SlotsExact
<1>1. ASSUME NEW k \in Slots, slotTick'[k] # TickResetting, NEW s \in slotCount'[k]
      PROVE  tickOf'[s] = slotTick'[k]
  <2>1. CASE s \notin slotCount[k]
    BY <1>a, <2>1, AddedIsExact
  <2>2. CASE s \in slotCount[k]
    <3>1. tickOf'[s] = tickOf[s]
      BY <1>a, <2>2, PlacedHasSecond DEF Placed, PromptInv, TypeOK
    <3>2. CASE slotTick'[k] = slotTick[k]
      BY <1>1, <1>b, <2>2, <3>1, <3>2
    <3>3. CASE slotTick'[k] # slotTick[k]
      <4>1. ClaimSlot(t) \/ PublishSlot(t)
        BY <3>3 DEF Record, Advance, Begin, RecordStaged, RecordDirect, MarkStage, FindSlot,
           MissSlot, ClearSlot, CheckSlot, AddToSlot, DrainStage, DeliverCounts,
           DiscardStage, SettleStage, BumpStage, slotVars
      <4>2. k = Slot(t) /\ ~ClaimSlot(t)
        BY <1>1, <1>a, <3>3, <4>1 DEF ClaimSlot, PublishSlot, TypeOK
      <4>3. slotCount[k] = {}
        BY <1>b, <4>1, <4>2 DEF PublishSlot
      <4> QED
        BY <2>2, <4>3
    <3> QED
      BY <3>2, <3>3
  <2> QED
    BY <2>1, <2>2
<1>2. ASSUME pc'[t] = "publish" PROVE slotCount'[Slot(t)'] = {}
  <2>1. ClearSlot(t)
    BY <1>2, <1>a DEF Record, Advance, Begin, RecordStaged, RecordDirect, MarkStage, FindSlot,
       ClaimSlot, MissSlot, PublishSlot, CheckSlot, AddToSlot, DrainStage, DeliverCounts,
       DiscardStage, SettleStage, BumpStage, Finish, Goto, TypeOK
  <2>2. Slot(t)' = Slot(t)
    BY <2>1 DEF ClearSlot, Slot, Target, Moving
  <2> QED
    BY <1>a, <2>1, <2>2 DEF ClearSlot, TypeOK
<1>3. ASSUME NEW u \in Threads, u # t, pc'[u] = "publish" PROVE slotCount'[Slot(u)'] = {}
  <2>1. pc[u] = "publish" /\ Slot(u)' = Slot(u) /\ Slot(u) \in Slots
    BY <1>3, <1>a, OthersStay, OthersKeepSlots, TargetIsSecond
       DEF PromptInv, WindowInv, CountInv, TimeInv
  <2>2. slotCount[Slot(u)] = {} /\ slotTick[Slot(u)] = TickResetting
    BY <1>b, <2>1 DEF Resets, PromptInv, WindowInv, CountInv, TimeInv, ThreadsInv, MarksOK
  <2>3. ASSUME NEW s \in slotCount'[Slot(u)] PROVE FALSE
    BY <1>a, <2>1, <2>2, AddedIsExact, SecondOrMark
  <2> QED
    BY <2>1, <2>3
<1> QED
  BY <1>1, <1>2, <1>3

LEMMA PromptStart == Init => PromptInv
BY WindowStart, SecondOrMark DEF Init, PromptInv, MovesYoung, OnTime, SlotsExact, Moving

\* The margin of FLUSH_MAX_AGE is kept by every step.
LEMMA PromptKept ==
  ASSUME MaxStale <= 1
  PROVE  PromptInv /\ [Next]_vars => PromptInv'
<1> SUFFICES ASSUME PromptInv, [Next]_vars PROVE PromptInv'
  OBVIOUS
<1>0. WindowInv'
  BY WindowKept DEF PromptInv
<1>1. CASE Tick
  <2>1. /\ UNCHANGED <<slotVars, stageVars, localVars, tickOf, by>>
        /\ late' = (late \/ \E t \in Threads : pc[t] # "idle" /\ now' - tick[t] > MaxStale)
    BY <1>1 DEF Tick
  <2>2. ASSUME ~late', NEW t \in Threads, pc'[t] # "idle" PROVE now' - tick'[t] <= MaxStale
    <3>1. now' \in Nat /\ tick'[t] \in Nat /\ MaxStale \in Nat
      BY <1>0, SecondOrMark, WindowAssumption DEF WindowInv, CountInv, TimeInv, ThreadsInv,
         TypeOK
    <3>2. ~(now' - tick'[t] > MaxStale)
      BY <2>1, <2>2 DEF localVars
    <3> QED
      BY <3>1, <3>2
  <2>3. OnTime'
    BY <2>2 DEF OnTime
  <2> QED
    BY <1>0, <2>1, <2>3 DEF PromptInv, MovesYoung, SlotsExact, slotVars, stageVars, localVars,
       Moving, Slot, Target
<1>2. ASSUME NEW t \in Threads, Record(t) PROVE PromptInv'
  BY <1>0, <1>2, YoungKept, StepIsPrompt, ExactKept DEF PromptInv
<1>3. CASE UNCHANGED vars
  BY <1>0, <1>3 DEF vars, slotVars, stageVars, localVars, history, PromptInv, MovesYoung,
     OnTime, SlotsExact, Moving, Slot, Target
<1> QED
  BY <1>1, <1>2, <1>3 DEF Next

\* Every count is in the second its request completed in, as long as no recorder
\* is overtaken by more than the one second FLUSH_MAX_AGE leaves as a margin.
THEOREM CountsInTheirSecond ==
  ASSUME MaxStale <= 1
  PROVE  Spec => []RightSecond
<1>1. PromptInv => RightSecond
  BY DEF PromptInv, WindowInv, StagesRight, SlotsExact, RightSecond
<1> QED
  BY <1>1, PromptStart, PromptKept, PTL DEF Spec

-----------------------------------------------------------------------------
(* Recording implements a window of samples.                               *)

\* What the abstract window sees of a sample, before a step and after it.
LEMMA StateOf ==
  ASSUME NEW s \in Samples
  PROVE  State(s) = IF tickOf[s] = TickEmpty THEN "new"
                    ELSE IF Placed(s) THEN "counted"
                    ELSE IF \E t \in Threads : sample[t] = s THEN "open" ELSE "gone"
BY PlacedInPlaces DEF State, InFlight

LEMMA StateOfNext ==
  ASSUME NEW s \in Samples
  PROVE  State(s)' = IF tickOf'[s] = TickEmpty THEN "new"
                     ELSE IF Placed(s)' THEN "counted"
                     ELSE IF \E t \in Threads : sample'[t] = s THEN "open" ELSE "gone"
<1>1. (PlacesOf(s) # {})' <=> Placed(s)'
  BY DEF PlacesOf, Placed
<1> QED
  BY <1>1 DEF State, InFlight

\* A record begins.
LEMMA BeginBegins ==
  ASSUME WindowInv, NEW t \in Threads, NEW s \in Samples, Begin(t, s)
  PROVE  Window!Begin(s)
<1>a. TypeOK /\ ControlOK
  BY DEF WindowInv, CountInv, TimeInv, ThreadsInv
<1>1. /\ pc[t] = "idle" /\ tickOf[s] = TickEmpty
      /\ now' = now /\ now \in Seconds
      /\ sample' = [sample EXCEPT ![t] = s]
      /\ UNCHANGED <<slotCount, stageCount, carry>>
  BY <1>a DEF Begin, slotVars, stageVars, TypeOK
<1>b. PICK past \in 0..now : tickOf' = [tickOf EXCEPT ![s] = past]
  BY DEF Begin
<1>c. past \in Seconds
  BY <1>1, <1>b, Numbers DEF Seconds
<1>2. \A x \in Samples : Placed(x)' <=> Placed(x)
  BY <1>1 DEF Placed
<1>3. ~Placed(s) /\ sample[t] \notin Samples
  BY <1>a, <1>1, NewIsNowhere, Numbers DEF WindowInv, ControlOK
<1>4. State(s) = "new" /\ State(s)' = "open"
  BY <1>a, <1>b, <1>c, <1>1, <1>2, <1>3, StateOf, StateOfNext, SecondOrMark DEF TypeOK
<1>5. ASSUME NEW x \in Samples, x # s PROVE State(x)' = State(x)
  <2>1. (\E u \in Threads : sample'[u] = x) <=> (\E u \in Threads : sample[u] = x)
    BY <1>a, <1>1, <1>3, <1>5 DEF TypeOK
  <2> QED
    BY <1>a, <1>b, <1>1, <1>2, <1>5, <2>1, StateOf, StateOfNext DEF TypeOK
<1>6. [x \in Samples |-> State(x)]' = [[x \in Samples |-> State(x)] EXCEPT ![s] = "open"]
  BY <1>4, <1>5
<1> QED
  BY <1>1, <1>b, <1>4, <1>6 DEF Window!Begin

\* While a record goes on, no other comes into flight.
LEMMA AdvanceFrame ==
  ASSUME WindowInv, NEW t \in Threads, Advance(t)
  PROVE  /\ now' = now /\ tickOf' = tickOf /\ pc[t] # "idle" /\ sample[t] \in Samples
         /\ \A u \in Threads : u # t => sample'[u] = sample[u]
         /\ sample'[t] = IF pc'[t] = "idle" THEN NoSample ELSE sample[t]
<1>a. TypeOK /\ ControlOK /\ Record(t)
  BY DEF WindowInv, CountInv, TimeInv, ThreadsInv, Record
<1>1. \A u \in Threads : u # t => sample'[u] = sample[u]
  BY <1>a, OthersStay DEF WindowInv, CountInv, TimeInv
<1>2. /\ now' = now /\ tickOf' = tickOf /\ pc[t] # "idle"
      /\ sample'[t] = IF pc'[t] = "idle" THEN NoSample ELSE sample[t]
  BY <1>a DEF Advance, RecordStaged, RecordDirect, MarkStage, FindSlot,
     ClaimSlot, MissSlot, ClearSlot, PublishSlot, CheckSlot, AddToSlot, DrainStage,
     DeliverCounts, DiscardStage, SettleStage, BumpStage, Finish, Goto, TypeOK, history
<1> QED
  BY <1>a, <1>1, <1>2 DEF ControlOK

\* The sample is counted.
LEMMA AddingCounts ==
  ASSUME WindowInv, NEW t \in Threads, AddToSlot(t) \/ BumpStage(t),
         NEW s \in Samples, s = sample[t]
  PROVE  Window!Count(s)
<1>a. TypeOK /\ ControlOK /\ FlightOK /\ Slot(t) \in Slots /\ Advance(t)
  BY TargetIsSecond DEF WindowInv, CountInv, TimeInv, ThreadsInv, Advance
<1>1. /\ now' = now /\ tickOf' = tickOf /\ pc[t] # "idle"
      /\ \A u \in Threads : u # t => sample'[u] = sample[u]
  BY <1>a, AdvanceFrame
<1>2. sample'[t] = NoSample
  BY <1>a DEF AddToSlot, BumpStage, Finish, TypeOK
<1>3. \A x \in Samples : Placed(x)' <=> Placed(x) \/ x = s
  BY <1>a DEF AddToSlot, BumpStage, Placed, TypeOK, slotVars, stageVars
<1>4. tickOf[s] \in Seconds /\ ~Placed(s)
  BY <1>a, <1>1 DEF ControlOK, FlightOK, TypeOK
<1>5. State(s) = "open"
  BY <1>4, StateOf, SecondOrMark
<1>6. State(s)' = "counted"
  <2>1. Placed(s)'
    BY <1>3
  <2> QED
    BY <1>1, <1>4, <2>1, StateOfNext, SecondOrMark
<1>7. ASSUME NEW x \in Samples, x # s PROVE State(x)' = State(x)
  <2>1. (\E u \in Threads : sample'[u] = x) <=> (\E u \in Threads : sample[u] = x)
    BY <1>1, <1>2, <1>7, Numbers
  <2> QED
    BY <1>1, <1>3, <1>7, <2>1, StateOf, StateOfNext
<1>8. [x \in Samples |-> State(x)]' = [[x \in Samples |-> State(x)] EXCEPT ![s] = "counted"]
  BY <1>6, <1>7
<1> QED
  BY <1>1, <1>5, <1>8 DEF Window!Count

\* Whatever else a record does, samples are only lost once they have expired.
LEMMA OthersLose ==
  ASSUME WindowInv, NEW t \in Threads, Advance(t), ~AddToSlot(t), ~BumpStage(t)
  PROVE  Window!Lose
<1> DEFINE before == [s \in Samples |-> State(s)]
           lost == {s \in Samples : State(s)' # State(s)}
<1>a. TypeOK /\ ControlOK /\ FlightOK /\ Record(t) /\ now \in Nat
  BY SecondOrMark DEF WindowInv, CountInv, TimeInv, ThreadsInv, TypeOK, Record
<1>1. /\ now' = now /\ tickOf' = tickOf /\ pc[t] # "idle" /\ sample[t] \in Samples
      /\ \A u \in Threads : u # t => sample'[u] = sample[u]
      /\ sample'[t] = IF pc'[t] = "idle" THEN NoSample ELSE sample[t]
  BY AdvanceFrame
<1>2. ASSUME NEW s \in Samples, Placed(s)' PROVE Placed(s)
  <2>1. CASE CheckSlot(t) \/ MissSlot(t)
    BY <1>2, <2>1 DEF CheckSlot, MissSlot, Placed, slotVars, stageVars
  <2>2. CASE ~CheckSlot(t) /\ ~MissSlot(t)
    <3>1. pc'[t] # "idle"
      BY <1>a, <2>2 DEF Advance, RecordStaged, RecordDirect, MarkStage, FindSlot,
         ClaimSlot, ClearSlot, PublishSlot, DrainStage, DeliverCounts, DiscardStage,
         SettleStage, Goto, TypeOK
    <3> QED
      BY <1>a, <1>2, <3>1, CountedByItsRecord DEF WindowInv
  <2> QED
    BY <2>1, <2>2
<1>3. ASSUME NEW s \in Samples, State(s)' # State(s)
      PROVE  /\ State(s) \in {"open", "counted"} /\ State(s)' = "gone"
             /\ tickOf[s] \in Seconds /\ tickOf[s] + WindowSecs <= now
  <2>1. (\E u \in Threads : sample'[u] = s) => \E u \in Threads : sample[u] = s
    BY <1>1, Numbers
  <2>2. tickOf[s] \in Seconds
    BY <1>a, <1>1, <1>3, StateOf, StateOfNext, NewIsNowhere, <1>2, <2>1 DEF TypeOK, WindowInv
  <2>3. CASE Placed(s)
    <3>1. ~Placed(s)'
      BY <1>1, <1>3, <2>3, StateOf, StateOfNext
    <3>2. \A u \in Threads : sample[u] # s
      BY <1>a, <2>3, Numbers DEF FlightOK, ControlOK
    <3>3. State(s) = "counted" /\ State(s)' = "gone"
      BY <1>1, <2>1, <2>2, <2>3, <3>1, <3>2, StateOf, StateOfNext, SecondOrMark
    <3> QED
      BY <1>a, <2>2, <2>3, <3>1, <3>3, PlacedUntilExpired
  <2>4. CASE ~Placed(s)
    <3>1. /\ \E u \in Threads : sample[u] = s
          /\ ~\E u \in Threads : sample'[u] = s
      BY <1>1, <1>2, <1>3, <2>1, <2>2, <2>4, StateOf, StateOfNext, SecondOrMark
    <3>2. sample[t] = s /\ pc'[t] = "idle" /\ ~Placed(s)'
      BY <1>1, <1>2, <2>4, <3>1
    <3>3. State(s) = "open" /\ State(s)' = "gone"
      BY <1>1, <2>2, <2>4, <3>1, <3>2, StateOf, StateOfNext, SecondOrMark
    <3>4. tickOf[s] = tick[t]
      BY <1>a, <1>1, <3>2 DEF ControlOK
    <3> QED
      BY <1>a, <1>1, <2>2, <3>2, <3>3, <3>4, EndedIsPlaced
  <2> QED
    BY <2>3, <2>4
<1>4. [s \in Samples |-> State(s)]' = [s \in Samples |-> IF s \in lost THEN "gone" ELSE before[s]]
  BY <1>3
<1>5. \A s \in lost : before[s] \in {"open", "counted"} /\ now - tickOf[s] >= WindowSecs
  <2> SUFFICES ASSUME NEW s \in lost
               PROVE  before[s] \in {"open", "counted"} /\ now - tickOf[s] >= WindowSecs
    OBVIOUS
  <2>1. s \in Samples /\ State(s)' # State(s)
    OBVIOUS
  <2>2. before[s] = State(s)
    BY <2>1
  <2>3. /\ State(s) \in {"open", "counted"}
        /\ tickOf[s] \in Seconds /\ tickOf[s] + WindowSecs <= now
    BY <1>3, <2>1
  <2>4. now \in Nat /\ tickOf[s] \in Nat /\ WindowSecs \in Nat
    BY <1>a, <2>3, SecondOrMark, WindowAssumption
  <2> HIDE DEF before, lost
  <2>5. now - tickOf[s] >= WindowSecs
    BY <2>3, <2>4
  <2> QED
    BY <2>2, <2>3, <2>5
<1>6. lost \in SUBSET {s \in Samples : before[s] \in {"open", "counted"} /\ Window!Expired(s)}
  BY <1>5 DEF Window!Expired
<1> QED
  BY <1>1, <1>4, <1>6 DEF Window!Lose

\* Stages and ring together are a window of samples: a sample becomes counted in
\* one step, never returns once it is gone, and goes only when its second has left
\* the window, however recorders lag.
THEOREM RecordingIsWindow == Spec => ImplementsWindow
<1>1. Init => Window!Init
  <2> SUFFICES ASSUME Init PROVE Window!Init
    OBVIOUS
  <2>1. \A s \in Samples : State(s) = "new"
    BY DEF Init, State
  <2> QED
    BY <2>1 DEF Init, Window!Init, Window!NoSecond, TickEmpty
<1>2. WindowInv /\ [Next]_vars => [Window!Next]_(Window!vars)
  <2> SUFFICES ASSUME WindowInv, [Next]_vars PROVE Window!Next \/ UNCHANGED Window!vars
    OBVIOUS
  <2>1. CASE Tick
    <3>1. \A s \in Samples : State(s)' = State(s)
      BY <2>1 DEF Tick, slotVars, stageVars, localVars, State, InFlight, PlacesOf
    <3>2. [s \in Samples |-> State(s)]' = [s \in Samples |-> State(s)]
      BY <3>1
    <3>3. Window!Tick
      BY <2>1, <3>2 DEF Tick, Window!Tick
    <3> QED
      BY <3>3 DEF Window!Next
  <2>2. ASSUME NEW t \in Threads, NEW s \in Samples, Begin(t, s) PROVE Window!Next
    BY <2>2, BeginBegins DEF Window!Next
  <2>3. ASSUME NEW t \in Threads, Advance(t) PROVE Window!Next
    <3>1. CASE AddToSlot(t) \/ BumpStage(t)
      <4>1. PICK s \in Samples : s = sample[t]
        BY <2>3, AdvanceFrame
      <4>2. Window!Count(s)
        BY <3>1, <4>1, AddingCounts
      <4> QED
        BY <4>2 DEF Window!Next
    <3>2. CASE ~AddToSlot(t) /\ ~BumpStage(t)
      BY <2>3, <3>2, OthersLose DEF Window!Next
    <3> QED
      BY <3>1, <3>2
  <2>4. CASE UNCHANGED vars
    <3>1. \A s \in Samples : State(s)' = State(s)
      BY <2>4 DEF vars, slotVars, stageVars, localVars, history, State, InFlight, PlacesOf
    <3>2. [s \in Samples |-> State(s)]' = [s \in Samples |-> State(s)]
      BY <3>1
    <3> QED
      BY <2>4, <3>2 DEF vars, history, Window!vars
  <2> QED
    BY <2>1, <2>2, <2>3, <2>4 DEF Next, Record
<1>3. Window!Init /\ [][Window!Next]_(Window!vars) => Window!Spec
  BY DEF Window!Spec
<1> QED
  BY <1>1, <1>2, <1>3, WindowInvariant, PTL DEF Spec, ImplementsWindow
=============================================================================
