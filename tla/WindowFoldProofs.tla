------------------------- MODULE WindowFoldProofs -------------------------
(***************************************************************************)
(* For any threads, window, clock and number of waiting passes: a snapshot *)
(* counts no request twice, shows each in its second, misses only what it  *)
(* left out, and ends within the passes its comment promises.              *)
(***************************************************************************)
EXTENDS WindowFold, SlidingWindowProofs

\* The stage has left the second for a later one, or is on its way.
Left(i, second) ==
  \/ stageTick[i] = TickResetting /\ tick[i] > second
  \/ stageTick[i] \in Seconds /\ stageTick[i] > second

\* The phases of a pass.
StagePCs == {"stages", "stage_counts"}
RingPCs == {"ring", "slot_counts"}
DonePCs == {"check", "returned"}

\* Where a pass stands, and what it has yet to visit.
PassOK ==
  /\ fpc \in StagePCs =>
       /\ pending \subseteq Stages /\ ring = {} /\ moved = {}
       /\ \A i \in pending : observed[i] = TickEmpty
  /\ fpc = "stage_counts" =>
       /\ pending # {} /\ loaded \in Seconds /\ InFoldWindow(loaded)
       /\ Min(pending) \notin skipped
  /\ fpc \in RingPCs =>
       moved = {} /\ pending \subseteq {age \in 0..(WindowSecs - 1) : age <= ftick}
  /\ fpc = "slot_counts" => pending # {} /\ loaded = ftick - Min(pending)
  /\ fpc = "check" => pending \subseteq {i \in Stages : observed[i] # TickEmpty}
  /\ fpc = "returned" => pending = {} /\ MayReturn
  /\ \A i \in skipped : observed[i] = TickEmpty
  /\ \A i \in moved : observed[i] # TickEmpty
  /\ unsettled # {} => ~stable
  /\ skipped # {} => ~Waiting
  /\ attempt + 1 <= MaxFoldAttempts + Cardinality(skipped)
  /\ fpc = "idle" => staged = {} /\ ring = {} /\ before = {}

FoldInv == FoldTypeOK /\ PassOK

\* A sample read from a stage is still there and not in what was read from the ring,
\* or its stage has moved since, which the last check has found or will find.
ReadOnce(second, s) ==
  \E i \in Stages :
    /\ observed[i] = second
    /\ \/ stageTick[i] = second /\ s \in stageCount[i] /\ s \notin SeenInRing
       \/ /\ Left(i, second)
          /\ fpc \in DonePCs => i \in pending \cup moved \/ s \notin SeenInRing

OnceInv == \A pair \in staged : ReadOnce(pair[1], pair[2])

\* What was read was in its second.
SecondsInv ==
  /\ \A pair \in staged : pair[1] = tickOf[pair[2]] /\ InFoldWindow(pair[1])
  /\ \A pair \in ring : InFoldWindow(pair[1]) /\ (~late => pair[1] = tickOf[pair[2]])

\* The stage a sample is in, or leaves, is that of the thread that recorded it.
StagedByOwner ==
  /\ \A t \in Threads : pc[t] # "idle" => by[sample[t]] = t
  /\ \A t \in Threads : \A s \in stageCount[t] \cup carry[t] : by[s] = t /\ HasStage(t)

InRing(s) == \E k \in Slots : s \in slotCount[k]

Expired(s) == tickOf[s] + WindowSecs <= now

\* The pass will come by where the sample is.
Ahead(s) ==
  \/ fpc \in StagePCs /\ by[s] \in pending
  \/ fpc \in StagePCs /\ InRing(s)
  \/ fpc \in RingPCs /\ InRing(s) /\ ftick - tickOf[s] \in pending

\* What was recorded before the fold is seen, or will be, or its stage is left out.
MissInv ==
  \A s \in before :
    /\ tickOf[s] \in Seconds /\ \A t \in Threads : sample[t] # s
    /\ InFoldWindow(tickOf[s]) =>
         Expired(s) \/ s \in Seen \/ by[s] \in skipped \cup unsettled \/ Ahead(s)

-----------------------------------------------------------------------------
(* Stages, ages and attempts.                                              *)

\* A set of numbers has a least one.
LEMMA LeastExists ==
  ASSUME NEW T \in SUBSET Nat, T # {}
  PROVE  \E n \in T : \A m \in T : n <= m
<1> DEFINE R == OpToRel(<, Nat)
<1>1. IsWellFoundedOn(R, Nat)
  BY NatLessThanWellFounded
<1>2. \A x, y \in Nat : x < y => <<x, y>> \in R
  BY DEF OpToRel
<1> HIDE DEF R
<1>3. PICK n \in T : \A m \in T : ~(<<m, n>> \in R)
  BY <1>1, WFMin
<1>4. ASSUME NEW m \in T PROVE n <= m
  <2>1. ~(m < n)
    BY <1>2, <1>3, <1>4
  <2> QED
    BY <2>1
<1> QED
  BY <1>4

LEMMA MinIs ==
  ASSUME NEW T \in SUBSET Nat, T # {}
  PROVE  Min(T) \in T /\ \A m \in T : Min(T) <= m
<1>1. \E n \in T : \A m \in T : n <= m
  BY LeastExists
<1> QED
  BY <1>1 DEF Min

\* There are finitely many stages.
LEMMA StagesFinite ==
  /\ Stages \subseteq Threads /\ Stages \subseteq Nat
  /\ IsFiniteSet(Stages) /\ Cardinality(Stages) \in Nat
<1>1. Stages \subseteq Threads /\ Stages \subseteq Nat
  BY Numbers DEF Stages
<1>2. ASSUME NEW t \in Stages PROVE t \in 0..(MaxStages - 1)
  <2>1. t \in Nat /\ t < MaxStages /\ MaxStages \in Nat
    BY Numbers DEF Stages, HasStage
  <2> QED
    BY <2>1
<1>3. IsFiniteSet(0..(MaxStages - 1))
  BY FS_Interval, Numbers
<1>4. IsFiniteSet(Stages)
  <2>1. Stages \subseteq 0..(MaxStages - 1)
    BY <1>2
  <2> QED
    BY <2>1, <1>3, FS_Subset
<1> QED
  BY <1>1, <1>4, FS_CardinalityType

LEMMA AttemptNumbers ==
  /\ MaxFoldAttempts \in Nat \ {0} /\ FoldLag \in Nat /\ AttemptCap \in Nat
BY FoldAssumption, StagesFinite DEF AttemptCap

\* Leaving out stages that were not left out yet makes the set larger.
LEMMA MoreSkipped ==
  ASSUME FoldInv, moved # {}
  PROVE  /\ Cardinality(skipped) \in Nat /\ Cardinality(skipped \cup moved) \in Nat
         /\ Cardinality(skipped) + 1 <= Cardinality(skipped \cup moved)
<1>1. PICK i : i \in moved /\ i \notin skipped
  BY DEF FoldInv, PassOK
<1>2. IsFiniteSet(skipped) /\ IsFiniteSet(skipped \cup moved)
  BY StagesFinite, FS_Subset DEF FoldInv, FoldTypeOK
<1>3. IsFiniteSet(skipped \cup {i}) /\ Cardinality(skipped \cup {i}) = Cardinality(skipped) + 1
  BY <1>1, <1>2, FS_AddElement
<1>4. Cardinality(skipped \cup {i}) <= Cardinality(skipped \cup moved)
  BY <1>1, <1>2, FS_Subset
<1>5. Cardinality(skipped) \in Nat /\ Cardinality(skipped \cup moved) \in Nat
  BY <1>2, FS_CardinalityType
<1> QED
  BY <1>3, <1>4, <1>5

\* The stages left out are no more than the stages.
LEMMA SkippedBounded ==
  ASSUME FoldTypeOK
  PROVE  Cardinality(skipped) \in Nat /\ Cardinality(skipped) <= Cardinality(Stages)
<1>1. skipped \subseteq Stages
  BY DEF FoldTypeOK
<1> QED
  BY <1>1, StagesFinite, FS_Subset, FS_CardinalityType

\* What the fold is about to visit.
LEMMA NextToVisit ==
  ASSUME FoldTypeOK, pending # {}
  PROVE  Min(pending) \in pending /\ Min(pending) \in Nat
<1>1. pending \in SUBSET Nat
  BY DEF FoldTypeOK
<1> QED
  BY <1>1, MinIs

\* A stage tick that is neither empty nor a mark is a second.
LEMMA StageTickIsSecond ==
  ASSUME TypeOK, NEW i \in Stages
  PROVE  stageTick[i] \in Seconds \/ stageTick[i] = TickResetting \/ stageTick[i] = TickEmpty
<1>1. stageTick[i] \in 0..TickEmpty
  BY StagesFinite DEF TypeOK
<1> QED
  BY <1>1, SecondOrMark

\* The ages of the walk over the ring are those of seconds of the window.
LEMMA AgeIsSecond ==
  ASSUME FoldTypeOK, NEW age \in 0..(WindowSecs - 1), age <= ftick
  PROVE  /\ ftick - age \in Seconds /\ InFoldWindow(ftick - age)
         /\ SlotOf(ftick - age) \in Slots
<1>1. ftick \in Nat /\ ftick <= MaxTick /\ MaxTick \in Nat /\ age \in Nat /\ age < WindowSecs
      /\ WindowSecs \in Nat \ {0}
  BY Numbers DEF FoldTypeOK, Seconds
<1>2. ftick - age \in Seconds /\ ftick - age \in Nat
  BY <1>1 DEF Seconds
<1>3. InFoldWindow(ftick - age)
  BY <1>1 DEF InFoldWindow
<1>4. (ftick - age) % WindowSecs \in 0..(WindowSecs - 1)
  BY <1>1, <1>2, SMT
<1> QED
  BY <1>2, <1>3, <1>4 DEF SlotOf, Slots

-----------------------------------------------------------------------------
(* Types, and where a pass stands.                                         *)

LEMMA PassBegins ==
  ASSUME BeginPass
  PROVE  /\ fpc' \in FoldPCs /\ stable' \in BOOLEAN
         /\ observed' \in [Stages -> Seconds \cup {TickEmpty}]
         /\ staged' \subseteq Seconds \X Samples /\ ring' \subseteq Seconds \X Samples
         /\ pending' \subseteq Nat /\ loaded' \in Seconds \cup {TickEmpty}
         /\ moved' \subseteq Stages /\ unsettled' \subseteq Stages
BY StagesFinite DEF BeginPass, FoldPCs

LEMMA FoldTypeKept ==
  ASSUME TypeOK, FoldInv, FoldNext
  PROVE  FoldTypeOK'
<1>0. /\ Stages \subseteq Threads /\ Stages \subseteq Nat /\ FoldTypeOK /\ PassOK
      /\ AttemptCap \in Nat
  BY StagesFinite, AttemptNumbers DEF FoldInv
<1> USE DEF FoldTypeOK, FoldPCs
<1>1. ASSUME NEW i \in Stages, PassStage(i) PROVE FoldTypeOK'
  BY <1>1, <1>0 DEF PassStage, AtStage, Visited
<1>2. ASSUME NEW i \in Stages, MeetMovingStage(i) PROVE FoldTypeOK'
  BY <1>2, <1>0 DEF MeetMovingStage, AtStage, Visited
<1>3. ASSUME NEW i \in Stages, LoadStageTick(i) PROVE FoldTypeOK'
  <2>1. stageTick[i] \in Seconds
    BY <1>3, StageTickIsSecond DEF LoadStageTick
  <2> QED
    BY <1>3, <1>0, <2>1 DEF LoadStageTick
<1>4. ASSUME NEW i \in Stages, ReadStageCounts(i) PROVE FoldTypeOK'
  <2>1. loaded \in Seconds /\ stageCount[i] \subseteq Samples
    BY <1>4, <1>0 DEF ReadStageCounts, PassOK, TypeOK
  <2>2. {loaded} \X stageCount[i] \subseteq Seconds \X Samples
    BY <2>1
  <2>3. staged' \subseteq Seconds \X Samples
    BY <1>4, <1>0, <2>2 DEF ReadStageCounts
  <2>4. observed' \in [Stages -> Seconds \cup {TickEmpty}]
    BY <1>4, <1>0, <2>1 DEF ReadStageCounts
  <2> QED
    BY <1>4, <1>0, <2>3, <2>4 DEF ReadStageCounts, Visited
<1>5. ASSUME NEW i \in Stages, CheckStage(i) PROVE FoldTypeOK'
  BY <1>5, <1>0 DEF CheckStage, Visited
<1>6. ASSUME NEW age \in 0..(WindowSecs - 1), PassSlot(age) PROVE FoldTypeOK'
  BY <1>6, <1>0 DEF PassSlot, Visited
<1>7. ASSUME NEW age \in 0..(WindowSecs - 1), LoadSlotTick(age) PROVE FoldTypeOK'
  <2>1. ftick - age \in Seconds
    BY <1>7, <1>0, NextToVisit, AgeIsSecond DEF LoadSlotTick, PassOK, RingPCs
  <2> QED
    BY <1>7, <1>0, <2>1 DEF LoadSlotTick
<1>8. ASSUME NEW age \in 0..(WindowSecs - 1), ReadSlotCounts(age) PROVE FoldTypeOK'
  <2>1. age <= ftick /\ loaded = ftick - age
    BY <1>8, <1>0, NextToVisit DEF ReadSlotCounts, PassOK, RingPCs
  <2>2. loaded \in Seconds /\ SlotOf(loaded) \in Slots
    BY <1>0, <2>1, AgeIsSecond
  <2>3. slotCount[SlotOf(loaded)] \subseteq Samples
    BY <2>2 DEF TypeOK
  <2>4. {loaded} \X slotCount[SlotOf(loaded)] \subseteq Seconds \X Samples
    BY <2>2, <2>3
  <2>5. ring' \subseteq Seconds \X Samples
    BY <1>8, <1>0, <2>4 DEF ReadSlotCounts
  <2> QED
    BY <1>8, <1>0, <2>5 DEF ReadSlotCounts, Visited
<1>9. CASE StartRing
  <2>1. {age \in 0..(WindowSecs - 1) : age <= ftick} \subseteq Nat
    OBVIOUS
  <2> QED
    BY <1>9, <1>0, <2>1 DEF StartRing
<1>10. CASE StartCheck
  BY <1>10, <1>0 DEF StartCheck
<1>11. CASE ReturnFold
  BY <1>11, <1>0 DEF ReturnFold
<1>12. CASE Retry
  <2>1. attempt' \in 0..AttemptCap
    BY <1>12, <1>0 DEF Retry
  <2>2. skipped' \subseteq Stages
    BY <1>12, <1>0 DEF Retry
  <2> QED
    BY <1>12, <1>0, <2>1, <2>2, PassBegins DEF Retry
<1>13. CASE EndFold
  <2>1. 0 \in 0..AttemptCap /\ 0 \in Seconds
    BY <1>0, Numbers DEF Seconds
  <2> QED
    BY <1>13, <1>0, <2>1 DEF EndFold
<1>14. ASSUME NEW second \in Seconds, StartFold(second) PROVE FoldTypeOK'
  <2>1. Recorded \subseteq Samples /\ 0 \in 0..AttemptCap
    BY <1>0 DEF Recorded
  <2> QED
    BY <1>14, <1>0, <2>1, PassBegins DEF StartFold
<1> QED
  BY <1>1, <1>2, <1>3, <1>4, <1>5, <1>6, <1>7, <1>8, <1>9, <1>10, <1>11, <1>12,
     <1>13, <1>14 DEF FoldNext, FoldStep

\* At the start of a pass nothing is read.
LEMMA PassStarts ==
  ASSUME BeginPass
  PROVE  /\ fpc' = "stages" /\ pending' = Stages /\ ring' = {} /\ moved' = {} /\ staged' = {}
         /\ unsettled' = {} /\ stable' = TRUE /\ \A i \in Stages : observed'[i] = TickEmpty
BY DEF BeginPass

LEMMA PassKept ==
  ASSUME TypeOK, FoldInv, FoldNext
  PROVE  PassOK'
<1>0. /\ Stages \subseteq Threads /\ Stages \subseteq Nat /\ FoldTypeOK /\ PassOK
      /\ TickEmpty \notin Seconds /\ TickResetting \notin Seconds
  BY StagesFinite, SecondOrMark DEF FoldInv
<1>a. pending # {} => Min(pending) \in pending
  BY <1>0, NextToVisit
<1>b. MaxFoldAttempts \in Nat \ {0} /\ attempt \in Nat /\ Cardinality(skipped) \in Nat
  BY <1>0, AttemptNumbers, SkippedBounded DEF FoldTypeOK
<1> USE DEF FoldTypeOK, PassOK, StagePCs, RingPCs, DonePCs, Waiting, InFoldWindow
<1>1. ASSUME NEW i \in Stages, PassStage(i) PROVE PassOK'
  BY <1>1, <1>0, <1>a DEF PassStage, AtStage, Visited
<1>2. ASSUME NEW i \in Stages, MeetMovingStage(i) PROVE PassOK'
  BY <1>2, <1>0, <1>a DEF MeetMovingStage, AtStage, Visited
<1>3. ASSUME NEW i \in Stages, LoadStageTick(i) PROVE PassOK'
  <2>1. stageTick[i] \in Seconds
    BY <1>3, StageTickIsSecond DEF LoadStageTick
  <2> QED
    BY <1>3, <1>0, <2>1 DEF LoadStageTick, AtStage
<1>4. ASSUME NEW i \in Stages, ReadStageCounts(i) PROVE PassOK'
  <2>1. /\ loaded \in Seconds /\ i \in pending /\ i \notin skipped /\ pending \subseteq Stages
        /\ fpc = "stage_counts" /\ fpc' = "stages" /\ pending' = pending \ {i}
    BY <1>4, <1>0, <1>a DEF ReadStageCounts, Visited
  <2>2. /\ UNCHANGED <<ring, moved, skipped, attempt, ftick>>
        /\ \A j \in Stages : j # i => observed'[j] = observed[j]
        /\ unsettled' # {} => ~stable'
    BY <1>4, <1>0 DEF ReadStageCounts
  <2> QED
    BY <1>0, <2>1, <2>2
<1>5. ASSUME NEW i \in Stages, CheckStage(i) PROVE PassOK'
  <2>1. /\ i \in pending /\ observed[i] # TickEmpty /\ fpc = "check"
    BY <1>5, <1>0, <1>a DEF CheckStage
  <2> QED
    BY <1>5, <1>0, <2>1 DEF CheckStage, Visited
<1>6. ASSUME NEW age \in 0..(WindowSecs - 1), PassSlot(age) PROVE PassOK'
  BY <1>6, <1>0, <1>a DEF PassSlot, Visited
<1>7. ASSUME NEW age \in 0..(WindowSecs - 1), LoadSlotTick(age) PROVE PassOK'
  BY <1>7, <1>0, <1>a DEF LoadSlotTick
<1>8. ASSUME NEW age \in 0..(WindowSecs - 1), ReadSlotCounts(age) PROVE PassOK'
  BY <1>8, <1>0, <1>a DEF ReadSlotCounts, Visited, ReadHolds
<1>9. CASE StartRing
  BY <1>9, <1>0, <1>a DEF StartRing
<1>10. CASE StartCheck
  BY <1>10, <1>0, <1>a DEF StartCheck
<1>11. CASE ReturnFold
  BY <1>11, <1>0 DEF ReturnFold, MayReturn
<1>12. CASE Retry
  <2>1. /\ fpc' = "stages" /\ pending' = Stages /\ ring' = {} /\ moved' = {} /\ staged' = {}
        /\ unsettled' = {} /\ stable' = TRUE /\ \A i \in Stages : observed'[i] = TickEmpty
    BY <1>12, PassStarts DEF Retry
  <2>2. skipped \cup moved \subseteq Stages /\ attempt <= AttemptCap /\ AttemptCap \in Nat
        /\ AttemptCap = MaxFoldAttempts + Cardinality(Stages)
        /\ Cardinality(Stages) \in Nat /\ Cardinality(skipped) <= Cardinality(Stages)
    BY <1>0, AttemptNumbers, StagesFinite, SkippedBounded DEF AttemptCap
  <2>3. attempt' = attempt + 1
    BY <1>12, <1>0, <1>b, <2>2 DEF Retry
  <2>4. CASE Waiting
    <3>1. skipped' = skipped /\ skipped = {}
      BY <1>12, <1>0, <2>4 DEF Retry
    <3>2. attempt' + 1 <= MaxFoldAttempts + Cardinality(skipped)
      BY <1>b, <2>3, <2>4
    <3> QED
      BY <2>1, <3>1, <3>2
  <2>5. CASE ~Waiting
    <3>1. moved # {} /\ skipped' = skipped \cup moved
      BY <1>12, <2>5 DEF Retry, MayReturn
    <3>2. /\ Cardinality(skipped \cup moved) \in Nat
          /\ Cardinality(skipped) + 1 <= Cardinality(skipped \cup moved)
      BY <3>1, MoreSkipped
    <3>3. attempt' + 1 <= MaxFoldAttempts + Cardinality(skipped')
      BY <1>b, <1>0, <2>3, <3>1, <3>2
    <3>4. ~(attempt' + 1 < MaxFoldAttempts)
      BY <1>b, <2>3, <2>5
    <3>5. \A i \in skipped' : observed'[i] = TickEmpty
      BY <2>1, <2>2, <3>1
    <3> QED
      BY <2>1, <3>3, <3>4, <3>5
  <2> QED
    BY <2>4, <2>5
<1>13. CASE EndFold
  <2>1. Cardinality({}) = 0
    BY FS_EmptySet
  <2> QED
    BY <1>13, <1>0, <1>b, <2>1 DEF EndFold, MayReturn
<1>14. ASSUME NEW second \in Seconds, StartFold(second) PROVE PassOK'
  <2>1. /\ fpc' = "stages" /\ pending' = Stages /\ ring' = {} /\ moved' = {} /\ staged' = {}
        /\ unsettled' = {} /\ stable' = TRUE /\ \A i \in Stages : observed'[i] = TickEmpty
    BY <1>14, PassStarts DEF StartFold
  <2>2. skipped' = {} /\ attempt' = 0 /\ Cardinality({}) = 0
    BY <1>14, FS_EmptySet DEF StartFold
  <2> QED
    BY <1>b, <2>1, <2>2
<1> QED
  BY <1>1, <1>2, <1>3, <1>4, <1>5, <1>6, <1>7, <1>8, <1>9, <1>10, <1>11, <1>12,
     <1>13, <1>14 DEF FoldNext, FoldStep

\* Recorders keep the fold's own state, and the fold keeps theirs.
LEMMA FoldInvStep == WindowInv /\ FoldInv /\ [FoldingNext]_allVars => FoldInv'
<1> SUFFICES ASSUME WindowInv, FoldInv, [FoldingNext]_allVars PROVE FoldInv'
  OBVIOUS
<1>0. TypeOK
  BY DEF WindowInv, CountInv, TimeInv, ThreadsInv
<1>1. CASE UNCHANGED foldVars
  BY <1>1 DEF FoldInv, FoldTypeOK, PassOK, foldVars, InFoldWindow, MayReturn, Waiting
<1>2. CASE FoldNext /\ UNCHANGED vars
  BY <1>0, <1>2, FoldTypeKept, PassKept DEF FoldInv
<1> QED
  BY <1>1, <1>2 DEF FoldingNext, allVars

LEMMA FoldInvStart == FoldInit => FoldInv
<1> SUFFICES ASSUME FoldInit PROVE FoldInv
  OBVIOUS
<1>1. 0 \in Seconds /\ 0 \in 0..AttemptCap /\ MaxFoldAttempts \in Nat \ {0}
  BY Numbers, AttemptNumbers DEF Seconds
<1>2. Cardinality({}) = 0
  BY FS_EmptySet
<1>3. FoldTypeOK
  BY <1>1 DEF FoldInit, FoldTypeOK, FoldPCs
<1>4. PassOK
  BY <1>1, <1>2 DEF FoldInit, PassOK, StagePCs, RingPCs
<1> QED
  BY <1>3, <1>4 DEF FoldInv

\* The steps of a fold are no steps of the recorders.
LEMMA WindowUnderFold == WindowInv /\ [FoldingNext]_allVars => WindowInv'
<1>1. [FoldingNext]_allVars => [Next]_vars
  BY DEF FoldingNext, allVars
<1> QED
  BY <1>1, WindowKept

\* Every variable of a fold stays of its type, while recorders run.
THEOREM FoldTypeCorrect == FoldingSpec => []FoldTypeOK
<1>1. FoldInv => FoldTypeOK
  BY DEF FoldInv
<1> QED
  BY <1>1, WindowStart, WindowUnderFold, FoldInvStart, FoldInvStep, PTL
  DEF FoldingSpec, FoldingInit

\* "This ends within as many passes as there are stages" (histogram.rs:555): every pass
\* beyond the waiting ones leaves out one more stage, and a stage that is left out is
\* never found moved.
THEOREM PassesBounded == FoldingSpec => []AttemptsBounded
<1>1. FoldInv => AttemptsBounded
  BY SkippedBounded, StagesFinite, AttemptNumbers
     DEF FoldInv, FoldTypeOK, PassOK, AttemptsBounded, AttemptCap
<1> QED
  BY <1>1, WindowStart, WindowUnderFold, FoldInvStart, FoldInvStep, PTL
  DEF FoldingSpec, FoldingInit

-----------------------------------------------------------------------------
(* Nothing is counted twice.                                               *)

\* A stage that has left a second never returns to it, and one that has not keeps what
\* it counted.
LEMMA OwnStageLeaves ==
  ASSUME WindowInv, NEW t \in Threads, Record(t), NEW second \in Seconds
  PROVE  /\ Left(t, second) => Left(t, second)'
         /\ stageTick[t] = second =>
              Left(t, second)' \/ (stageTick'[t] = second /\ stageCount[t] \subseteq stageCount'[t])
<1> DEFINE G == /\ Left(t, second) => Left(t, second)'
                /\ stageTick[t] = second =>
                     \/ Left(t, second)'
                     \/ stageTick'[t] = second /\ stageCount[t] \subseteq stageCount'[t]
<1>0. /\ ThreadsInv /\ TypeOK /\ ControlOK /\ second \in Nat /\ tick[t] \in Seconds
      /\ TickResetting \notin Seconds /\ TickEmpty \notin Seconds
      /\ \A x \in Seconds : x \in Nat
      /\ stageTick[t] \in Seconds \/ stageTick[t] = TickResetting \/ stageTick[t] = TickEmpty
  BY SecondOrMark DEF WindowInv, CountInv, TimeInv, ThreadsInv, TypeOK
<1>a. pc[t] \in {"idle", "begun", "check", "add", "bump"} \/ (pc[t] = "claim" /\ ~Moving(t))
        => stageTick[t] # TickResetting
  BY <1>0, StageUnmarked
<1>b. pc[t] \in {"drain", "discard", "settle"} => stageTick[t] = TickResetting
  BY <1>0 DEF ThreadsInv, MarksOK, ResetExclusive, ControlOK
<1> USE DEF Left, TypeOK, stageVars
<1>1. ASSUME NEW s \in Samples, Begin(t, s) PROVE G
  BY <1>0, <1>1, <1>a DEF Begin
<1>2. CASE MarkStage(t)
  <2>1. /\ stageTick[t] # TickResetting /\ stageTick'[t] = TickResetting /\ tick'[t] = tick[t]
        /\ stageTick[t] \in Seconds => tick[t] > stageTick[t]
    <3>1. /\ pc[t] = "begun" /\ stageTick[t] # tick[t] /\ ~BypassesStage(t)
          /\ stageTick' = [stageTick EXCEPT ![t] = TickResetting] /\ tick' = tick
      BY <1>2 DEF MarkStage
    <3>2. stageTick[t] \in Seconds => ~(stageTick[t] > tick[t])
      BY <1>0, <3>1 DEF BypassesStage
    <3>3. stageTick[t] \in Seconds => stageTick[t] \in Nat /\ tick[t] \in Nat
      BY <1>0
    <3>4. stageTick[t] \in Seconds => tick[t] > stageTick[t]
      BY <3>1, <3>2, <3>3
    <3> QED
      BY <1>0, <1>a, <3>1, <3>4
  <2>2. ASSUME stageTick[t] \in Seconds, stageTick[t] >= second PROVE tick[t] > second
    <3>1. stageTick[t] \in Nat /\ tick[t] \in Nat
      BY <1>0, <2>2
    <3> QED
      BY <1>0, <2>1, <2>2, <3>1
  <2>3. stageTick[t] = second => tick[t] > second
    BY <1>0, <2>1
  <2>4. Left(t, second) => tick[t] > second
    BY <1>0, <2>1, <2>2
  <2> QED
    BY <2>1, <2>3, <2>4
<1>3. CASE SettleStage(t)
  BY <1>0, <1>3, <1>b DEF SettleStage
<1>4. CASE MissSlot(t)
  BY <1>0, <1>4, <1>a DEF MissSlot, Finish
<1>5. CASE CheckSlot(t) \/ AddToSlot(t)
  BY <1>0, <1>5, <1>a DEF CheckSlot, AddToSlot, Finish
<1>6. CASE BumpStage(t)
  BY <1>0, <1>6, <1>a DEF BumpStage, Finish
<1>7. CASE DrainStage(t) \/ DiscardStage(t)
  BY <1>0, <1>7, <1>b DEF DrainStage, DiscardStage
<1>8. CASE RecordStaged(t) \/ RecordDirect(t) \/ FindSlot(t) \/ ClaimSlot(t) \/ ClearSlot(t)
           \/ PublishSlot(t) \/ DeliverCounts(t)
  BY <1>0, <1>8 DEF RecordStaged, RecordDirect, FindSlot, ClaimSlot, ClearSlot, PublishSlot,
     DeliverCounts
<1> QED
  BY <1>1, <1>2, <1>3, <1>4, <1>5, <1>6, <1>7, <1>8 DEF Record, Advance

LEMMA StageLeaves ==
  ASSUME WindowInv, NEW t \in Threads, Record(t), NEW i \in Stages, NEW second \in Seconds
  PROVE  /\ Left(i, second) => Left(i, second)'
         /\ stageTick[i] = second =>
              Left(i, second)' \/ (stageTick'[i] = second /\ stageCount[i] \subseteq stageCount'[i])
<1>1. i \in Threads
  BY StagesFinite
<1>2. CASE i = t
  BY <1>2, OwnStageLeaves
<1>3. CASE i # t
  <2>1. stageTick'[i] = stageTick[i] /\ stageCount'[i] = stageCount[i] /\ tick'[i] = tick[i]
    BY <1>1, <1>3, OthersStay DEF WindowInv, CountInv, TimeInv
  <2> QED
    BY <2>1 DEF Left
<1> QED
  BY <1>2, <1>3

\* A stage that has left a second does not hold it.
LEMMA LeftIsGone ==
  ASSUME NEW i, NEW second \in Seconds, Left(i, second)
  PROVE  stageTick[i] # second
<1>1. second \in Nat /\ TickResetting \notin Seconds
  BY SecondOrMark
<1> QED
  BY <1>1 DEF Left

LEMMA OnceUnderRecord ==
  ASSUME WindowInv, FoldInv, OnceInv, NEW t \in Threads, Record(t), UNCHANGED foldVars
  PROVE  OnceInv'
<1> SUFFICES ASSUME NEW pair \in staged PROVE ReadOnce(pair[1], pair[2])'
  BY DEF OnceInv, foldVars
<1>1. pair[1] \in Seconds
  BY DEF FoldInv, FoldTypeOK
<1>2. PICK i \in Stages :
        /\ observed[i] = pair[1]
        /\ \/ stageTick[i] = pair[1] /\ pair[2] \in stageCount[i] /\ pair[2] \notin SeenInRing
           \/ /\ Left(i, pair[1])
              /\ fpc \in DonePCs => i \in pending \cup moved \/ pair[2] \notin SeenInRing
  BY DEF OnceInv, ReadOnce
<1>3. SeenInRing' = SeenInRing /\ fpc' = fpc /\ pending' = pending /\ moved' = moved
      /\ observed' = observed
  BY DEF foldVars, SeenInRing
<1> QED
  BY <1>1, <1>2, <1>3, StageLeaves DEF ReadOnce

LEMMA OnceUnderFold ==
  ASSUME WindowInv, FoldInv, OnceInv, FoldNext, UNCHANGED vars
  PROVE  OnceInv'
<1>0. /\ UNCHANGED <<stageTick, stageCount, slotTick, slotCount, tick>>
      /\ FoldTypeOK /\ PassOK /\ Apart /\ Stages \subseteq Threads
      /\ TickEmpty \notin Seconds
  BY StagesFinite, SecondOrMark
  DEF vars, slotVars, stageVars, localVars, FoldInv, WindowInv, CountInv
<1>a. \A i, second : Left(i, second)' <=> Left(i, second)
  BY <1>0 DEF Left
<1>b. \A pair \in staged : ReadOnce(pair[1], pair[2]) /\ pair[1] \in Seconds
  BY <1>0 DEF OnceInv, FoldTypeOK
<1>c. ring' = ring => SeenInRing' = SeenInRing
  BY DEF SeenInRing
<1>d. pending # {} => Min(pending) \in pending
  BY <1>0, NextToVisit
<1> USE DEF OnceInv, ReadOnce, StagePCs, RingPCs, DonePCs
<1>1. ASSUME NEW i \in Stages, PassStage(i) PROVE OnceInv'
  BY <1>1, <1>0, <1>a, <1>b, <1>c DEF PassStage, AtStage, Visited
<1>2. ASSUME NEW i \in Stages, MeetMovingStage(i) PROVE OnceInv'
  BY <1>2, <1>0, <1>a, <1>b, <1>c DEF MeetMovingStage, AtStage, Visited
<1>3. ASSUME NEW i \in Stages, LoadStageTick(i) PROVE OnceInv'
  BY <1>3, <1>0, <1>a, <1>b, <1>c DEF LoadStageTick, AtStage
<1>4. ASSUME NEW i \in Stages, ReadStageCounts(i) PROVE OnceInv'
  <2>1. /\ i \in pending /\ observed[i] = TickEmpty /\ loaded \in Seconds /\ ring = {}
        /\ ring' = ring /\ SeenInRing' = SeenInRing /\ SeenInRing = {} /\ fpc' \notin DonePCs
    BY <1>4, <1>0, <1>c, <1>d DEF ReadStageCounts, PassOK, SeenInRing
  <2>2. \A j \in Stages : j # i => observed'[j] = observed[j]
    BY <1>4, <1>0 DEF ReadStageCounts, FoldTypeOK
  <2>3. ASSUME NEW pair \in staged PROVE ReadOnce(pair[1], pair[2])'
    BY <1>0, <1>a, <1>b, <2>1, <2>2, <2>3
  <2>4. ASSUME NEW pair \in staged', pair \notin staged PROVE ReadOnce(pair[1], pair[2])'
    <3>1. /\ pair[1] = loaded /\ pair[2] \in stageCount[i] /\ stageTick[i] = loaded
          /\ observed'[i] = loaded
      BY <1>4, <1>0, <2>4 DEF ReadStageCounts, ReadHolds, FoldTypeOK
    <3> QED
      BY <1>0, <2>1, <3>1
  <2> QED
    BY <2>3, <2>4
<1>5. ASSUME NEW i \in Stages, CheckStage(i) PROVE OnceInv'
  <2>1. /\ staged' = staged /\ observed' = observed /\ SeenInRing' = SeenInRing
        /\ fpc = "check" /\ fpc' = "check" /\ pending' = pending \ {i} /\ moved \subseteq moved'
        /\ stageTick[i] = observed[i] \/ i \in moved'
    BY <1>5, <1>c DEF CheckStage, Visited
  <2>2. ASSUME NEW pair \in staged PROVE ReadOnce(pair[1], pair[2])'
    <3>1. PICK j \in Stages :
            /\ observed[j] = pair[1]
            /\ \/ stageTick[j] = pair[1] /\ pair[2] \in stageCount[j]
                  /\ pair[2] \notin SeenInRing
               \/ /\ Left(j, pair[1])
                  /\ j \in pending \cup moved \/ pair[2] \notin SeenInRing
      BY <1>b, <2>1, <2>2
    <3>2. Left(j, pair[1]) => stageTick[j] # pair[1]
      BY <1>b, <2>2, LeftIsGone
    <3> QED
      BY <1>0, <1>a, <2>1, <3>1, <3>2
  <2> QED
    BY <2>1, <2>2
<1>6. ASSUME NEW age \in 0..(WindowSecs - 1), PassSlot(age) PROVE OnceInv'
  BY <1>6, <1>0, <1>a, <1>b, <1>c DEF PassSlot, Visited
<1>7. ASSUME NEW age \in 0..(WindowSecs - 1), LoadSlotTick(age) PROVE OnceInv'
  BY <1>7, <1>0, <1>a, <1>b, <1>c DEF LoadSlotTick
<1>8. ASSUME NEW age \in 0..(WindowSecs - 1), ReadSlotCounts(age) PROVE OnceInv'
  <2>1. /\ staged' = staged /\ observed' = observed /\ fpc' \notin DonePCs
        /\ loaded = ftick - age /\ age <= ftick
    BY <1>8, <1>0, <1>d DEF ReadSlotCounts, PassOK
  <2>2. SlotOf(loaded) \in Slots
    BY <1>0, <2>1, AgeIsSecond
  <2>3. SeenInRing' \subseteq SeenInRing \cup slotCount[SlotOf(loaded)]
    BY <1>8 DEF ReadSlotCounts, SeenInRing
  <2>4. ASSUME NEW pair \in staged PROVE ReadOnce(pair[1], pair[2])'
    <3>1. PICK i \in Stages :
            /\ observed[i] = pair[1]
            /\ \/ stageTick[i] = pair[1] /\ pair[2] \in stageCount[i]
                  /\ pair[2] \notin SeenInRing
               \/ Left(i, pair[1])
      BY <1>b, <2>4
    <3>2. pair[2] \in Samples /\ i \in Threads
      BY <1>0, <2>4 DEF FoldTypeOK
    <3>3. pair[2] \in stageCount[i] => pair[2] \notin slotCount[SlotOf(loaded)]
      BY <1>0, <2>2, <3>2 DEF Apart
    <3> QED
      BY <1>0, <1>a, <2>1, <2>3, <3>1, <3>3
  <2> QED
    BY <2>1, <2>4
<1>9. CASE StartRing
  BY <1>9, <1>0, <1>a, <1>b, <1>c DEF StartRing
<1>10. CASE StartCheck
  <2>1. /\ staged' = staged /\ observed' = observed /\ SeenInRing' = SeenInRing
        /\ pending' = {i \in Stages : observed[i] # TickEmpty}
    BY <1>10, <1>c DEF StartCheck
  <2>2. ASSUME NEW pair \in staged PROVE ReadOnce(pair[1], pair[2])'
    BY <1>0, <1>a, <1>b, <2>1, <2>2
  <2> QED
    BY <2>1, <2>2
<1>11. CASE ReturnFold
  BY <1>11, <1>0, <1>a, <1>b, <1>c DEF ReturnFold
<1>12. CASE Retry
  BY <1>12, <1>0, <1>a, <1>b, <1>c DEF Retry, BeginPass
<1>13. CASE EndFold
  BY <1>13, <1>0, <1>a, <1>b, <1>c DEF EndFold
<1>14. ASSUME NEW second \in Seconds, StartFold(second) PROVE OnceInv'
  BY <1>14, <1>0, <1>a, <1>b, <1>c DEF StartFold, BeginPass
<1> QED
  BY <1>1, <1>2, <1>3, <1>4, <1>5, <1>6, <1>7, <1>8, <1>9, <1>10, <1>11, <1>12,
     <1>13, <1>14 DEF FoldNext, FoldStep

LEMMA OnceInvStep == WindowInv /\ FoldInv /\ OnceInv /\ [FoldingNext]_allVars => OnceInv'
<1> SUFFICES ASSUME WindowInv, FoldInv, OnceInv, [FoldingNext]_allVars PROVE OnceInv'
  OBVIOUS
<1>1. ASSUME NEW t \in Threads, Record(t), UNCHANGED foldVars PROVE OnceInv'
  BY <1>1, OnceUnderRecord
<1>2. CASE FoldNext /\ UNCHANGED vars
  BY <1>2, OnceUnderFold
<1>3. CASE Tick /\ UNCHANGED foldVars
  BY <1>3 DEF Tick, stageVars, localVars, foldVars, OnceInv, ReadOnce, Left, SeenInRing
<1>4. CASE UNCHANGED allVars
  BY <1>4 DEF allVars, vars, stageVars, localVars, foldVars, OnceInv, ReadOnce, Left, SeenInRing
<1> QED
  BY <1>1, <1>2, <1>3, <1>4 DEF FoldingNext, Next

\* "Nothing is ever counted twice" (histogram.rs:529): a sample read from a stage is in
\* the ring's part of a snapshot only if the stage moved in between, and the last check
\* finds every stage that did, because no stage returns to a second it has left.
THEOREM SnapshotCountsOnce == FoldingSpec => []NothingCountedTwice
<1>1. FoldInv /\ OnceInv => NothingCountedTwice
  BY DEF FoldInv, PassOK, MayReturn, OnceInv, ReadOnce, NothingCountedTwice, SeenStaged,
     DonePCs
<1>2. FoldInit => OnceInv
  BY DEF FoldInit, OnceInv
<1> QED
  BY <1>1, <1>2, WindowStart, WindowUnderFold, FoldInvStart, FoldInvStep, OnceInvStep, PTL
  DEF FoldingSpec, FoldingInit

-----------------------------------------------------------------------------
(* Everything is seen in its second.                                       *)

\* Recorders change the second of no completed request, and never undo a delay.
LEMMA SecondsStay ==
  ASSUME WindowInv, [Next]_vars
  PROVE  /\ \A s \in Samples : tickOf[s] \in Seconds => tickOf'[s] = tickOf[s]
         /\ ~late' => ~late
<1>0. TypeOK /\ TickEmpty \notin Seconds /\ TickResetting \notin Seconds
  BY SecondOrMark DEF WindowInv, CountInv, TimeInv, ThreadsInv
<1>1. CASE Tick
  BY <1>1 DEF Tick
<1>2. ASSUME NEW t \in Threads, NEW s \in Samples, Begin(t, s)
      PROVE  /\ \A x \in Samples : tickOf[x] \in Seconds => tickOf'[x] = tickOf[x]
             /\ ~late' => ~late
  BY <1>0, <1>2 DEF Begin, TypeOK
<1>3. ASSUME NEW t \in Threads, Advance(t) PROVE tickOf' = tickOf /\ late' = late
  BY <1>3 DEF Advance, RecordStaged, RecordDirect, MarkStage, FindSlot,
     ClaimSlot, MissSlot, ClearSlot, PublishSlot, CheckSlot, AddToSlot, DrainStage,
     DeliverCounts, DiscardStage, SettleStage, BumpStage, history
<1>4. CASE UNCHANGED vars
  BY <1>4 DEF vars, history
<1> QED
  BY <1>1, <1>2, <1>3, <1>4 DEF Next, Record

LEMMA SecondsInvStep ==
  PromptInv /\ FoldInv /\ SecondsInv /\ [FoldingNext]_allVars => SecondsInv'
<1> SUFFICES ASSUME PromptInv, FoldInv, SecondsInv, [FoldingNext]_allVars
             PROVE  SecondsInv'
  OBVIOUS
<1>0. /\ FoldTypeOK /\ PassOK /\ WindowInv /\ TypeOK /\ TickEmpty \notin Seconds
      /\ TickResetting \notin Seconds /\ Stages \subseteq Threads
  BY StagesFinite, SecondOrMark
  DEF FoldInv, PromptInv, WindowInv, CountInv, TimeInv, ThreadsInv
<1>1. CASE [Next]_vars /\ UNCHANGED foldVars
  <2>1. \A pair \in staged \cup ring : pair[1] \in Seconds /\ pair[2] \in Samples
    BY <1>0 DEF FoldTypeOK
  <2>2. ftick' = ftick /\ staged' = staged /\ ring' = ring
    BY <1>1 DEF foldVars
  <2> QED
    BY <1>0, <1>1, <2>1, <2>2, SecondsStay DEF SecondsInv, InFoldWindow
<1>2. CASE FoldNext /\ UNCHANGED vars
  <2>0. /\ FoldNext /\ tickOf' = tickOf /\ late' = late
        /\ \A pair \in staged : pair[1] = tickOf[pair[2]] /\ InFoldWindow(pair[1])
        /\ \A pair \in ring : InFoldWindow(pair[1]) /\ (~late => pair[1] = tickOf[pair[2]])
    BY <1>2 DEF vars, history, SecondsInv
  <2> USE DEF SecondsInv, InFoldWindow
  <2>1. ASSUME NEW i \in Stages, PassStage(i) PROVE SecondsInv'
    BY <2>1, <2>0 DEF PassStage, AtStage, Visited
  <2>2. ASSUME NEW i \in Stages, MeetMovingStage(i) PROVE SecondsInv'
    BY <2>2, <2>0 DEF MeetMovingStage, AtStage, Visited
  <2>3. ASSUME NEW i \in Stages, LoadStageTick(i) PROVE SecondsInv'
    BY <2>3, <2>0 DEF LoadStageTick, AtStage
  <2>4. ASSUME NEW i \in Stages, ReadStageCounts(i) PROVE SecondsInv'
    <3>1. /\ loaded \in Seconds /\ loaded <= ftick /\ ftick - loaded < WindowSecs
            /\ ftick' = ftick /\ ring' = ring
      BY <2>4, <1>0 DEF ReadStageCounts, PassOK
    <3>2. ASSUME NEW pair \in staged', pair \notin staged
          PROVE  pair[1] = loaded /\ tickOf[pair[2]] = loaded
      <4>1. pair[1] = loaded /\ pair[2] \in stageCount[i] /\ stageTick[i] = loaded
        BY <2>4, <3>2 DEF ReadStageCounts, ReadHolds
      <4> QED
        BY <1>0, <3>1, <4>1 DEF WindowInv, StagesRight, StageSecond
    <3> QED
      BY <2>0, <3>1, <3>2
  <2>5. ASSUME NEW i \in Stages, CheckStage(i) PROVE SecondsInv'
    BY <2>5, <2>0 DEF CheckStage, Visited
  <2>6. ASSUME NEW age \in 0..(WindowSecs - 1), PassSlot(age) PROVE SecondsInv'
    BY <2>6, <2>0 DEF PassSlot, Visited
  <2>7. ASSUME NEW age \in 0..(WindowSecs - 1), LoadSlotTick(age) PROVE SecondsInv'
    BY <2>7, <2>0 DEF LoadSlotTick
  <2>8. ASSUME NEW age \in 0..(WindowSecs - 1), ReadSlotCounts(age) PROVE SecondsInv'
    <3>1. /\ loaded = ftick - age /\ age <= ftick /\ ftick' = ftick /\ staged' = staged
      BY <2>8, <1>0, NextToVisit DEF ReadSlotCounts, PassOK, RingPCs
    <3>2. /\ loaded \in Seconds /\ SlotOf(loaded) \in Slots
          /\ loaded <= ftick /\ ftick - loaded < WindowSecs
      BY <1>0, <3>1, AgeIsSecond DEF InFoldWindow
    <3>3. ASSUME NEW pair \in ring', pair \notin ring
          PROVE  pair[1] = loaded /\ (~late => tickOf[pair[2]] = loaded)
      <4>1. /\ pair[1] = loaded /\ pair[2] \in slotCount[SlotOf(loaded)]
            /\ slotTick[SlotOf(loaded)] = loaded
        BY <2>8, <3>3 DEF ReadSlotCounts, ReadHolds
      <4> QED
        BY <1>0, <3>2, <4>1 DEF PromptInv, SlotsExact
    <3> QED
      BY <2>0, <3>1, <3>2, <3>3
  <2>9. CASE StartRing
    BY <2>9, <2>0 DEF StartRing
  <2>10. CASE StartCheck
    BY <2>10, <2>0 DEF StartCheck
  <2>11. CASE ReturnFold
    BY <2>11, <2>0 DEF ReturnFold
  <2>12. CASE Retry
    BY <2>12, <2>0 DEF Retry, BeginPass
  <2>13. CASE EndFold
    BY <2>13, <2>0 DEF EndFold
  <2>14. ASSUME NEW second \in Seconds, StartFold(second) PROVE SecondsInv'
    BY <2>14, <2>0 DEF StartFold, BeginPass
  <2> QED
    BY <2>1, <2>2, <2>3, <2>4, <2>5, <2>6, <2>7, <2>8, <2>9, <2>10, <2>11, <2>12,
       <2>13, <2>14, <2>0 DEF FoldNext, FoldStep
<1> QED
  BY <1>1, <1>2 DEF FoldingNext, allVars

\* A snapshot shows every request under the second it completed in, though it reads slots
\* and stages while they are cleared, drained and recycled (histogram.rs:203-237), as long
\* as no recorder is overtaken by more than the margin of FLUSH_MAX_AGE.
THEOREM SnapshotSecondsRight ==
  ASSUME MaxStale <= 1
  PROVE  FoldingSpec => []SeenInItsSecond
<1>1. SecondsInv => SeenInItsSecond
  BY DEF SecondsInv, SeenInItsSecond
<1>2. FoldInit => SecondsInv
  BY DEF FoldInit, SecondsInv
<1>3. PromptInv /\ [FoldingNext]_allVars => PromptInv'
  <2>1. [FoldingNext]_allVars => [Next]_vars
    BY DEF FoldingNext, allVars
  <2> QED
    BY <2>1, PromptKept
<1>4. PromptInv => WindowInv
  BY DEF PromptInv
<1> QED
  BY <1>1, <1>2, <1>3, <1>4, PromptStart, FoldInvStart, FoldInvStep, SecondsInvStep, PTL
  DEF FoldingSpec, FoldingInit

-----------------------------------------------------------------------------
(* Nothing is missed but what is left out.                                 *)

LEMMA OwnersKept ==
  ASSUME WindowInv, StagedByOwner, NEW t \in Threads, Record(t)
  PROVE  StagedByOwner'
<1>0. /\ ThreadsInv /\ TypeOK /\ ControlOK
  BY DEF WindowInv, CountInv, TimeInv, ThreadsInv
<1>1. ASSUME NEW s \in Samples, Begin(t, s) PROVE StagedByOwner'
  <2>1. ~Placed(s) /\ \A u \in Threads : sample[u] # s
    BY <1>1, NewIsNowhere DEF Begin, WindowInv
  <2>2. by' = [by EXCEPT ![s] = t] /\ sample'[t] = s
    BY <1>0, <1>1 DEF Begin, TypeOK
  <2>3. UNCHANGED <<stageCount, carry>>
    BY <1>1 DEF Begin, stageVars
  <2>4. ASSUME NEW u \in Threads, pc'[u] # "idle" PROVE by'[sample'[u]] = u
    <3>1. CASE u = t
      BY <1>0, <2>2, <3>1 DEF TypeOK
    <3>2. CASE u # t
      <4>1. pc[u] # "idle" /\ sample'[u] = sample[u] /\ sample[u] # s
        BY <1>0, <1>1, <2>1, <2>4, <3>2, OthersStay DEF Record
      <4>2. sample[u] \in Samples /\ by[sample[u]] = u
        BY <1>0, <4>1 DEF ControlOK, StagedByOwner
      <4> QED
        BY <1>0, <2>2, <4>1, <4>2 DEF TypeOK
    <3> QED
      BY <3>1, <3>2
  <2>5. ASSUME NEW u \in Threads, NEW x \in stageCount[u] \cup carry[u]
        PROVE  by'[x] = u /\ HasStage(u)
    <3>1. x # s /\ x \in Samples
      BY <1>0, <2>1, <2>5 DEF Placed, TypeOK
    <3> QED
      BY <1>0, <2>2, <2>5, <3>1 DEF StagedByOwner, TypeOK
  <2> QED
    BY <2>3, <2>4, <2>5 DEF StagedByOwner
<1>2. ASSUME Advance(t) PROVE StagedByOwner'
  <2>1. by' = by
    BY <1>2 DEF Advance, RecordStaged, RecordDirect, MarkStage, FindSlot,
       ClaimSlot, MissSlot, ClearSlot, PublishSlot, CheckSlot, AddToSlot, DrainStage,
       DeliverCounts, DiscardStage, SettleStage, BumpStage, history
  <2>2. pc[t] # "idle" /\ (pc'[t] # "idle" => sample'[t] = sample[t])
    BY <1>2, AdvanceFrame, <1>0 DEF ControlOK
  <2>3. ASSUME NEW u \in Threads, pc'[u] # "idle" PROVE by'[sample'[u]] = u
    BY <1>0, <1>2, <2>1, <2>2, <2>3, OthersStay DEF StagedByOwner, Record
  <2>4. ASSUME NEW x \in stageCount'[t] \cup carry'[t] PROVE by[x] = t /\ HasStage(t)
    <3>1. x \in stageCount[t] \cup carry[t] \/ (BumpStage(t) /\ x = sample[t])
      BY <1>0, <1>2, <2>4 DEF Advance, RecordStaged, RecordDirect, MarkStage, FindSlot,
         ClaimSlot, MissSlot, ClearSlot, PublishSlot, CheckSlot, AddToSlot, DrainStage,
         DeliverCounts, DiscardStage, SettleStage, BumpStage, stageVars, TypeOK
    <3>2. BumpStage(t) => HasStage(t) /\ by[sample[t]] = t
      BY <1>0, <2>2 DEF BumpStage, ControlOK, StagedByOwner
    <3> QED
      BY <3>1, <3>2 DEF StagedByOwner
  <2>5. ASSUME NEW u \in Threads, u # t PROVE stageCount'[u] = stageCount[u] /\ carry'[u] = carry[u]
    BY <1>0, <1>2, <2>5, OthersStay DEF Record
  <2> QED
    BY <2>1, <2>3, <2>4, <2>5 DEF StagedByOwner
<1> QED
  BY <1>1, <1>2 DEF Record

\* Where a recorded sample of the window is when it is not in the ring.
LEMMA InRingOrStage ==
  ASSUME WindowInv, StagedByOwner, NEW s \in Samples, tickOf[s] \in Seconds,
         \A t \in Threads : sample[t] # s, ~Expired(s), ~InRing(s)
  PROVE  /\ by[s] \in Stages
         /\ \/ stageTick[by[s]] = TickResetting
            \/ stageTick[by[s]] = tickOf[s] /\ s \in stageCount[by[s]]
<1>0. ThreadsInv /\ ControlOK /\ MarksOK /\ StagesRight
  BY DEF WindowInv, CountInv, TimeInv, ThreadsInv
<1>1. PICK t \in Threads : s \in stageCount[t] \/ s \in carry[t]
  BY DEF WindowInv, NoneLost, Placed, Expired, InRing
<1>2. by[s] = t /\ t \in Stages
  BY <1>1 DEF StagedByOwner, Stages
<1>3. CASE s \in carry[t]
  <2>1. pc[t] = "deliver" /\ HasStage(t)
    BY <1>0, <1>2, <1>3 DEF ControlOK, Stages
  <2>2. stageTick[t] = TickResetting
    BY <1>0, <2>1 DEF MarksOK, ResetExclusive
  <2> QED
    BY <1>2, <2>2
<1>4. CASE s \in stageCount[t]
  BY <1>0, <1>2, <1>4 DEF StagesRight, StageSecond
<1> QED
  BY <1>1, <1>3, <1>4

\* Where a sample of the window is when it is in the ring.
LEMMA InRingWhere ==
  ASSUME WindowInv, NEW s \in Samples, tickOf[s] \in Seconds, ~Expired(s), InRing(s)
  PROVE  slotTick[SlotOf(tickOf[s])] = tickOf[s] /\ s \in slotCount[SlotOf(tickOf[s])]
<1>1. PICK k \in Slots : s \in slotCount[k]
  BY DEF InRing
<1>2. slotTick[k] = tickOf[s]
  BY <1>1 DEF WindowInv, SlotsRight, Expired
<1>3. k = tickOf[s] % WindowSecs
  BY <1>2 DEF WindowInv, CountInv, TimeInv, ClockOK
<1> QED
  BY <1>1, <1>2, <1>3 DEF SlotOf

\* What is in the ring stays there until it has expired.
LEMMA InRingStays ==
  ASSUME WindowInv, NEW t \in Threads, Record(t), NEW s \in Samples, tickOf[s] \in Seconds,
         InRing(s)
  PROVE  InRing(s)' \/ Expired(s)
<1>a. TypeOK /\ Slot(t) \in Slots /\ TickResetting \notin Seconds
  BY TargetIsSecond, SecondOrMark DEF WindowInv, CountInv, TimeInv, ThreadsInv
<1>1. PICK k \in Slots : s \in slotCount[k]
  BY DEF InRing
<1>2. CASE ClearSlot(t)
  <2>1. CASE k = Slot(t)
    <3>1. slotTick[k] = TickResetting
      BY <1>2, <2>1 DEF ClearSlot, Resets, WindowInv, CountInv, TimeInv, ThreadsInv, MarksOK
    <3> QED
      BY <1>a, <1>1, <3>1 DEF WindowInv, SlotsRight, Expired
  <2>2. CASE k # Slot(t)
    BY <1>a, <1>1, <1>2, <2>2 DEF ClearSlot, InRing, TypeOK
  <2> QED
    BY <2>1, <2>2
<1>3. CASE ~ClearSlot(t)
  <2>1. slotCount[k] \subseteq slotCount'[k]
    BY <1>a, <1>3 DEF Record, Advance, Begin, RecordStaged, RecordDirect, MarkStage, FindSlot,
       ClaimSlot, MissSlot, PublishSlot, CheckSlot, AddToSlot, DrainStage,
       DeliverCounts, DiscardStage, SettleStage, BumpStage, slotVars, TypeOK
  <2> QED
    BY <1>1, <2>1 DEF InRing
<1> QED
  BY <1>2, <1>3

\* Time passes, and what was recorded is not recorded again.
LEMMA RecordedStays ==
  ASSUME WindowInv, [Next]_vars, NEW s \in Samples, tickOf[s] \in Seconds,
         \A t \in Threads : sample[t] # s
  PROVE  /\ tickOf'[s] = tickOf[s] /\ by'[s] = by[s]
         /\ \A t \in Threads : sample'[t] # s
         /\ Expired(s) => Expired(s)'
         /\ InRing(s) => InRing(s)' \/ Expired(s)
<1>0. /\ TypeOK /\ ControlOK /\ TickEmpty \notin Seconds /\ NoSample # s /\ now \in Nat
      /\ tickOf[s] \in Nat /\ WindowSecs \in Nat
  BY SecondOrMark, Numbers DEF WindowInv, CountInv, TimeInv, ThreadsInv, TypeOK
<1>1. CASE Tick
  <2>1. now' = now + 1 /\ UNCHANGED <<tickOf, by, sample, slotCount>>
    BY <1>1 DEF Tick, slotVars, localVars
  <2> QED
    BY <1>0, <2>1 DEF Expired, InRing
<1>2. ASSUME NEW t \in Threads, NEW x \in Samples, Begin(t, x)
      PROVE  /\ UNCHANGED <<now, slotCount>> /\ tickOf'[s] = tickOf[s] /\ by'[s] = by[s]
             /\ \A u \in Threads : sample'[u] # s
  BY <1>0, <1>2 DEF Begin, TypeOK, slotVars
<1>3. ASSUME NEW t \in Threads, Advance(t)
      PROVE  /\ now' = now /\ tickOf'[s] = tickOf[s] /\ by'[s] = by[s]
             /\ \A u \in Threads : sample'[u] # s
             /\ InRing(s) => InRing(s)' \/ Expired(s)
  <2>1. /\ now' = now /\ tickOf' = tickOf
        /\ \A u \in Threads : u # t => sample'[u] = sample[u]
        /\ sample'[t] = IF pc'[t] = "idle" THEN NoSample ELSE sample[t]
    BY <1>3, AdvanceFrame
  <2>2. by' = by
    BY <1>3 DEF Advance, RecordStaged, RecordDirect, MarkStage, FindSlot,
       ClaimSlot, MissSlot, ClearSlot, PublishSlot, CheckSlot, AddToSlot, DrainStage,
       DeliverCounts, DiscardStage, SettleStage, BumpStage, history
  <2> QED
    BY <1>0, <1>3, <2>1, <2>2, InRingStays DEF Record
<1>4. CASE UNCHANGED vars
  BY <1>4 DEF vars, slotVars, localVars, history, Expired, InRing
<1> QED
  BY <1>1, <1>2, <1>3, <1>4 DEF Next, Record, Expired, InRing

\* What MissInv says of one sample.
Accounted(s) ==
  Expired(s) \/ s \in Seen \/ by[s] \in skipped \cup unsettled \/ Ahead(s)

LEMMA MissUnderRecord ==
  ASSUME WindowInv, FoldInv, MissInv, [Next]_vars, UNCHANGED foldVars
  PROVE  MissInv'
<1> SUFFICES ASSUME NEW s \in before
             PROVE  /\ tickOf'[s] \in Seconds /\ \A t \in Threads : sample'[t] # s
                    /\ InFoldWindow(tickOf[s])' => Accounted(s)'
  BY DEF MissInv, foldVars, Accounted
<1>0. /\ s \in Samples /\ tickOf[s] \in Seconds /\ \A t \in Threads : sample[t] # s
      /\ InFoldWindow(tickOf[s]) => Accounted(s)
  BY DEF MissInv, Accounted, FoldInv, FoldTypeOK
<1>1. /\ tickOf'[s] = tickOf[s] /\ by'[s] = by[s] /\ \A t \in Threads : sample'[t] # s
      /\ Expired(s) => Expired(s)'
      /\ InRing(s) => InRing(s)' \/ Expired(s)
  BY <1>0, RecordedStays
<1>2. Seen' = Seen /\ InFoldWindow(tickOf[s])' = InFoldWindow(tickOf[s])
  BY <1>1 DEF foldVars, Seen, SeenStaged, SeenInRing, InFoldWindow
<1>3. Ahead(s) => Ahead(s)' \/ Expired(s)
  BY <1>1 DEF Ahead, foldVars
<1> QED
  BY <1>0, <1>1, <1>2, <1>3 DEF Accounted, foldVars

\* A step of a pass that comes by where a sample is sees it, or finds its stage moving.
LEMMA AheadKept ==
  ASSUME WindowInv, StagedByOwner, FoldInv, FoldStep, ~Retry, UNCHANGED vars,
         NEW s \in Samples, tickOf[s] \in Seconds, \A t \in Threads : sample[t] # s,
         InFoldWindow(tickOf[s]), Ahead(s), ~Expired(s)
  PROVE  Accounted(s)'
<1>0. /\ UNCHANGED <<stageTick, stageCount, slotTick, slotCount, tickOf, by>>
      /\ FoldTypeOK /\ PassOK /\ TickEmpty \notin Seconds /\ TickResetting \notin Seconds
      /\ TickEmpty # TickResetting
  BY SecondOrMark DEF vars, slotVars, stageVars, localVars, history, FoldInv
<1>a. InRing(s)' = InRing(s)
  BY <1>0 DEF InRing
<1>b. ~InRing(s) => /\ by[s] \in Stages
                    /\ \/ stageTick[by[s]] = TickResetting
                       \/ stageTick[by[s]] = tickOf[s] /\ s \in stageCount[by[s]]
  BY InRingOrStage
<1>c. InRing(s) => /\ slotTick[SlotOf(tickOf[s])] = tickOf[s]
                   /\ s \in slotCount[SlotOf(tickOf[s])]
  BY InRingWhere
<1>d. pending # {} => Min(pending) \in pending
  BY <1>0, NextToVisit
<1>e. /\ ftick \in Nat /\ tickOf[s] \in Nat /\ WindowSecs \in Nat
      /\ tickOf[s] <= ftick /\ ftick - tickOf[s] < WindowSecs
  BY <1>0, Numbers, SecondOrMark DEF FoldTypeOK, InFoldWindow
<1> DEFINE G == Accounted(s)'
<1> USE DEF Ahead, Accounted, StagePCs, RingPCs
<1>1. ASSUME NEW i \in Stages, PassStage(i) PROVE G
  <2>1. /\ fpc = "stages" /\ fpc' = "stages" /\ pending' = pending \ {i}
        /\ skipped' = skipped /\ unsettled' = unsettled
    BY <1>1 DEF PassStage, AtStage, Visited
  <2>2. CASE by[s] = i /\ i \notin skipped
    <3>1. stageTick[i] # TickResetting /\ stageTick[i] # tickOf[s]
      BY <1>1, <1>0, <2>2 DEF PassStage
    <3> QED
      BY <1>a, <1>b, <2>1, <2>2, <3>1
  <2> QED
    BY <1>0, <1>a, <2>1, <2>2
<1>2. ASSUME NEW i \in Stages, MeetMovingStage(i) PROVE G
  BY <1>2, <1>0, <1>a, <1>b, <1>c DEF MeetMovingStage, AtStage, Visited
<1>3. ASSUME NEW i \in Stages, LoadStageTick(i) PROVE G
  BY <1>3, <1>0, <1>a, <1>b, <1>c DEF LoadStageTick, AtStage
<1>4. ASSUME NEW i \in Stages, ReadStageCounts(i) PROVE G
  <2>1. /\ fpc = "stage_counts" /\ fpc' = "stages" /\ pending' = pending \ {i}
        /\ loaded \in Seconds
    BY <1>4, <1>0 DEF ReadStageCounts, Visited, PassOK
  <2>2. CASE by[s] = i /\ ~InRing(s)
    <3>1. CASE stageTick[i] = loaded
      <4>1. stageTick[i] = tickOf[s] /\ s \in stageCount[i]
        BY <1>0, <1>b, <2>1, <2>2, <3>1
      <4>2. <<loaded, s>> \in staged'
        BY <1>4, <4>1, <3>1 DEF ReadStageCounts, ReadHolds
      <4> QED
        BY <4>2 DEF Seen, SeenStaged
    <3>2. CASE stageTick[i] # loaded
      BY <1>4, <1>0, <2>2, <3>2 DEF ReadStageCounts, ReadHolds
    <3> QED
      BY <3>1, <3>2
  <2> QED
    BY <1>0, <1>a, <2>1, <2>2
<1>5. ASSUME NEW i \in Stages, CheckStage(i) PROVE G
  BY <1>5, <1>0, <1>a, <1>b, <1>c DEF CheckStage, Visited
<1>6. ASSUME NEW age \in 0..(WindowSecs - 1), PassSlot(age) PROVE G
  <2>1. /\ fpc = "ring" /\ fpc' = "ring" /\ pending' = pending \ {age} /\ ftick' = ftick
        /\ slotTick[SlotOf(ftick - age)] # ftick - age
    BY <1>6 DEF PassSlot, Visited
  <2>2. InRing(s) /\ ftick - tickOf[s] \in pending
    BY <2>1
  <2>3. ftick - tickOf[s] # age
    <3>1. ASSUME ftick - tickOf[s] = age PROVE ftick - age = tickOf[s]
      BY <1>e, <3>1
    <3> QED
      BY <1>c, <2>1, <2>2, <3>1
  <2> QED
    BY <1>0, <1>a, <2>1, <2>2, <2>3
<1>7. ASSUME NEW age \in 0..(WindowSecs - 1), LoadSlotTick(age) PROVE G
  BY <1>7, <1>0, <1>a, <1>b, <1>c DEF LoadSlotTick
<1>8. ASSUME NEW age \in 0..(WindowSecs - 1), ReadSlotCounts(age) PROVE G
  <2>1. /\ fpc = "slot_counts" /\ fpc' = "ring" /\ pending' = pending \ {age}
        /\ ftick' = ftick /\ loaded = ftick - age
    BY <1>8, <1>0 DEF ReadSlotCounts, Visited, PassOK
  <2>2. InRing(s) /\ ftick - tickOf[s] \in pending
    BY <2>1
  <2>3. CASE ftick - tickOf[s] = age
    <3>1. loaded = tickOf[s]
      BY <1>e, <2>1, <2>3
    <3>2. <<loaded, s>> \in ring'
      BY <1>8, <1>c, <2>2, <3>1 DEF ReadSlotCounts, ReadHolds
    <3> QED
      BY <3>2 DEF Seen, SeenInRing
  <2> QED
    BY <1>0, <1>a, <2>1, <2>2, <2>3
<1>9. CASE StartRing
  <2>1. fpc' = "ring" /\ InRing(s) /\ ftick' = ftick
        /\ pending' = {age \in 0..(WindowSecs - 1) : age <= ftick}
    BY <1>9 DEF StartRing
  <2>2. ftick - tickOf[s] \in 0..(WindowSecs - 1) /\ ftick - tickOf[s] <= ftick
    BY <1>e
  <2> QED
    BY <1>0, <1>a, <2>1, <2>2
<1>10. CASE StartCheck
  BY <1>10, <1>0, <1>a, <1>b, <1>c DEF StartCheck
<1>11. CASE ReturnFold
  BY <1>11, <1>0, <1>a, <1>b, <1>c DEF ReturnFold
<1>12. CASE Retry
  BY <1>12
<1> QED
  BY <1>1, <1>2, <1>3, <1>4, <1>5, <1>6, <1>7, <1>8, <1>9, <1>10, <1>11, <1>12 DEF FoldStep
LEMMA MissUnderFold ==
  ASSUME WindowInv, StagedByOwner, FoldInv, MissInv, FoldNext, UNCHANGED vars
  PROVE  MissInv'
<1>0. /\ UNCHANGED <<stageTick, stageCount, slotTick, slotCount, tickOf, by, now, sample>>
      /\ FoldTypeOK /\ PassOK /\ Stages \subseteq Threads /\ Stages \subseteq Nat
      /\ TickEmpty \notin Seconds /\ TickResetting \notin Seconds
      /\ TickEmpty # TickResetting /\ TypeOK /\ ControlOK
  BY StagesFinite, SecondOrMark
  DEF vars, slotVars, stageVars, localVars, history, FoldInv, WindowInv, CountInv, TimeInv,
      ThreadsInv
<1>1. ASSUME BeginPass, skipped \subseteq skipped', NEW s \in Samples, tickOf[s] \in Seconds,
             \A t \in Threads : sample[t] # s
      PROVE  Accounted(s)'
  <2>1. Expired(s) \/ InRing(s) \/ by[s] \in Stages
    BY <1>1, InRingOrStage
  <2>2. fpc' = "stages" /\ pending' = Stages
    BY <1>1 DEF BeginPass
  <2> QED
    BY <1>0, <2>1, <2>2 DEF Accounted, Expired, InRing, Ahead, StagePCs
<1>2. CASE \E second \in Seconds : StartFold(second)
  <2>1. before' = Recorded /\ BeginPass /\ skipped' = {}
    BY <1>2 DEF StartFold
  <2>2. ASSUME NEW s \in Recorded
        PROVE  s \in Samples /\ tickOf[s] \in Seconds /\ \A t \in Threads : sample[t] # s
    BY <1>0, <2>2 DEF Recorded, InFlight, TypeOK
  <2>3. ASSUME NEW s \in Recorded PROVE Accounted(s)'
    <3>1. Expired(s) \/ InRing(s) \/ by[s] \in Stages
      BY <2>2, InRingOrStage
    <3>2. fpc' = "stages" /\ pending' = Stages
      BY <2>1 DEF BeginPass
    <3> QED
      BY <1>0, <3>1, <3>2 DEF Accounted, Expired, InRing, Ahead, StagePCs
  <2> QED
    BY <1>0, <2>1, <2>2, <2>3 DEF MissInv, Accounted
<1>3. CASE EndFold
  BY <1>3 DEF EndFold, MissInv
<1>4. CASE Retry
  <2>1. before' = before /\ ftick' = ftick /\ BeginPass /\ skipped \subseteq skipped'
    BY <1>4 DEF Retry
  <2> QED
    BY <1>0, <1>1, <2>1 DEF MissInv, Accounted, FoldTypeOK, InFoldWindow
<1>5. CASE FoldStep /\ ~Retry
  <2>1. before' = before /\ ftick' = ftick /\ skipped' = skipped /\ unsettled \subseteq unsettled'
        /\ staged \subseteq staged' /\ ring \subseteq ring'
    BY <1>5 DEF FoldStep, PassStage, MeetMovingStage, LoadStageTick, ReadStageCounts, CheckStage,
       PassSlot, LoadSlotTick, ReadSlotCounts, StartRing, StartCheck, ReturnFold
  <2>2. ASSUME NEW s \in before, InFoldWindow(tickOf[s]) PROVE Accounted(s)'
    <3>1. /\ s \in Samples /\ tickOf[s] \in Seconds /\ \A t \in Threads : sample[t] # s
          /\ Accounted(s)
      BY <1>0, <2>2 DEF MissInv, Accounted, FoldTypeOK
    <3>2. Expired(s)' = Expired(s) /\ InRing(s)' = InRing(s)
      BY <1>0 DEF Expired, InRing
    <3>3. s \in Seen => s \in Seen'
      BY <2>1 DEF Seen, SeenStaged, SeenInRing
    <3>4. ASSUME Ahead(s), ~Expired(s) PROVE Accounted(s)'
      BY <1>5, <2>2, <3>1, <3>4, AheadKept
    <3> QED
      BY <1>0, <2>1, <3>1, <3>2, <3>3, <3>4 DEF Accounted
  <2> QED
    BY <1>0, <2>1, <2>2 DEF MissInv, Accounted, InFoldWindow
<1> QED
  BY <1>2, <1>3, <1>4, <1>5 DEF FoldNext, FoldStep

LEMMA MissInvStep ==
  WindowInv /\ StagedByOwner /\ FoldInv /\ MissInv /\ [FoldingNext]_allVars => MissInv'
<1> SUFFICES ASSUME WindowInv, StagedByOwner, FoldInv, MissInv, [FoldingNext]_allVars
             PROVE  MissInv'
  OBVIOUS
<1>1. CASE [Next]_vars /\ UNCHANGED foldVars
  BY <1>1, MissUnderRecord
<1>2. CASE FoldNext /\ UNCHANGED vars
  BY <1>2, MissUnderFold
<1> QED
  BY <1>1, <1>2 DEF FoldingNext, allVars

LEMMA OwnersStep == WindowInv /\ StagedByOwner /\ [FoldingNext]_allVars => StagedByOwner'
<1> SUFFICES ASSUME WindowInv, StagedByOwner, [FoldingNext]_allVars PROVE StagedByOwner'
  OBVIOUS
<1>1. ASSUME NEW t \in Threads, Record(t) PROVE StagedByOwner'
  BY <1>1, OwnersKept
<1>2. CASE Tick \/ UNCHANGED vars
  BY <1>2 DEF Tick, vars, stageVars, localVars, history, StagedByOwner
<1> QED
  BY <1>1, <1>2 DEF FoldingNext, Next, allVars

LEMMA AheadOfNone ==
  ASSUME WindowInv, FoldInv, MissInv, fpc = "returned", NEW s \in before,
         InFoldWindow(tickOf[s]), InWindow(tickOf[s]), s \notin Seen
  PROVE  by[s] \in skipped \cup unsettled /\ ~Waiting
<1>1. tickOf[s] \in Seconds /\ Accounted(s)
  BY DEF MissInv, Accounted
<1>2. ~Expired(s)
  <2>1. now \in Nat /\ tickOf[s] \in Nat /\ WindowSecs \in Nat
    BY <1>1, SecondOrMark, Numbers DEF WindowInv, CountInv, TimeInv, ThreadsInv, TypeOK
  <2> QED
    BY <2>1 DEF InWindow, Expired
<1>3. by[s] \in skipped \cup unsettled
  BY <1>1, <1>2 DEF Accounted, Ahead, StagePCs, RingPCs
<1> QED
  BY <1>3 DEF FoldInv, PassOK, MayReturn

\* What a snapshot misses of the samples recorded before it began is what the code says
\* it may miss: those of stages that were left out, or in the middle of a move in the last
\* pass, after MaxFoldAttempts passes (histogram.rs:51-58, 520-529).  It holds however
\* recorders lag: a pass looks at the stages before the ring, and counts only go that way.
THEOREM SnapshotMissesLeftOut == FoldingSpec => []MissedOnlyIfLeftOut
<1>1. WindowInv /\ FoldInv /\ MissInv => MissedOnlyIfLeftOut
  BY AheadOfNone DEF MissedOnlyIfLeftOut
<1>2. FoldInit => MissInv
  BY DEF FoldInit, MissInv
<1>3. Init => StagedByOwner
  BY DEF Init, StagedByOwner
<1> QED
  BY <1>1, <1>2, <1>3, WindowStart, WindowUnderFold, FoldInvStart, FoldInvStep, OwnersStep,
     MissInvStep, PTL DEF FoldingSpec, FoldingInit
=============================================================================
