---------------------------- MODULE WindowFold ----------------------------
(***************************************************************************)
(* SlidingWindow::fold of src/src/histogram.rs: a snapshot of the window   *)
(* taken, without any lock, while the recorders of SlidingWindow run.      *)
(*                                                                         *)
(* A pass reads the stages, then the ring, then the ticks of the stages it *)
(* took counts from.  A stage that moved meanwhile has pushed into the     *)
(* ring what was already read from the stage, so the pass is repeated; a   *)
(* stage seen in the middle of a move is waited for up to                  *)
(* MaxFoldAttempts passes, and left out after that.                        *)
(*                                                                         *)
(* The recorders, their memory and their steps are those of SlidingWindow. *)
(* One fold runs at a time: folds only read, so several do not interact.   *)
(***************************************************************************)
EXTENDS SlidingWindow, FiniteSetsExt

CONSTANTS MaxFoldAttempts,  \* MAX_FOLD_ATTEMPTS: passes that wait for moves
          FoldLag           \* how old the second is that a fold is asked for

ASSUME FoldAssumption == MaxFoldAttempts \in Nat \ {0} /\ FoldLag \in Nat

VARIABLES fpc,       \* the step the fold is about to make
          ftick,     \* the second the folded windows end at
          attempt,   \* passes made, counted up to AttemptCap
          stable,    \* no stage was seen in the middle of a move in this pass
          skipped,   \* stages that are left out
          observed,  \* tick of each stage counts were taken from, or TickEmpty
          staged,    \* <<second, sample>> read from the stages
          ring,      \* <<second, sample>> read from the ring
          pending,   \* stages or ages still to be visited in this phase
          loaded,    \* tick loaded by the read in progress
          moved,     \* observed stages whose tick has changed
          before,    \* history: what was recorded when the fold began
          unsettled  \* history: stages this pass saw in the middle of a move

foldVars == <<fpc, ftick, attempt, stable, skipped, observed, staged, ring,
              pending, loaded, moved, before, unsettled>>
allVars == <<vars, foldVars>>

Stages == {t \in Threads : HasStage(t)}

\* Every pass beyond the waiting ones leaves out one more stage, so this many
\* passes are never made (AttemptsBounded); counting stops there.
AttemptCap == MaxFoldAttempts + Cardinality(Stages)

FoldPCs == {"idle", "stages", "stage_counts", "ring", "slot_counts", "check",
            "returned"}

FoldTypeOK ==
  /\ fpc \in FoldPCs
  /\ ftick \in Seconds
  /\ attempt \in 0..AttemptCap
  /\ stable \in BOOLEAN
  /\ skipped \subseteq Stages
  /\ observed \in [Stages -> Seconds \cup {TickEmpty}]
  /\ staged \subseteq Seconds \X Samples
  /\ ring \subseteq Seconds \X Samples
  /\ pending \subseteq Nat
  /\ loaded \in Seconds \cup {TickEmpty}
  /\ moved \subseteq Stages
  /\ before \subseteq Samples
  /\ unsettled \subseteq Stages

FoldInit ==
  /\ fpc = "idle"
  /\ ftick = 0
  /\ attempt = 0
  /\ stable = TRUE
  /\ skipped = {}
  /\ observed = [t \in Stages |-> TickEmpty]
  /\ staged = {}
  /\ ring = {}
  /\ pending = {}
  /\ loaded = TickEmpty
  /\ moved = {}
  /\ before = {}
  /\ unsettled = {}

-----------------------------------------------------------------------------
(* The fold as a whole.                                                    *)

\* read_stages begins by forgetting what an earlier pass read.
BeginPass ==
  /\ fpc' = "stages"
  /\ stable' = TRUE
  /\ observed' = [t \in Stages |-> TickEmpty]
  /\ staged' = {}
  /\ ring' = {}
  /\ moved' = {}
  /\ pending' = Stages
  /\ loaded' = TickEmpty
  /\ unsettled' = {}

\* snapshot folds for the current second; a route is folded for the second the
\* table's snapshot read before it collected the rows.
StartFold(second) ==
  /\ fpc = "idle"
  /\ second <= now /\ now - second <= FoldLag
  /\ ftick' = second
  /\ attempt' = 0
  /\ skipped' = {}
  /\ before' = Recorded
  /\ BeginPass

\* The attempts after which the fold still waits for moves in progress.
Waiting == attempt + 1 < MaxFoldAttempts

\* mistake: the last check of the stages is not heeded
MayReturnMoved == stable \/ ~Waiting

\* mistake: a stage in the middle of a move is waited for without end
MayReturnStable == moved = {} /\ stable

\* The condition under which the pass just made is the result.
MayReturn == moved = {} /\ (stable \/ ~Waiting)

ReturnFold ==
  /\ fpc = "check" /\ pending = {}
  /\ MayReturn
  /\ fpc' = "returned"
  /\ UNCHANGED <<ftick, attempt, stable, skipped, observed, staged, ring,
                 pending, loaded, moved, before, unsettled>>

Retry ==
  /\ fpc = "check" /\ pending = {}
  /\ ~MayReturn
  /\ skipped' = IF Waiting THEN skipped ELSE skipped \cup moved
  /\ attempt' = IF attempt < AttemptCap THEN attempt + 1 ELSE attempt
  /\ UNCHANGED <<ftick, before>>
  /\ BeginPass

\* The caller has used the result.
EndFold ==
  /\ fpc = "returned"
  /\ fpc' = "idle"
  /\ ftick' = 0 /\ attempt' = 0 /\ stable' = TRUE /\ skipped' = {}
  /\ observed' = [t \in Stages |-> TickEmpty]
  /\ staged' = {} /\ ring' = {} /\ before' = {} /\ unsettled' = {}
  /\ UNCHANGED <<pending, loaded, moved>>

-----------------------------------------------------------------------------
(* read_stages.                                                            *)

InFoldWindow(second) == second <= ftick /\ ftick - second < WindowSecs

AtStage(i) == fpc = "stages" /\ pending # {} /\ i = Min(pending)

Visited(i) == pending' = pending \ {i}

\* Nothing to read: left out, never written, or of a second outside the window.
PassStage(i) ==
  /\ AtStage(i)
  /\ \/ i \in skipped
     \/ stageTick[i] = TickEmpty
     \/ stageTick[i] # TickResetting /\ ~InFoldWindow(stageTick[i])
  /\ Visited(i)
  /\ UNCHANGED <<fpc, ftick, attempt, stable, skipped, observed, staged, ring,
                 loaded, moved, before, unsettled>>

MeetMovingStage(i) ==
  /\ AtStage(i)
  /\ i \notin skipped
  /\ stageTick[i] = TickResetting
  /\ stable' = FALSE
  /\ unsettled' = unsettled \cup {i}
  /\ Visited(i)
  /\ UNCHANGED <<fpc, ftick, attempt, skipped, observed, staged, ring, loaded,
                 moved, before>>

LoadStageTick(i) ==
  /\ AtStage(i)
  /\ i \notin skipped
  /\ stageTick[i] \notin {TickEmpty, TickResetting}
  /\ InFoldWindow(stageTick[i])
  /\ loaded' = stageTick[i]
  /\ fpc' = "stage_counts"
  /\ UNCHANGED <<ftick, attempt, stable, skipped, observed, staged, ring,
                 pending, moved, before, unsettled>>

\* mistake: the tick is not checked again after the counters
ReadAnyway(slot_tick) == TRUE

\* Slot::read is good when the tick is still the expected one after the last
\* counter: ticks never come back, so it was the expected one all along and
\* the counters are those of this moment.
ReadHolds(slot_tick) == slot_tick = loaded

\* mistake: the tick kept for the last check is the one after the counters
ReadStageCountsLate(i) ==
  /\ fpc = "stage_counts" /\ i = Min(pending)
  /\ staged' = staged \cup ({loaded} \X stageCount[i])
  /\ observed' = [observed EXCEPT ![i] = stageTick[i]]
  /\ Visited(i)
  /\ fpc' = "stages"
  /\ loaded' = TickEmpty
  /\ UNCHANGED <<ftick, attempt, stable, skipped, ring, moved, before, unsettled>>

\* Slot::read of the stage, up to its second look at the tick.
ReadStageCounts(i) ==
  /\ fpc = "stage_counts" /\ i = Min(pending)
  /\ stable' = (stable /\ ReadHolds(stageTick[i]))
  /\ unsettled' = IF ReadHolds(stageTick[i]) THEN unsettled ELSE unsettled \cup {i}
  /\ IF ReadHolds(stageTick[i]) /\ stageCount[i] # {}
     THEN /\ staged' = staged \cup ({loaded} \X stageCount[i])
          /\ observed' = [observed EXCEPT ![i] = loaded]
     ELSE UNCHANGED <<staged, observed>>
  /\ Visited(i)
  /\ fpc' = "stages"
  /\ loaded' = TickEmpty
  /\ UNCHANGED <<ftick, attempt, skipped, ring, moved, before>>

-----------------------------------------------------------------------------
(* Fold::walk: the ring, newest second first.                              *)

StartRing ==
  /\ fpc = "stages" /\ pending = {}
  /\ fpc' = "ring"
  /\ pending' = {age \in 0..(WindowSecs - 1) : age <= ftick}
  /\ UNCHANGED <<ftick, attempt, stable, skipped, observed, staged, ring,
                 loaded, moved, before, unsettled>>

SlotOf(second) == second % WindowSecs

\* The slot holds another second or is being reset.
PassSlot(age) ==
  /\ fpc = "ring" /\ pending # {} /\ age = Min(pending)
  /\ slotTick[SlotOf(ftick - age)] # ftick - age
  /\ Visited(age)
  /\ UNCHANGED <<fpc, ftick, attempt, stable, skipped, observed, staged, ring,
                 loaded, moved, before, unsettled>>

LoadSlotTick(age) ==
  /\ fpc = "ring" /\ pending # {} /\ age = Min(pending)
  /\ slotTick[SlotOf(ftick - age)] = ftick - age
  /\ loaded' = ftick - age
  /\ fpc' = "slot_counts"
  /\ UNCHANGED <<ftick, attempt, stable, skipped, observed, staged, ring,
                 pending, moved, before, unsettled>>

\* mistake: the ring slot is not checked again after its counters
ReadSlotCountsOnce(age) ==
  /\ fpc = "slot_counts" /\ age = Min(pending)
  /\ ring' = ring \cup ({loaded} \X slotCount[SlotOf(loaded)])
  /\ Visited(age)
  /\ fpc' = "ring"
  /\ loaded' = TickEmpty
  /\ UNCHANGED <<ftick, attempt, stable, skipped, observed, staged, moved, before,
                 unsettled>>

\* Slot::read of the slot, up to its second look at the tick.
ReadSlotCounts(age) ==
  /\ fpc = "slot_counts" /\ age = Min(pending)
  /\ IF ReadHolds(slotTick[SlotOf(loaded)])
     THEN ring' = ring \cup ({loaded} \X slotCount[SlotOf(loaded)])
     ELSE UNCHANGED ring
  /\ Visited(age)
  /\ fpc' = "ring"
  /\ loaded' = TickEmpty
  /\ UNCHANGED <<ftick, attempt, stable, skipped, observed, staged, moved, before,
                 unsettled>>

-----------------------------------------------------------------------------
(* moved_stages.                                                           *)

StartCheck ==
  /\ fpc = "ring" /\ pending = {}
  /\ fpc' = "check"
  /\ pending' = {t \in Stages : observed[t] # TickEmpty}
  /\ UNCHANGED <<ftick, attempt, stable, skipped, observed, staged, ring,
                 loaded, moved, before, unsettled>>

\* A stage counts were taken from has moved when its tick is another one.
CheckStage(i) ==
  /\ fpc = "check" /\ pending # {} /\ i = Min(pending)
  /\ moved' = IF stageTick[i] # observed[i] THEN moved \cup {i} ELSE moved
  /\ Visited(i)
  /\ UNCHANGED <<fpc, ftick, attempt, stable, skipped, observed, staged, ring,
                 loaded, before, unsettled>>

-----------------------------------------------------------------------------

\* What the fold does between its start and its result.
FoldStep ==
  \/ \E i \in Stages :
       \/ PassStage(i) \/ MeetMovingStage(i) \/ LoadStageTick(i)
       \/ ReadStageCounts(i) \/ CheckStage(i)
  \/ \E age \in 0..(WindowSecs - 1) :
       PassSlot(age) \/ LoadSlotTick(age) \/ ReadSlotCounts(age)
  \/ StartRing \/ StartCheck \/ ReturnFold \/ Retry

FoldNext == FoldStep \/ EndFold \/ \E second \in Seconds : StartFold(second)

FoldingNext ==
  \/ Next /\ UNCHANGED foldVars
  \/ FoldNext /\ UNCHANGED vars

FoldingInit == Init /\ FoldInit

FoldingSpec == FoldingInit /\ [][FoldingNext]_allVars

\* Only the folding thread is assumed to run: recorders may stall anywhere.
FoldingFairSpec == FoldingSpec /\ WF_allVars(FoldStep /\ UNCHANGED vars)

-----------------------------------------------------------------------------
(* Properties.                                                             *)

SeenStaged == {pair[2] : pair \in staged}
SeenInRing == {pair[2] : pair \in ring}
Seen == SeenStaged \cup SeenInRing

\* "Nothing is ever counted twice" (histogram.rs:529): no request is in a
\* snapshot both from its stage and from the ring, however moves, clock ticks
\* and the passes of the fold interleave, and whether or not stages were left
\* out.
NothingCountedTwice == fpc = "returned" => SeenStaged \cap SeenInRing = {}

\* A snapshot shows every request under the second it completed in, and only
\* requests of the window it was asked for, though it reads slots and stages
\* while they are cleared, drained and recycled (histogram.rs:203-237), as
\* long as no recorder lags by more than a second.
SeenInItsSecond ==
  fpc = "returned" /\ ~late =>
    \A pair \in staged \cup ring :
      pair[1] = tickOf[pair[2]] /\ InFoldWindow(pair[1])

\* What a snapshot misses is what the code says it may miss: a request recorded
\* before the fold began, and still inside the window when it ends, is absent
\* only if the stage of the thread that recorded it was left out or was in the
\* middle of a move in the last pass, and MaxFoldAttempts passes were made to
\* avoid that.  A fold that leaves nothing out misses nothing, and what threads
\* without a stage recorded is never missed (histogram.rs:51-58, 520-529).
MissedOnlyIfLeftOut ==
  fpc = "returned" =>
    \A s \in before :
      InFoldWindow(tickOf[s]) /\ InWindow(tickOf[s]) /\ s \notin Seen
        => by[s] \in skipped \cup unsettled /\ ~Waiting

\* "This ends within as many passes as there are stages" (histogram.rs:555):
\* after the waiting passes, each further one leaves out one more stage.
AttemptsBounded == attempt < AttemptCap

\* A fold ends even when recorders stall in the middle of a move for ever.
FoldEnds == fpc = "stages" ~> fpc = "returned"
=============================================================================
