--------------------- MODULE RequestAccountingProofs ---------------------
(***************************************************************************)
(* For every set of requests and every number of shards: what in_flight    *)
(* returns lies between the requests in flight all the while it reads and  *)
(* those in flight at some moment of it, and is never negative.            *)
(***************************************************************************)
EXTENDS RequestAccounting, TLAPS

(***************************************************************************)
(* How a request's phase decides what has counted it.                      *)
(***************************************************************************)
PhaseInv ==
  /\ \A r \in Requests :
       (\E i \in Shards : r \in requests[i]) <=> phase[r] \notin {"new", "skipped"}
  /\ \A r \in Requests :
       (\E i \in Shards : r \in finished[i]) <=> phase[r] \in {"ending", "over"}
  /\ \A r \in Requests :
       r \in gauge
         <=> phase[r] \notin {"new", "skipped", "counted", "over"}

(***************************************************************************)
(* What the reader still has to meet.  A request that was over when it     *)
(* began is in its first sum or in a shard it has not read; then every     *)
(* request of the first sum, or in flight when it began, is in the second  *)
(* sum or in a shard it has not read.  Counters only grow, so both survive *)
(* whatever the requests do.                                               *)
(***************************************************************************)
ReaderInv ==
  /\ \A r \in finishedSeen : \E i \in Shards : r \in finished[i]
  /\ \A r \in atStart.inFlight : \E i \in Shards : r \in requests[i]
  /\ reader = "finishes" =>
       \A r \in atStart.over : r \in finishedSeen \/ \E i \in left : r \in finished[i]
  /\ reader \in {"starts", "done"} => atStart.over \subseteq finishedSeen
  /\ reader = "starts" =>
       \A r \in finishedSeen \cup atStart.inFlight :
         r \in startedSeen \/ \E i \in left : r \in requests[i]
  /\ reader = "done" => (finishedSeen \cup atStart.inFlight) \subseteq startedSeen

IInv == TypeOK /\ PhaseInv /\ ReaderInv

\* Membership in the sums over all shards.
LEMMA SumsAreUnions ==
  /\ \A r : r \in Started <=> \E i \in Shards : r \in requests[i]
  /\ \A r : r \in Finished <=> \E i \in Shards : r \in finished[i]
BY DEF Started, Finished

-----------------------------------------------------------------------------
\* Steps of requests.

\* A request step that touches no counter of starts or finishes leaves the
\* reader's part alone.
LEMMA ReaderUndisturbed ==
  ASSUME ReaderInv, UNCHANGED <<requests, finished, readerVars>>
  PROVE  ReaderInv'
BY DEF ReaderInv, readerVars

LEMMA CountStartKeeps ==
  ASSUME IInv, NEW r \in Requests, NEW i \in Shards, CountStart(r, i)
  PROVE  IInv'
<1>1. /\ phase[r] = "new" /\ phase' = [phase EXCEPT ![r] = "counted"]
      /\ requests' = [requests EXCEPT ![i] = @ \cup {r}]
      /\ UNCHANGED <<finished, status, gauge, readerVars>>
  BY DEF CountStart, Enter
<1>2. TypeOK'
  BY <1>1 DEF IInv, TypeOK, Phases, readerVars
<1>3. \A q \in Requests :
        (\E j \in Shards : q \in requests'[j]) <=> (q = r \/ \E j \in Shards : q \in requests[j])
  BY <1>1 DEF IInv, TypeOK
<1>4. \A q \in Requests : phase'[q] = IF q = r THEN "counted" ELSE phase[q]
  BY <1>1 DEF IInv, TypeOK
<1>5. PhaseInv'
  BY <1>1, <1>3, <1>4 DEF IInv, PhaseInv
<1>6. \A j \in Shards : requests[j] \subseteq requests'[j]
  BY <1>1 DEF IInv, TypeOK
<1>7. ReaderInv'
  BY <1>1, <1>6 DEF IInv, TypeOK, ReaderInv, readerVars
<1> QED
  BY <1>2, <1>5, <1>7 DEF IInv

LEMMA CountFinishKeeps ==
  ASSUME IInv, NEW r \in Requests, NEW i \in Shards, CountFinish(r, i)
  PROVE  IInv'
<1>1. /\ phase[r] = "dropping" /\ phase' = [phase EXCEPT ![r] = "ending"]
      /\ finished' = [finished EXCEPT ![i] = @ \cup {r}]
      /\ UNCHANGED <<requests, status, gauge, readerVars>>
  BY DEF CountFinish, Enter
<1>2. TypeOK'
  BY <1>1 DEF IInv, TypeOK, Phases, readerVars
<1>3. \A q \in Requests :
        (\E j \in Shards : q \in finished'[j]) <=> (q = r \/ \E j \in Shards : q \in finished[j])
  BY <1>1 DEF IInv, TypeOK
<1>4. \A q \in Requests : phase'[q] = IF q = r THEN "ending" ELSE phase[q]
  BY <1>1 DEF IInv, TypeOK
<1>5. PhaseInv'
  BY <1>1, <1>3, <1>4 DEF IInv, PhaseInv
<1>6. \A j \in Shards : finished[j] \subseteq finished'[j]
  BY <1>1 DEF IInv, TypeOK
<1>7. ReaderInv'
  BY <1>1, <1>6 DEF IInv, TypeOK, ReaderInv, readerVars
<1> QED
  BY <1>2, <1>5, <1>7 DEF IInv

\* The steps that change the phase, the row's gauge and the status counters.
LEMMA OtherRequestStepsKeep ==
  ASSUME IInv, NEW r \in Requests,
         \/ Skip(r) \/ CountOnRoute(r) \/ InstallGuard(r) \/ PanicInCall(r)
         \/ DropGuard(r) \/ ReleaseRoute(r) \/ \E i \in Shards : Respond(r, i)
  PROVE  IInv'
<1>1. UNCHANGED <<requests, finished, readerVars>>
  BY DEF Skip, CountOnRoute, InstallGuard, PanicInCall, DropGuard, ReleaseRoute,
         Respond, counters
<1>2. ReaderInv'
  BY <1>1, ReaderUndisturbed DEF IInv
<1>3. TypeOK'
  BY <1>1 DEF IInv, TypeOK, Phases, Skip, CountOnRoute, InstallGuard, PanicInCall,
              DropGuard, ReleaseRoute, Respond, Enter, counters, readerVars
<1>4. PhaseInv'
  BY <1>1 DEF IInv, TypeOK, PhaseInv, Skip, CountOnRoute, InstallGuard, PanicInCall,
              DropGuard, ReleaseRoute, Respond, Enter, counters
<1> QED
  BY <1>2, <1>3, <1>4 DEF IInv

-----------------------------------------------------------------------------
\* Steps of the reader.

LEMMA ReaderStepKeeps ==
  ASSUME IInv, ReaderStep
  PROVE  IInv'
<1>1. UNCHANGED <<phase, counters>>
  BY DEF ReaderStep, BeginRead, Fence, EndRead, ResetReader, ReadFinished, ReadStarted
<1>2. PhaseInv'
  BY <1>1 DEF IInv, PhaseInv, counters
<1>3. InFlight \subseteq Requests /\ Finished \subseteq Requests
  BY SumsAreUnions DEF IInv, TypeOK, InFlight, Started
<1>4. TypeOK' /\ ReaderInv'
  <2>1. CASE BeginRead
    BY <1>1, <1>3, <2>1, SumsAreUnions
      DEF IInv, TypeOK, ReaderInv, BeginRead, FirstSum, InFlight, counters
  <2>2. ASSUME NEW i \in Shards, ReadFinished(i) PROVE TypeOK' /\ ReaderInv'
    BY <1>1, <2>2 DEF IInv, TypeOK, ReaderInv, ReadFinished, counters
  <2>3. CASE Fence
    BY <1>1, <2>3 DEF IInv, TypeOK, ReaderInv, PhaseInv, Fence, FirstSum, SecondSum, counters
  <2>4. ASSUME NEW i \in Shards, ReadStarted(i) PROVE TypeOK' /\ ReaderInv'
    BY <1>1, <2>4 DEF IInv, TypeOK, ReaderInv, ReadStarted, counters
  <2>5. CASE EndRead
    BY <1>1, <2>5 DEF IInv, TypeOK, ReaderInv, EndRead, FirstSum, SecondSum, counters
  <2>6. CASE ResetReader
    BY <1>1, <2>6 DEF IInv, TypeOK, ReaderInv, ResetReader, Nothing, counters
  <2> QED
    BY <2>1, <2>2, <2>3, <2>4, <2>5, <2>6 DEF ReaderStep
<1> QED
  BY <1>2, <1>4 DEF IInv

-----------------------------------------------------------------------------
\* The inductive invariant holds in every state.
THEOREM AccountingInvariant == Spec => []IInv
<1>1. Init => IInv
  BY DEF Init, IInv, TypeOK, PhaseInv, ReaderInv, Phases, Nothing
<1>2. IInv /\ [Next]_vars => IInv'
  <2> SUFFICES ASSUME IInv, [Next]_vars PROVE IInv'
    OBVIOUS
  <2>1. ASSUME NEW r \in Requests, RequestStep(r) PROVE IInv'
    BY <2>1, CountStartKeeps, CountFinishKeeps, OtherRequestStepsKeep DEF RequestStep
  <2>2. CASE ReaderStep
    BY <2>2, ReaderStepKeeps
  <2>3. CASE UNCHANGED vars
    BY <2>3 DEF vars, counters, readerVars, IInv, TypeOK, PhaseInv, ReaderInv
  <2> QED
    BY <2>1, <2>2, <2>3 DEF Next
<1> QED
  BY <1>1, <1>2, PTL DEF Spec

\* Every variable keeps its type.
THEOREM AccountingTypeCorrect == Spec => []TypeOK
<1>1. IInv => TypeOK
  BY DEF IInv
<1> QED
  BY <1>1, AccountingInvariant, PTL

\* The reported gauge is never negative: every finish summed has its start
\* summed.
THEOREM InFlightNeverNegative == Spec => []NeverNegative
<1>1. IInv => NeverNegative
  BY DEF IInv, ReaderInv, NeverNegative
<1> QED
  BY <1>1, AccountingInvariant, PTL

\* The reported gauge never falls short of the requests in flight throughout.
THEOREM InFlightNeverShort == Spec => []NeverShort
<1>1. IInv => NeverShort
  BY SumsAreUnions DEF IInv, ReaderInv, NeverShort
<1> QED
  BY <1>1, AccountingInvariant, PTL

\* The reported gauge never includes what was over before it was read.
THEOREM InFlightNeverPast == Spec => []NeverPast
<1>1. IInv => NeverPast
  BY DEF IInv, ReaderInv, NeverPast
<1> QED
  BY <1>1, AccountingInvariant, PTL

\* The global gauge and the rows' gauges agree outside the updates.
THEOREM GaugesAlwaysAgree == Spec => []GaugesAgree
<1>1. IInv => GaugesAgree
  BY SumsAreUnions DEF IInv, TypeOK, PhaseInv, GaugesAgree, InFlight, Phases
<1> QED
  BY <1>1, AccountingInvariant, PTL
=============================================================================
