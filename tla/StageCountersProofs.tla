------------------------ MODULE StageCountersProofs ------------------------
(***************************************************************************)
(* For every set of threads and any number of stages and samples: the      *)
(* threads that record run the index pool as ThreadIndexPool says, the     *)
(* pool is an allocator of the least free index, an unlocked load and      *)
(* store of a stage's counter always adds one to what is there, so that    *)
(* the counters hold exactly what was recorded, and a reading of a stage   *)
(* is between the counts at its begin and at its end.                      *)
(***************************************************************************)
EXTENDS StageCounters, ThreadIndexPoolProofs

\* Everything the threads do is a step of the pool or leaves it alone.
LEMMA CountersStepsAreSteps ==
  ASSUME [CountersNext]_allVars
  PROVE  Next \/ UNCHANGED vars
<1>1. ASSUME NEW t \in Threads, PoolStep(t) PROVE Next
  BY <1>1 DEF PoolStep, Next
<1>2. ASSUME NEW t \in Threads,
             BeginRecord(t) \/ LoadCount(t) \/ StoreCount(t) \/ AddToRing(t)
      PROVE  UNCHANGED vars
  BY <1>2 DEF BeginRecord, LoadCount, StoreCount, AddToRing
<1>3. ASSUME StartRead \/ ReadCount \/ EndRead PROVE UNCHANGED vars
  BY <1>3 DEF StartRead, ReadCount, EndRead
<1>4. ASSUME UNCHANGED allVars PROVE UNCHANGED vars
  BY <1>4 DEF allVars
<1> QED
  BY <1>1, <1>2, <1>3, <1>4 DEF CountersNext

\* The pool under threads that record is the pool: all that is proved of Spec
\* holds of it.
THEOREM CountersRunThePool == CountersSpec => Spec
<1>1. CountersInit => Init
  BY DEF CountersInit
<1>2. [CountersNext]_allVars => [Next]_vars
  BY CountersStepsAreSteps
<1> QED
  BY <1>1, <1>2, PTL DEF CountersSpec, Spec

-----------------------------------------------------------------------------
\* What threads hold, as the allocator sees it.
LEMMA SameHeld ==
  ASSUME PoolInv
  PROVE  Allocator!Held = Held
<1>1. \A t \in Threads : t \in Live <=> index[t] # NoIndex
  BY DEF PoolInv, IInv, Live, NoIndex
<1> QED
  BY <1>1 DEF Allocator!Held, Held, Live

\* The pool implements the allocator: acquire takes the least index that no
\* thread holds, release gives it back, and nothing else changes who holds what.
THEOREM PoolIsAllocator == CountersSpec => ImplementsAllocator
<1>1. CountersInit => Allocator!Init
  BY DEF CountersInit, Init, Allocator!Init
<1>2. PoolInv /\ [CountersNext]_allVars => [Allocator!Next]_(Allocator!vars)
  <2> SUFFICES ASSUME PoolInv, [CountersNext]_allVars
               PROVE  Allocator!Next \/ UNCHANGED Allocator!vars
    OBVIOUS
  <2>1. CASE UNCHANGED vars
    BY <2>1 DEF vars, Allocator!vars
  <2>2. ASSUME NEW t \in Threads, Acquire(t) PROVE Allocator!Take(t)
    <3>1. index \in [Threads -> Nat \cup {NoIndex}] /\ index[t] = NoIndex
      BY <2>2 DEF PoolInv, IInv, TypeOK, Acquire
    <3>2. index' = [index EXCEPT ![t] = Popped] /\ index'[t] = Popped
      BY <2>2, <3>1 DEF Acquire
    <3> QED
      BY <3>1, <3>2, PoppedIsLeastFree, SameHeld DEF Allocator!Take
  <2>3. ASSUME NEW t \in Threads, Release(t) PROVE Allocator!Give(t)
    <3>1. index[t] \in Nat
      BY <2>3 DEF PoolInv, IInv, Release, Live
    <3> QED
      BY <2>3, <3>1 DEF Release, Allocator!Give, NoIndex
  <2>4. ASSUME NEW t \in Threads, Respawn(t) PROVE UNCHANGED Allocator!vars
    BY <2>4 DEF Respawn, Allocator!vars
  <2> QED
    BY <2>1, <2>2, <2>3, <2>4, CountersStepsAreSteps DEF Next, Allocator!Next
<1> QED
  BY <1>1, <1>2, PoolOrdered, CountersRunThePool, PTL DEF CountersSpec, ImplementsAllocator, Allocator!Spec

-----------------------------------------------------------------------------
(***************************************************************************)
(* The owner of a stage is the only one between its load and its store.    *)
(* What it loaded is still there because no one else owns the stage, it    *)
(* does not exit within a record, and the ring is not a stage.             *)
(***************************************************************************)
LoadsCurrent ==
  /\ count \in [SlotsOfSecond -> [Fields -> Nat]]
  /\ step \in [Threads -> Fields \cup {"idle"}]
  /\ \A t \in Threads : loaded[t] # Nothing =>
       /\ OwnsStage(t) /\ step[t] \in Fields
       /\ loaded[t] = count[index[t]][step[t]]

CountersInv ==
  /\ PoolInv
  /\ loaded \in [Threads -> Nat \cup {Nothing}]
  /\ LoadsCurrent

\* The stage of its owner is one of the slots, and not the ring's.
LEMMA OwnedStage ==
  ASSUME PoolInv, NEW t \in Threads, OwnsStage(t)
  PROVE  index[t] \in SlotsOfSecond /\ index[t] # Ring
<1>1. index[t] \in Nat /\ index[t] < MaxStages
  BY DEF PoolInv, IInv, OwnsStage, Live
<1> QED
  BY <1>1, StagesAssumption DEF SlotsOfSecond, Ring

\* Two owners own two stages.
LEMMA OwnersDiffer ==
  ASSUME PoolInv, NEW t \in Threads, NEW u \in Threads, t # u,
         OwnsStage(t), OwnsStage(u)
  PROVE  index[t] # index[u]
BY DEF PoolInv, IInv, IndicesPartitioned, OwnsStage, Live

\* The pool's steps leave alone every thread that has loaded something.
LEMMA PoolStepKeepsLoads ==
  ASSUME CountersInv, NEW t \in Threads, PoolStep(t)
  PROVE  LoadsCurrent'
<1>1. UNCHANGED counterVars
  BY DEF PoolStep
<1>2. ASSUME NEW u \in Threads, loaded[u] # Nothing
      PROVE  index'[u] = index[u] /\ OwnsStage(u)'
  <2>1. OwnsStage(u) /\ step[u] # "idle"
    BY <1>2 DEF CountersInv, LoadsCurrent, Fields
  <2>2. t # u
    BY <2>1 DEF PoolStep, Acquire, Release, Respawn, OwnsStage
  <2>3. index'[u] = index[u] /\ life'[u] = life[u]
    BY <2>2 DEF CountersInv, PoolInv, IInv, TypeOK, PoolStep, Acquire, Release, Respawn
  <2> QED
    BY <2>1, <2>3 DEF OwnsStage
<1> QED
  BY <1>1, <1>2 DEF CountersInv, LoadsCurrent, counterVars

\* A step of a record concerns one thread and one counter of one slot.
LEMMA RecordKeepsLoads ==
  ASSUME CountersInv, NEW t \in Threads,
         BeginRecord(t) \/ LoadCount(t) \/ StoreCount(t) \/ AddToRing(t)
  PROVE  LoadsCurrent' /\ loaded' \in [Threads -> Nat \cup {Nothing}]
<1>1. UNCHANGED vars /\ \A u \in Threads : OwnsStage(u)' = OwnsStage(u)
  BY DEF BeginRecord, LoadCount, StoreCount, AddToRing, vars, OwnsStage
<1>2. Proceed(t) => step' \in [Threads -> Fields \cup {"idle"}]
  BY DEF Proceed, After, Fields, CountersInv, LoadsCurrent
<1>3. Proceed(t) => \A u \in Threads : u # t => step'[u] = step[u]
  BY DEF Proceed, CountersInv, LoadsCurrent
<1>4. CASE BeginRecord(t)
  <2>1. loaded[t] = Nothing
    BY <1>4 DEF BeginRecord, CountersInv, LoadsCurrent, Fields
  <2>2. UNCHANGED <<count, loaded, index>> /\ Proceed(t)
    BY <1>4, <1>1 DEF BeginRecord, vars
  <2> QED
    BY <1>1, <1>2, <1>3, <2>1, <2>2 DEF CountersInv, LoadsCurrent
<1>5. CASE LoadCount(t)
  <2>1. OwnsStage(t) /\ step[t] \in Fields
    BY <1>5 DEF LoadCount, CountersInv, LoadsCurrent
  <2>2. index[t] \in SlotsOfSecond
    BY <2>1, OwnedStage DEF CountersInv
  <2>3. count[index[t]][step[t]] \in Nat
    BY <2>1, <2>2 DEF CountersInv, LoadsCurrent
  <2>4. /\ UNCHANGED <<count, step, index>>
        /\ loaded' = [loaded EXCEPT ![t] = count[index[t]][step[t]]]
    BY <1>5, <1>1 DEF LoadCount, vars
  <2>5. loaded' \in [Threads -> Nat \cup {Nothing}]
    BY <2>3, <2>4 DEF CountersInv
  <2>6. \A u \in Threads :
          loaded'[u] = IF u = t THEN count[index[t]][step[t]] ELSE loaded[u]
    BY <2>4 DEF CountersInv
  <2> QED
    BY <1>1, <2>1, <2>4, <2>5, <2>6 DEF CountersInv, LoadsCurrent
<1>6. CASE StoreCount(t)
  <2>1. OwnsStage(t) /\ step[t] \in Fields /\ loaded[t] \in Nat
    BY <1>6 DEF StoreCount, CountersInv, LoadsCurrent
  <2>2. index[t] \in SlotsOfSecond
    BY <2>1, OwnedStage DEF CountersInv
  <2>3. /\ count' = [count EXCEPT ![index[t]][step[t]] = loaded[t] + 1]
        /\ loaded' = [loaded EXCEPT ![t] = Nothing]
        /\ Proceed(t)
    BY <1>6 DEF StoreCount
  <2>4. count' \in [SlotsOfSecond -> [Fields -> Nat]]
    BY <2>1, <2>2, <2>3 DEF CountersInv, LoadsCurrent
  <2>5. \A p \in SlotsOfSecond : p # index[t] => count'[p] = count[p]
    BY <2>3 DEF CountersInv, LoadsCurrent
  <2>6. loaded' \in [Threads -> Nat \cup {Nothing}]
    BY <2>3 DEF CountersInv
  <2>7. ASSUME NEW u \in Threads, loaded'[u] # Nothing
        PROVE  /\ OwnsStage(u)' /\ step'[u] \in Fields
               /\ loaded'[u] = count'[index'[u]][step'[u]]
    <3>1. u # t /\ loaded'[u] = loaded[u]
      BY <2>3, <2>7 DEF CountersInv
    <3>2. OwnsStage(u) /\ step'[u] = step[u] /\ index'[u] = index[u]
      BY <1>1, <1>3, <2>3, <2>7, <3>1 DEF CountersInv, LoadsCurrent, vars
    <3>3. index[u] # index[t] /\ index[u] \in SlotsOfSecond
      BY <2>1, <3>1, <3>2, OwnersDiffer, OwnedStage DEF CountersInv
    <3> QED
      BY <1>1, <2>5, <2>7, <3>1, <3>2, <3>3 DEF CountersInv, LoadsCurrent
  <2> QED
    BY <1>2, <2>3, <2>4, <2>6, <2>7 DEF LoadsCurrent
<1>7. CASE AddToRing(t)
  <2>1. step[t] \in Fields /\ ~OwnsStage(t)
    BY <1>7 DEF AddToRing, CountersInv, LoadsCurrent
  <2>2. Ring \in SlotsOfSecond
    BY StagesAssumption DEF Ring, SlotsOfSecond
  <2>3. /\ count' = [count EXCEPT ![Ring][step[t]] = @ + 1]
        /\ loaded' = loaded
        /\ Proceed(t)
    BY <1>7 DEF AddToRing
  <2>4. count' \in [SlotsOfSecond -> [Fields -> Nat]]
    BY <2>1, <2>2, <2>3 DEF CountersInv, LoadsCurrent
  <2>5. \A p \in SlotsOfSecond : p # Ring => count'[p] = count[p]
    BY <2>3 DEF CountersInv, LoadsCurrent
  <2>6. ASSUME NEW u \in Threads, loaded'[u] # Nothing
        PROVE  /\ OwnsStage(u)' /\ step'[u] \in Fields
               /\ loaded'[u] = count'[index'[u]][step'[u]]
    <3>1. OwnsStage(u) /\ u # t /\ loaded'[u] = loaded[u] /\ index'[u] = index[u]
      BY <1>1, <2>1, <2>3, <2>6 DEF CountersInv, LoadsCurrent, vars
    <3>2. index[u] # Ring /\ index[u] \in SlotsOfSecond
      BY <3>1, OwnedStage DEF CountersInv
    <3>3. step'[u] = step[u]
      BY <1>3, <2>3, <3>1
    <3> QED
      BY <1>1, <2>3, <2>5, <2>6, <3>1, <3>2, <3>3 DEF CountersInv, LoadsCurrent
  <2> QED
    BY <1>2, <2>3, <2>4, <2>6 DEF LoadsCurrent, CountersInv
<1> QED
  BY <1>4, <1>5, <1>6, <1>7

\* What an owner loaded is current for as long as it has not stored.
THEOREM LoadsAlwaysCurrent == CountersSpec => []CountersInv
<1>1. CountersInit /\ PoolInv => CountersInv
  BY DEF CountersInit, CountersInv, LoadsCurrent, NoSums, Fields, Nothing
<1>2. CountersInv /\ PoolInv' /\ [CountersNext]_allVars => CountersInv'
  <2> SUFFICES ASSUME CountersInv, PoolInv', [CountersNext]_allVars
               PROVE  LoadsCurrent' /\ loaded' \in [Threads -> Nat \cup {Nothing}]
    BY DEF CountersInv
  <2>1. ASSUME NEW t \in Threads, PoolStep(t)
        PROVE  LoadsCurrent' /\ loaded' \in [Threads -> Nat \cup {Nothing}]
    BY <2>1, PoolStepKeepsLoads DEF CountersInv, PoolStep, counterVars
  <2>2. ASSUME NEW t \in Threads,
               BeginRecord(t) \/ LoadCount(t) \/ StoreCount(t) \/ AddToRing(t)
        PROVE  LoadsCurrent' /\ loaded' \in [Threads -> Nat \cup {Nothing}]
    BY <2>2, RecordKeepsLoads
  <2>3. CASE StartRead \/ ReadCount \/ EndRead \/ UNCHANGED allVars
    <3>1. UNCHANGED vars /\ UNCHANGED counterVars
      BY <2>3 DEF StartRead, ReadCount, EndRead, allVars
    <3> QED
      BY <3>1 DEF CountersInv, LoadsCurrent, vars, counterVars, OwnsStage
  <2> QED
    BY <2>1, <2>2, <2>3 DEF CountersNext
<1> QED
  BY <1>1, <1>2, PoolOrdered, CountersRunThePool, PTL DEF CountersSpec

AddsOne(t) == StoreCount(t) => count' = [count EXCEPT ![index[t]][step[t]] = @ + 1]

\* The load and the store of an owner are as good as one atomic addition: the
\* store always adds one to what is there, so no increment is lost, however
\* threads start, exit and inherit stages (histogram.rs:193-201).
THEOREM StoresLoseNothing == CountersSpec => [][\A t \in Threads : AddsOne(t)]_allVars
<1>1. ASSUME CountersInv, NEW t \in Threads PROVE AddsOne(t)
  <2> SUFFICES ASSUME StoreCount(t)
               PROVE  count' = [count EXCEPT ![index[t]][step[t]] = @ + 1]
    BY DEF AddsOne
  <2>1. loaded[t] = count[index[t]][step[t]]
    BY <1>1 DEF CountersInv, LoadsCurrent, StoreCount
  <2> QED
    BY <2>1 DEF StoreCount
<1>2. CountersInv /\ [CountersNext]_allVars => [\A t \in Threads : AddsOne(t)]_allVars
  BY <1>1
<1> QED
  BY <1>2, LoadsAlwaysCurrent, PTL DEF CountersSpec

-----------------------------------------------------------------------------
(***************************************************************************)
(* What the counters add up to.  The additions made are the sum over all   *)
(* slots; what a read has summed, and what it will find in the slots that  *)
(* are left, is between the additions when it began and those made so far. *)
(* It needs two facts about what the reader skips: a slot without requests *)
(* has no other counts, and nothing is going on in it beyond a request;    *)
(* and a stage beyond live_indices has never been anyone's.                *)
(***************************************************************************)
Sum(c, f, S) == FoldFunctionOnSet(LAMBDA slot, sum : slot[f] + sum, 0, c, S)

SlotOf(t) == IF OwnsStage(t) THEN index[t] ELSE Ring

\* Threads in the middle of a record have an index, or had one.
Recorders == \A t \in Threads : step[t] # "idle" => life[t] # "new"

EmptyMeansEmpty ==
  \A p \in SlotsOfSecond : count[p]["requests"] = 0 =>
    /\ \A f \in Fields : count[p][f] = 0
    /\ \A t \in Threads : SlotOf(t) = p => step[t] \in {"idle", "requests"}

UnusedEmpty ==
  \A p \in SlotsOfSecond : p # Ring /\ p >= LiveIndices => \A f \in Fields : count[p][f] = 0

TallyInv ==
  /\ CountersInv
  /\ Recorders
  /\ EmptyMeansEmpty
  /\ UnusedEmpty
  /\ added \in [Fields -> Nat]
  /\ CountersExact

\* The counters of a slot that Slot::read has not loaded yet.
Ahead ==
  IF reader.next = "requests" THEN Fields
  ELSE IF reader.next = "errors" THEN {"errors", "latency"} ELSE {"latency"}

\* The slots whose counter f the read will still add.
Unread(f) ==
  {p \in SlotsOfSecond :
     /\ reader.at \in SlotsOfSecond
     /\ IF p = reader.at THEN f \in Ahead
        ELSE p = Ring \/ (reader.at < p /\ p < reader.limit)}

ReaderTyped ==
  reader \in [at : {NotReading} \cup (0..AllRead), limit : 0..MaxStages, next : Fields,
              sums : [Fields -> Nat], before : [Fields -> Nat]]

SumsBetween ==
  reader.at # NotReading =>
    \A f \in Fields :
      /\ reader.before[f] <= reader.sums[f] + Sum(count, f, Unread(f))
      /\ reader.sums[f] + Sum(count, f, Unread(f)) <= added[f]

ReadInv == TallyInv /\ ReaderTyped /\ SumsBetween

-----------------------------------------------------------------------------
(***************************************************************************)
(* Sums over finite sets.  A fold is a recursive function, of which the    *)
(* provers know nothing but its defining equation; that there is such a    *)
(* function, and what it adds up to, follows from the least set for which  *)
(* it would not.                                                           *)
(***************************************************************************)
First(s) == CHOOSE x \in s : TRUE

IsSum(iter, c, f, S) ==
  iter = [s \in SUBSET S |-> IF s = {} THEN 0 ELSE c[First(s)][f] + iter[s \ {First(s)}]]

LEMMA SumUnfold ==
  ASSUME NEW c, NEW f, NEW S
  PROVE  Sum(c, f, S) = (CHOOSE iter : IsSum(iter, c, f, S))[S]
BY DEF Sum, IsSum, First, FoldFunctionOnSet, MapThenFoldSet

\* Among subsets of a finite set there is one none of whose proper subsets is.
LEMMA LeastSet ==
  ASSUME NEW S, IsFiniteSet(S), NEW T, T \subseteq SUBSET S, T # {}
  PROVE  \E s \in T : \A t \in T : t \subseteq s => t = s
<1> DEFINE R == StrictSubsetOrdering(S)
<1>1. IsWellFoundedOn(R, FiniteSubsetsOf(S))
  BY FS_StrictSubsetOrderingWellFounded
<1>2. T \subseteq FiniteSubsetsOf(S)
  BY FS_Subset DEF FiniteSubsetsOf
<1>3. \A s, t \in SUBSET S : t \subseteq s /\ t # s => <<t, s>> \in R
  BY DEF StrictSubsetOrdering
<1> HIDE DEF R
<1>4. PICK s \in T : \A t \in T : ~(<<t, s>> \in R)
  BY <1>1, <1>2, WFMin
<1>5. \A t \in T : t \subseteq s => t = s
  BY <1>3, <1>4
<1> QED
  BY <1>5

LEMMA FirstIs ==
  ASSUME NEW s, s # {}
  PROVE  First(s) \in s
BY DEF First

\* Two functions that add up are the same function.
LEMMA SumUnique ==
  ASSUME NEW c, NEW f, NEW S, IsFiniteSet(S), NEW g, NEW h,
         IsSum(g, c, f, S), IsSum(h, c, f, S)
  PROVE  g[S] = h[S]
<1> DEFINE T == {s \in SUBSET S : g[s] # h[s]}
<1>1. CASE T = {}
  BY <1>1
<1>2. CASE T # {}
  <2>1. PICK s \in T : \A t \in T : t \subseteq s => t = s
    <3>1. T \subseteq SUBSET S
      OBVIOUS
    <3> HIDE DEF T
    <3> QED
      BY <1>2, <3>1, LeastSet
  <2>2. s \subseteq S /\ g[s] # h[s]
    OBVIOUS
  <2>3. /\ g[s] = IF s = {} THEN 0 ELSE c[First(s)][f] + g[s \ {First(s)}]
        /\ h[s] = IF s = {} THEN 0 ELSE c[First(s)][f] + h[s \ {First(s)}]
    BY <2>2 DEF IsSum
  <2>4. s # {}
    BY <2>2, <2>3
  <2>5. First(s) \in s
    BY <2>4, FirstIs
  <2>6. g[s \ {First(s)}] = h[s \ {First(s)}]
    BY <2>1, <2>2, <2>5
  <2> QED
    BY <2>2, <2>3, <2>4, <2>6
<1> QED
  BY <1>1, <1>2

\* The sum over one set, in terms of the sums over smaller ones.
SumStep(c, f, s) ==
  Sum(c, f, s) = IF s = {} THEN 0 ELSE c[First(s)][f] + Sum(c, f, s \ {First(s)})

LEMMA SumSteps ==
  ASSUME NEW c, NEW f, NEW S, IsFiniteSet(S)
  PROVE  SumStep(c, f, S)
<1> DEFINE T == {s \in SUBSET S : ~SumStep(c, f, s)}
<1>1. CASE T = {}
  BY <1>1
<1>2. CASE T # {}
  <2>1. PICK u \in T : \A t \in T : t \subseteq u => t = u
    <3>1. T \subseteq SUBSET S
      OBVIOUS
    <3> HIDE DEF T
    <3> QED
      BY <1>2, <3>1, LeastSet
  <2>2. u \subseteq S /\ ~SumStep(c, f, u) /\ IsFiniteSet(u)
    BY FS_Subset
  <2>3. \A t \in SUBSET u : t # u => SumStep(c, f, t)
    BY <2>1, <2>2
  <2> DEFINE it == [s \in SUBSET u |->
                      IF s = {} THEN 0 ELSE c[First(s)][f] + Sum(c, f, s \ {First(s)})]
  <2>4. \A t \in SUBSET u : t # u => it[t] = Sum(c, f, t)
    BY <2>3 DEF SumStep
  <2>5. \A s \in SUBSET u : s # {} =>
          s \ {First(s)} \in SUBSET u /\ s \ {First(s)} # u
    BY FirstIs
  <2>6. \A s \in SUBSET u : s # {} => it[s \ {First(s)}] = Sum(c, f, s \ {First(s)})
    BY <2>4, <2>5
  <2>7. IsSum(it, c, f, u)
    <3> DEFINE jt == [s \in SUBSET u |->
                        IF s = {} THEN 0 ELSE c[First(s)][f] + it[s \ {First(s)}]]
    <3>1. \A s \in SUBSET u : it[s] = jt[s]
      BY <2>6
    <3>2. it = jt
      BY <3>1
    <3> QED
      BY <3>2 DEF IsSum
  <2> HIDE DEF it
  <2>8. IsSum(CHOOSE iter : IsSum(iter, c, f, u), c, f, u)
    BY <2>7
  <2>9. Sum(c, f, u) = it[u]
    BY <2>2, <2>7, <2>8, SumUnfold, SumUnique
  <2>10. it[u] = IF u = {} THEN 0 ELSE c[First(u)][f] + Sum(c, f, u \ {First(u)})
    BY DEF it
  <2> QED
    BY <2>2, <2>9, <2>10 DEF SumStep
<1> QED
  BY <1>1, <1>2

\* Every one of the slots S has a number of f.
Counted(c, f, S) == \A p \in S : c[p][f] \in Nat

LEMMA SumTyped ==
  ASSUME NEW f, NEW S, IsFiniteSet(S), NEW c, Counted(c, f, S)
  PROVE  Sum(c, f, S) \in Nat
<1> DEFINE T == {s \in SUBSET S : Sum(c, f, s) \notin Nat}
<1>1. CASE T = {}
  BY <1>1
<1>2. CASE T # {}
  <2>1. PICK s \in T : \A t \in T : t \subseteq s => t = s
    <3>1. T \subseteq SUBSET S
      OBVIOUS
    <3> HIDE DEF T
    <3> QED
      BY <1>2, <3>1, LeastSet
  <2>2. s \subseteq S /\ Sum(c, f, s) \notin Nat /\ IsFiniteSet(s)
    BY FS_Subset
  <2>3. SumStep(c, f, s)
    BY <2>2, SumSteps
  <2>4. s # {}
    BY <2>2, <2>3 DEF SumStep
  <2>5. First(s) \in s
    BY <2>4, FirstIs
  <2>6. Sum(c, f, s \ {First(s)}) \in Nat
    BY <2>1, <2>2, <2>5
  <2>7. c[First(s)][f] \in Nat
    BY <2>2, <2>5 DEF Counted
  <2> HIDE DEF T
  <2> QED
    BY <2>2, <2>3, <2>4, <2>6, <2>7 DEF SumStep
<1> QED
  BY <1>1, <1>2

\* Any element may be taken out first.
LEMMA SumRemove ==
  ASSUME NEW f, NEW S, IsFiniteSet(S), NEW c, Counted(c, f, S)
  PROVE  \A p \in S : Sum(c, f, S) = c[p][f] + Sum(c, f, S \ {p})
<1> DEFINE Removes(s) == \A p \in s : Sum(c, f, s) = c[p][f] + Sum(c, f, s \ {p})
           T == {s \in SUBSET S : ~Removes(s)}
<1>1. CASE T = {}
  BY <1>1
<1>2. CASE T # {}
  <2>1. PICK s \in T : \A t \in T : t \subseteq s => t = s
    <3>1. T \subseteq SUBSET S
      OBVIOUS
    <3> HIDE DEF T
    <3> QED
      BY <1>2, <3>1, LeastSet
  <2>2. s \subseteq S /\ ~Removes(s) /\ IsFiniteSet(s)
    BY FS_Subset
  <2>3. \A t \in SUBSET s : t # s => Removes(t)
    BY <2>1, <2>2
  <2>4. \A t \in SUBSET s : Sum(c, f, t) \in Nat
    <3>1. ASSUME NEW t \in SUBSET s PROVE IsFiniteSet(t) /\ Counted(c, f, t)
      BY <2>2, FS_Subset DEF Counted
    <3> QED
      BY <3>1, SumTyped
  <2> HIDE DEF T
  <2>5. ASSUME NEW p \in s PROVE Sum(c, f, s) = c[p][f] + Sum(c, f, s \ {p})
    <3> DEFINE x == First(s)
    <3>1. x \in s
      BY FirstIs
    <3>2. Sum(c, f, s) = c[x][f] + Sum(c, f, s \ {x})
      BY <2>2, SumSteps DEF SumStep
    <3> HIDE DEF x
    <3>3. CASE x = p
      BY <3>2, <3>3
    <3>4. CASE x # p
      <4>1. Sum(c, f, s \ {x}) = c[p][f] + Sum(c, f, (s \ {x}) \ {p})
        BY <2>3, <3>1, <3>4
      <4>2. Sum(c, f, s \ {p}) = c[x][f] + Sum(c, f, (s \ {p}) \ {x})
        BY <2>3, <3>1, <3>4
      <4>3. (s \ {p}) \ {x} = (s \ {x}) \ {p}
        OBVIOUS
      <4>4. c[x][f] \in Nat /\ c[p][f] \in Nat /\ Sum(c, f, (s \ {x}) \ {p}) \in Nat
        BY <2>2, <2>4, <3>1 DEF Counted
      <4> DEFINE rest == Sum(c, f, (s \ {x}) \ {p})
      <4>5. Sum(c, f, s) = c[x][f] + (c[p][f] + rest)
        BY <3>2, <4>1
      <4>6. Sum(c, f, s \ {p}) = c[x][f] + rest
        BY <4>2, <4>3
      <4>7. c[x][f] \in Nat /\ c[p][f] \in Nat /\ rest \in Nat
        BY <4>4
      <4> HIDE DEF rest
      <4> QED
        BY <4>5, <4>6, <4>7
    <3> QED
      BY <3>3, <3>4
  <2> QED
    BY <2>2, <2>5
<1> QED
  BY <1>1, <1>2

LEMMA SumWithout ==
  ASSUME NEW f, NEW S, IsFiniteSet(S), NEW c, Counted(c, f, S), NEW p \in S
  PROVE  Sum(c, f, S) = c[p][f] + Sum(c, f, S \ {p})
BY SumRemove

\* Only what is summed counts.
LEMMA SumSame ==
  ASSUME NEW f, NEW S, IsFiniteSet(S), NEW c, NEW d, \A p \in S : d[p][f] = c[p][f]
  PROVE  Sum(d, f, S) = Sum(c, f, S)
<1> DEFINE T == {s \in SUBSET S : Sum(d, f, s) # Sum(c, f, s)}
<1>1. CASE T = {}
  BY <1>1
<1>2. CASE T # {}
  <2>1. PICK s \in T : \A t \in T : t \subseteq s => t = s
    <3>1. T \subseteq SUBSET S
      OBVIOUS
    <3> HIDE DEF T
    <3> QED
      BY <1>2, <3>1, LeastSet
  <2>2. s \subseteq S /\ Sum(d, f, s) # Sum(c, f, s) /\ IsFiniteSet(s)
    BY FS_Subset
  <2>3. SumStep(c, f, s) /\ SumStep(d, f, s)
    BY <2>2, SumSteps
  <2>4. s # {}
    BY <2>2, <2>3 DEF SumStep
  <2>5. First(s) \in s
    BY <2>4, FirstIs
  <2>6. Sum(d, f, s \ {First(s)}) = Sum(c, f, s \ {First(s)})
    BY <2>1, <2>2, <2>5
  <2>7. d[First(s)][f] = c[First(s)][f]
    BY <2>2, <2>5
  <2> HIDE DEF T
  <2> QED
    BY <2>2, <2>3, <2>4, <2>6, <2>7 DEF SumStep
<1> QED
  BY <1>1, <1>2

\* Two functions that agree but for one slot.
AgreeBut(c, d, f, S, p) == \A q \in S \ {p} : d[q][f] = c[q][f]

LEMMA SumsApart ==
  ASSUME NEW f, NEW S, IsFiniteSet(S), NEW c, NEW d, Counted(c, f, S), Counted(d, f, S),
         NEW p \in S, AgreeBut(c, d, f, S, p)
  PROVE  /\ Sum(c, f, S) = c[p][f] + Sum(c, f, S \ {p})
         /\ Sum(d, f, S) = d[p][f] + Sum(c, f, S \ {p})
         /\ Sum(c, f, S \ {p}) \in Nat
<1>1. IsFiniteSet(S \ {p}) /\ Counted(c, f, S \ {p})
  BY FS_Subset DEF Counted
<1>2. Sum(c, f, S \ {p}) \in Nat
  BY <1>1, SumTyped
<1>3. Sum(d, f, S \ {p}) = Sum(c, f, S \ {p})
  BY <1>1, SumSame DEF AgreeBut
<1>4. ASSUME NEW e, Counted(e, f, S)
      PROVE  Sum(e, f, S) = e[p][f] + Sum(e, f, S \ {p})
  BY <1>4, SumWithout
<1>5. /\ Sum(c, f, S) = c[p][f] + Sum(c, f, S \ {p})
      /\ Sum(d, f, S) = d[p][f] + Sum(d, f, S \ {p})
  BY <1>4
<1> QED
  BY <1>2, <1>3, <1>4, <1>5

\* One more in one slot is one more in all.
OneMore(c, d, f, p) == d[p][f] = c[p][f] + 1

LEMMA SumAdds ==
  ASSUME NEW f, NEW S, IsFiniteSet(S), NEW c, Counted(c, f, S),
         NEW p \in S, NEW d, OneMore(c, d, f, p), AgreeBut(c, d, f, S, p)
  PROVE  Sum(d, f, S) = Sum(c, f, S) + 1
<1>1. c[p][f] \in Nat /\ d[p][f] \in Nat
  BY DEF Counted, OneMore
<1>2. Counted(d, f, S)
  <2>1. \A q \in S : q = p \/ q \in S \ {p}
    OBVIOUS
  <2> QED
    BY <1>1, <2>1 DEF Counted, AgreeBut
<1>3. /\ Sum(c, f, S) = c[p][f] + Sum(c, f, S \ {p})
      /\ Sum(d, f, S) = d[p][f] + Sum(c, f, S \ {p})
      /\ Sum(c, f, S \ {p}) \in Nat
  BY <1>2, SumsApart
<1> QED
  BY <1>1, <1>3 DEF OneMore

\* What is zero may be left out.
LEMMA SumZeros ==
  ASSUME NEW f, NEW S, IsFiniteSet(S), NEW c, Counted(c, f, S),
         NEW U \in SUBSET S, \A p \in S \ U : c[p][f] = 0
  PROVE  Sum(c, f, S) = Sum(c, f, U)
<1> DEFINE T == {s \in SUBSET S : U \subseteq s /\ Sum(c, f, s) # Sum(c, f, U)}
<1>1. CASE T = {}
  BY <1>1
<1>2. CASE T # {}
  <2>1. PICK s \in T : \A t \in T : t \subseteq s => t = s
    <3>1. T \subseteq SUBSET S
      OBVIOUS
    <3> HIDE DEF T
    <3> QED
      BY <1>2, <3>1, LeastSet
  <2>2. s \subseteq S /\ U \subseteq s /\ Sum(c, f, s) # Sum(c, f, U) /\ IsFiniteSet(s)
    BY FS_Subset
  <2>3. PICK p \in s : p \notin U
    BY <2>2
  <2>4. Sum(c, f, s) = c[p][f] + Sum(c, f, s \ {p}) /\ c[p][f] = 0
    <3>1. Counted(c, f, s)
      BY <2>2 DEF Counted
    <3> QED
      BY <2>2, <2>3, <3>1, SumRemove
  <2>5. Sum(c, f, s \ {p}) = Sum(c, f, U)
    BY <2>1, <2>2, <2>3
  <2>6. Sum(c, f, U) \in Nat
    <3>1. IsFiniteSet(U) /\ Counted(c, f, U)
      BY FS_Subset DEF Counted
    <3> QED
      BY <3>1, SumTyped
  <2> HIDE DEF T
  <2> QED
    BY <2>2, <2>4, <2>5, <2>6
<1> QED
  BY <1>1, <1>2

-----------------------------------------------------------------------------
(* The tally.                                                              *)

LEMMA SlotsFinite ==
  /\ IsFiniteSet(SlotsOfSecond) /\ Ring \in SlotsOfSecond
  /\ \A S \in SUBSET SlotsOfSecond : IsFiniteSet(S)
  /\ SlotsOfSecond \subseteq Nat /\ Ring \in Nat
<1>1. MaxStages \in Nat
  BY StagesAssumption
<1>2. IsFiniteSet(0..MaxStages)
  BY <1>1, FS_Interval
<1>3. SlotsOfSecond = 0..MaxStages /\ Ring = MaxStages
  BY DEF SlotsOfSecond, Ring
<1>4. \A S \in SUBSET (0..MaxStages) : IsFiniteSet(S)
  BY <1>2, FS_Subset
<1>5. \A p \in 0..MaxStages : p \in Nat
  BY <1>1
<1> QED
  BY <1>1, <1>2, <1>3, <1>4, <1>5

LEMMA CountsCounted ==
  ASSUME CountersInv, NEW f \in Fields, NEW S \in SUBSET SlotsOfSecond
  PROVE  Counted(count, f, S) /\ Sum(count, f, S) \in Nat
<1>1. Counted(count, f, S)
  BY DEF CountersInv, LoadsCurrent, Counted
<1> QED
  BY <1>1, SlotsFinite, SumTyped

LEMMA ExactAsSum == CountersExact <=> \A f \in Fields : Sum(count, f, SlotsOfSecond) = added[f]
<1>1. \A f \in Fields : Total(f) = Sum(count, f, SlotsOfSecond)
  BY DEF Total, Sum, FoldFunctionOnSet, MapThenFoldSet
<1> QED
  BY <1>1 DEF CountersExact

LEMMA ExactIfSame ==
  ASSUME CountersExact, UNCHANGED <<count, added>>
  PROVE  CountersExact'
<1>1. \A f \in Fields : Total(f)' = Sum(count', f, SlotsOfSecond)
  BY DEF Total, Sum, FoldFunctionOnSet, MapThenFoldSet
<1>2. \A f \in Fields : Sum(count, f, SlotsOfSecond) = added[f]
  BY ExactAsSum
<1> QED
  BY <1>1, <1>2 DEF CountersExact

\* Where a thread adds, and that an owned stage is below live_indices.
LEMMA SlotOfThread ==
  ASSUME PoolInv, NEW t \in Threads
  PROVE  /\ SlotOf(t) \in SlotsOfSecond
         /\ SlotOf(t) # Ring => SlotOf(t) < LiveIndices
<1>1. CASE OwnsStage(t)
  <2>1. index[t] \in SlotsOfSecond /\ index[t] # Ring
    BY <1>1, OwnedStage
  <2>2. index[t] \in 0..(next - 1) /\ index[t] < MaxStages
    BY <1>1 DEF PoolInv, IInv, IndicesPartitioned, OwnsStage, Held, Live
  <2>3. next \in Nat /\ MaxStages \in Nat
    BY StagesAssumption DEF PoolInv, IInv, TypeOK
  <2> QED
    BY <1>1, <2>1, <2>2, <2>3 DEF SlotOf, LiveIndices
<1>2. CASE ~OwnsStage(t)
  BY <1>2, SlotsFinite DEF SlotOf
<1> QED
  BY <1>1, <1>2

\* A store after a load and an atomic addition are the same step.
AddsAt(t) ==
  /\ step[t] \in Fields
  /\ count' = [count EXCEPT ![SlotOf(t)][step[t]] = @ + 1]
  /\ added' = [added EXCEPT ![step[t]] = @ + 1]
  /\ Proceed(t)
  /\ UNCHANGED <<vars, reader>>

LEMMA RecordingAdds ==
  ASSUME CountersInv, NEW t \in Threads, StoreCount(t) \/ AddToRing(t)
  PROVE  AddsAt(t)
<1>1. step[t] \in Fields
  BY DEF CountersInv, LoadsCurrent, StoreCount, AddToRing
<1>2. CASE StoreCount(t)
  <2>1. loaded[t] = count[index[t]][step[t]] /\ SlotOf(t) = index[t]
    BY <1>2 DEF CountersInv, LoadsCurrent, StoreCount, SlotOf
  <2> QED
    BY <1>1, <1>2, <2>1 DEF StoreCount, AddsAt
<1>3. CASE AddToRing(t)
  BY <1>1, <1>3 DEF AddToRing, AddsAt, SlotOf
<1> QED
  BY <1>2, <1>3

\* What the step does to each counter and each thread.
LEMMA AddsAtEach ==
  ASSUME CountersInv, NEW t \in Threads, AddsAt(t), added \in [Fields -> Nat]
  PROVE  /\ SlotOf(t) \in SlotsOfSecond
         /\ \A q \in SlotsOfSecond, f \in Fields :
              count'[q][f] = IF q = SlotOf(t) /\ f = step[t] THEN count[q][f] + 1
                             ELSE count[q][f]
         /\ \A f \in Fields :
              added'[f] = IF f = step[t] THEN added[f] + 1 ELSE added[f]
         /\ added' \in [Fields -> Nat]
         /\ \A u \in Threads : /\ u # t => step'[u] = step[u]
                               /\ SlotOf(u)' = SlotOf(u) /\ life'[u] = life[u]
<1>1. SlotOf(t) \in SlotsOfSecond
  BY SlotOfThread DEF CountersInv
<1>2. \A q \in SlotsOfSecond, f \in Fields :
              count'[q][f] = IF q = SlotOf(t) /\ f = step[t] THEN count[q][f] + 1
                             ELSE count[q][f]
  BY <1>1 DEF AddsAt, CountersInv, LoadsCurrent
<1>3. /\ \A f \in Fields : added'[f] = IF f = step[t] THEN added[f] + 1 ELSE added[f]
      /\ added' \in [Fields -> Nat]
  BY DEF AddsAt
<1>4. \A u \in Threads : u # t => step'[u] = step[u]
  BY DEF AddsAt, Proceed, CountersInv, LoadsCurrent
<1>5. \A u \in Threads : SlotOf(u)' = SlotOf(u) /\ life'[u] = life[u]
  BY DEF AddsAt, vars, SlotOf, OwnsStage
<1> QED
  BY <1>1, <1>2, <1>3, <1>4, <1>5

\* The sum over some slots grows by one if the slot is among them.
LEMMA AddsToSum ==
  ASSUME CountersInv, NEW t \in Threads, AddsAt(t), added \in [Fields -> Nat],
         NEW f \in Fields, NEW S \in SUBSET SlotsOfSecond
  PROVE  Sum(count', f, S) = IF f = step[t] /\ SlotOf(t) \in S THEN Sum(count, f, S) + 1
                             ELSE Sum(count, f, S)
<1>1. IsFiniteSet(S) /\ Counted(count, f, S)
  BY SlotsFinite, CountsCounted
<1>2. \A q \in S : count'[q][f] = IF q = SlotOf(t) /\ f = step[t] THEN count[q][f] + 1
                                  ELSE count[q][f]
  BY AddsAtEach
<1>3. CASE f = step[t] /\ SlotOf(t) \in S
  <2>1. OneMore(count, count', f, SlotOf(t)) /\ AgreeBut(count, count', f, S, SlotOf(t))
    BY <1>2, <1>3 DEF OneMore, AgreeBut
  <2> QED
    BY <1>1, <1>3, <2>1, SumAdds
<1>4. CASE ~(f = step[t] /\ SlotOf(t) \in S)
  <2>1. \A q \in S : count'[q][f] = count[q][f]
    BY <1>2, <1>4
  <2> QED
    BY <1>1, <1>4, <2>1, SumSame
<1> QED
  BY <1>3, <1>4

LEMMA AddingKeepsTally ==
  ASSUME TallyInv, NEW t \in Threads, AddsAt(t)
  PROVE  /\ Recorders' /\ EmptyMeansEmpty' /\ UnusedEmpty'
         /\ added' \in [Fields -> Nat] /\ CountersExact'
<1> DEFINE p == SlotOf(t)
<1>1. /\ p \in SlotsOfSecond
      /\ \A q \in SlotsOfSecond, f \in Fields :
           count'[q][f] = IF q = p /\ f = step[t] THEN count[q][f] + 1 ELSE count[q][f]
      /\ \A f \in Fields : added'[f] = IF f = step[t] THEN added[f] + 1 ELSE added[f]
      /\ added' \in [Fields -> Nat]
  BY AddsAtEach DEF TallyInv
<1>2. \A u \in Threads : /\ u # t => step'[u] = step[u]
                         /\ SlotOf(u)' = SlotOf(u) /\ life'[u] = life[u]
  BY AddsAtEach DEF TallyInv
<1>3. step[t] \in Fields /\ UNCHANGED vars
  BY DEF AddsAt
<1>4. \A q \in SlotsOfSecond, f \in Fields : count[q][f] \in Nat
  BY DEF TallyInv, CountersInv, LoadsCurrent
<1>5. p # Ring => p < LiveIndices
  BY SlotOfThread DEF TallyInv, CountersInv
<1> HIDE DEF p
<1>6. Recorders'
  BY <1>2, <1>3 DEF Recorders, TallyInv, Fields
<1>7. EmptyMeansEmpty'
  <2> SUFFICES ASSUME NEW q \in SlotsOfSecond, count'[q]["requests"] = 0
               PROVE  /\ \A f \in Fields : count'[q][f] = 0
                      /\ \A u \in Threads : SlotOf(u)' = q => step'[u] \in {"idle", "requests"}
    BY DEF EmptyMeansEmpty
  <2>1. "requests" \in Fields
    BY DEF Fields
  <2>2. count[q]["requests"] = 0 /\ ~(q = p /\ step[t] = "requests")
    BY <1>1, <1>4, <2>1
  <2>3. /\ \A f \in Fields : count[q][f] = 0
        /\ \A u \in Threads : SlotOf(u) = q => step[u] \in {"idle", "requests"}
    BY <2>2 DEF TallyInv, EmptyMeansEmpty
  <2>4. q # p
    BY <1>3, <2>2, <2>3 DEF p, Fields
  <2>5. \A f \in Fields : count'[q][f] = 0
    BY <1>1, <2>3, <2>4
  <2>6. \A u \in Threads : SlotOf(u)' = q => step'[u] \in {"idle", "requests"}
    BY <1>2, <2>3, <2>4 DEF p
  <2> QED
    BY <2>5, <2>6
<1>8. UnusedEmpty'
  <2>1. LiveIndices' = LiveIndices
    BY <1>3 DEF vars, LiveIndices
  <2> SUFFICES ASSUME NEW q \in SlotsOfSecond, q # Ring, q >= LiveIndices, NEW f \in Fields
               PROVE  count'[q][f] = 0
    BY <2>1 DEF UnusedEmpty
  <2>2. count[q][f] = 0
    BY DEF TallyInv, UnusedEmpty
  <2>3. q # p
    <3>1. q \in Nat /\ LiveIndices \in Nat
      BY SlotsFinite, StagesAssumption
         DEF LiveIndices, TallyInv, CountersInv, PoolInv, IInv, TypeOK
    <3> QED
      BY <1>5, <3>1
  <2> QED
    BY <1>1, <2>2, <2>3
<1>9. CountersExact'
  <2>1. ASSUME NEW f \in Fields PROVE Sum(count', f, SlotsOfSecond) = added'[f]
    <3>1. Sum(count, f, SlotsOfSecond) = added[f]
      BY ExactAsSum DEF TallyInv
    <3>2. Sum(count', f, SlotsOfSecond) =
            IF f = step[t] THEN Sum(count, f, SlotsOfSecond) + 1
            ELSE Sum(count, f, SlotsOfSecond)
      BY <1>1, AddsToSum DEF TallyInv, p
    <3> QED
      BY <1>1, <3>1, <3>2
  <2>2. \A f \in Fields : Total(f)' = Sum(count', f, SlotsOfSecond)
    BY DEF Total, Sum, FoldFunctionOnSet, MapThenFoldSet
  <2> QED
    BY <2>1, <2>2 DEF CountersExact
<1> QED
  BY <1>1, <1>6, <1>7, <1>8, <1>9

\* The pool moves threads that are not in a record, and live_indices only grows.
LEMMA PoolKeepsTally ==
  ASSUME TallyInv, NEW t \in Threads, PoolStep(t)
  PROVE  /\ Recorders' /\ EmptyMeansEmpty' /\ UnusedEmpty'
         /\ added' \in [Fields -> Nat] /\ CountersExact'
<1>1. UNCHANGED <<count, step, added>> /\ next \in Nat
  BY DEF PoolStep, counterVars, TallyInv, CountersInv, PoolInv, IInv, TypeOK
<1>2. step[t] = "idle"
  BY DEF PoolStep, Acquire, TallyInv, Recorders
<1>3. \A u \in Threads : u # t => life'[u] = life[u] /\ index'[u] = index[u]
  BY DEF PoolStep, Acquire, Release, Respawn, TallyInv, CountersInv, PoolInv, IInv, TypeOK
<1>4. \A u \in Threads : u # t => SlotOf(u)' = SlotOf(u)
  BY <1>3 DEF SlotOf, OwnsStage
<1>5. Recorders'
  BY <1>1, <1>2, <1>3 DEF Recorders, TallyInv
<1>6. EmptyMeansEmpty'
  <2> SUFFICES ASSUME NEW q \in SlotsOfSecond, count[q]["requests"] = 0
               PROVE  /\ \A f \in Fields : count[q][f] = 0
                      /\ \A u \in Threads : SlotOf(u)' = q => step[u] \in {"idle", "requests"}
    BY <1>1 DEF EmptyMeansEmpty
  <2>1. /\ \A f \in Fields : count[q][f] = 0
        /\ \A u \in Threads : SlotOf(u) = q => step[u] \in {"idle", "requests"}
    BY DEF TallyInv, EmptyMeansEmpty
  <2> QED
    BY <1>2, <1>4, <2>1
<1>7. UnusedEmpty'
  <2>1. next' \in {next, next + 1}
    BY DEF PoolStep, Acquire, Release, Respawn
  <2>2. LiveIndices' >= LiveIndices /\ LiveIndices \in Nat /\ LiveIndices' \in Nat
    BY <1>1, <2>1, StagesAssumption DEF LiveIndices
  <2>3. \A q \in SlotsOfSecond : q >= LiveIndices' => q >= LiveIndices
    BY <2>2, SlotsFinite
  <2> QED
    BY <1>1, <2>3 DEF TallyInv, UnusedEmpty
<1>8. added' \in [Fields -> Nat]
  BY <1>1 DEF TallyInv
<1>9. CountersExact'
  BY <1>1, ExactIfSame DEF TallyInv
<1> QED
  BY <1>5, <1>6, <1>7, <1>8, <1>9

\* Nothing is added.
LEMMA NothingAddedKeepsTally ==
  ASSUME TallyInv, UNCHANGED <<vars, count, added>>,
         \A u \in Threads :
           step'[u] = step[u] \/ (step'[u] = "requests" /\ life[u] # "new")
  PROVE  /\ Recorders' /\ EmptyMeansEmpty' /\ UnusedEmpty'
         /\ added' \in [Fields -> Nat] /\ CountersExact'
<1>1. \A u \in Threads : SlotOf(u)' = SlotOf(u) /\ life'[u] = life[u]
  BY DEF vars, SlotOf, OwnsStage
<1>2. LiveIndices' = LiveIndices
  BY DEF vars, LiveIndices
<1>3. Recorders' /\ UnusedEmpty' /\ added' \in [Fields -> Nat]
  BY <1>1, <1>2 DEF TallyInv, Recorders, UnusedEmpty
<1>4. EmptyMeansEmpty'
  <2> SUFFICES ASSUME NEW q \in SlotsOfSecond, count[q]["requests"] = 0
               PROVE  /\ \A f \in Fields : count[q][f] = 0
                      /\ \A u \in Threads : SlotOf(u)' = q => step'[u] \in {"idle", "requests"}
    BY DEF EmptyMeansEmpty
  <2>1. /\ \A f \in Fields : count[q][f] = 0
        /\ \A u \in Threads : SlotOf(u) = q => step[u] \in {"idle", "requests"}
    BY DEF TallyInv, EmptyMeansEmpty
  <2> QED
    BY <1>1, <2>1
<1>5. CountersExact'
  BY ExactIfSame DEF TallyInv
<1> QED
  BY <1>3, <1>4, <1>5

LEMMA BeginsWithRequests ==
  ASSUME CountersInv, NEW t \in Threads, BeginRecord(t)
  PROVE  \A u \in Threads :
           step'[u] = step[u] \/ (step'[u] = "requests" /\ life[u] # "new")
<1>1. After("idle") = {"requests"}
  BY DEF After
<1>2. step' = [step EXCEPT ![t] = "requests"] /\ life[t] # "new"
  BY <1>1 DEF BeginRecord, Proceed
<1> QED
  BY <1>2 DEF CountersInv, LoadsCurrent

LEMMA TallyKept == TallyInv /\ CountersInv' /\ [CountersNext]_allVars => TallyInv'
<1> SUFFICES ASSUME TallyInv, CountersInv', [CountersNext]_allVars PROVE TallyInv'
  OBVIOUS
<1> DEFINE Goal == /\ Recorders' /\ EmptyMeansEmpty' /\ UnusedEmpty'
                   /\ added' \in [Fields -> Nat] /\ CountersExact'
<1>1. ASSUME NEW t \in Threads, PoolStep(t) PROVE Goal
  BY <1>1, PoolKeepsTally
<1>2. ASSUME NEW t \in Threads, BeginRecord(t) PROVE Goal
  BY <1>2, BeginsWithRequests, NothingAddedKeepsTally DEF BeginRecord, TallyInv
<1>3. ASSUME NEW t \in Threads, LoadCount(t) PROVE Goal
  BY <1>3, NothingAddedKeepsTally DEF LoadCount
<1>4. ASSUME NEW t \in Threads, StoreCount(t) \/ AddToRing(t) PROVE Goal
  BY <1>4, RecordingAdds, AddingKeepsTally DEF TallyInv
<1>5. ASSUME StartRead \/ ReadCount \/ EndRead \/ UNCHANGED allVars PROVE Goal
  <2>1. UNCHANGED <<vars, count, added, step>>
    BY <1>5 DEF StartRead, ReadCount, EndRead, allVars, counterVars
  <2>2. \A u \in Threads : step'[u] = step[u] \/ (step'[u] = "requests" /\ life[u] # "new")
    BY <2>1
  <2>3. UNCHANGED <<vars, count, added>>
    BY <2>1
  <2> QED
    BY <2>2, <2>3, NothingAddedKeepsTally
<1> HIDE DEF Goal
<1>6. ASSUME CountersNext PROVE Goal
  BY <1>1, <1>2, <1>3, <1>4, <1>5, <1>6 DEF CountersNext
<1>7. Goal
  BY <1>5, <1>6
<1> QED
  BY <1>7 DEF Goal, TallyInv

-----------------------------------------------------------------------------
(* The read.                                                               *)

\* What the reader still adds does not depend on anyone else.
LEMMA UnreadSlots ==
  ASSUME NEW f
  PROVE  Unread(f) \in SUBSET SlotsOfSecond
BY DEF Unread

LEMMA UnreadStays ==
  ASSUME UNCHANGED reader
  PROVE  \A f \in Fields : Unread(f)' = Unread(f)
BY DEF Unread, Ahead

\* Additions are seen or not, and count as made.
LEMMA AddingKeepsSums ==
  ASSUME ReadInv, NEW t \in Threads, AddsAt(t)
  PROVE  SumsBetween'
<1>1. reader' = reader /\ \A f \in Fields : Unread(f)' = Unread(f)
  BY UnreadStays DEF AddsAt
<1>2. /\ CountersInv /\ added \in [Fields -> Nat]
      /\ \A f \in Fields : added'[f] = IF f = step[t] THEN added[f] + 1 ELSE added[f]
  BY AddsAtEach DEF ReadInv, TallyInv
<1> SUFFICES ASSUME reader.at # NotReading, NEW f \in Fields
             PROVE  /\ reader.before[f] <= reader.sums[f] + Sum(count', f, Unread(f))
                    /\ reader.sums[f] + Sum(count', f, Unread(f)) <= added'[f]
  BY <1>1 DEF SumsBetween, Sum, FoldFunctionOnSet, MapThenFoldSet
<1>3. /\ reader.before[f] <= reader.sums[f] + Sum(count, f, Unread(f))
      /\ reader.sums[f] + Sum(count, f, Unread(f)) <= added[f]
  BY DEF ReadInv, SumsBetween
<1>4. Sum(count', f, Unread(f)) \in {Sum(count, f, Unread(f)), Sum(count, f, Unread(f)) + 1}
      /\ (f # step[t] => Sum(count', f, Unread(f)) = Sum(count, f, Unread(f)))
  BY <1>2, AddsToSum, UnreadSlots
<1>5. Sum(count, f, Unread(f)) \in Nat
  BY <1>2, CountsCounted, UnreadSlots
<1>6. reader.before[f] \in Nat /\ reader.sums[f] \in Nat /\ added[f] \in Nat
  BY <1>2 DEF ReadInv, ReaderTyped
<1> HIDE DEF Sum
<1> QED
  BY <1>2, <1>3, <1>4, <1>5, <1>6

\* At the start everything that counts is unread: the stages from live_indices on
\* are empty.
LEMMA StartKeepsSums ==
  ASSUME ReadInv, StartRead
  PROVE  ReaderTyped' /\ SumsBetween'
<1>1. /\ reader' = [at |-> IF Limit = 0 THEN Ring ELSE 0, limit |-> Limit,
                    next |-> "requests", sums |-> NoSums, before |-> added]
      /\ UNCHANGED <<count, added>>
  BY DEF StartRead, counterVars
<1>2. Limit \in 0..MaxStages /\ LiveIndices = Limit /\ Limit \in Nat /\ MaxStages \in Nat
  BY StagesAssumption
     DEF Limit, LiveIndices, ReadInv, TallyInv, CountersInv, PoolInv, IInv, TypeOK
<1>3. /\ CountersInv /\ added \in [Fields -> Nat] /\ UnusedEmpty
      /\ \A f \in Fields : Sum(count, f, SlotsOfSecond) = added[f]
  BY ExactAsSum DEF ReadInv, TallyInv
<1>4. ReaderTyped'
  <2>1. /\ reader'.at \in {NotReading} \cup (0..AllRead) /\ NoSums \in [Fields -> Nat]
        /\ "requests" \in Fields
    BY <1>1, <1>2 DEF Ring, AllRead, NoSums, Fields
  <2> QED
    BY <1>1, <1>2, <1>3, <2>1 DEF ReaderTyped
<1>5. ASSUME NEW f \in Fields
      PROVE  Unread(f)' = {p \in SlotsOfSecond : p = Ring \/ p < Limit}
  <2>1. reader'.next = "requests" /\ reader'.limit = Limit
    BY <1>1
  <2>2. Ahead' = Fields
    BY <2>1 DEF Ahead
  <2>3. reader'.at \in SlotsOfSecond
    BY <1>1, <1>2 DEF SlotsOfSecond, Ring
  <2>4. Unread(f)' = {p \in SlotsOfSecond :
                        p = reader'.at \/ p = Ring \/ (reader'.at < p /\ p < Limit)}
    BY <2>1, <2>2, <2>3, <1>5 DEF Unread
  <2>5. \A p \in SlotsOfSecond :
          (p = reader'.at \/ p = Ring \/ (reader'.at < p /\ p < Limit)) <=> (p = Ring \/ p < Limit)
    <3>1. CASE Limit = 0
      BY <1>1, <1>2, <3>1 DEF SlotsOfSecond, Ring
    <3>2. CASE Limit # 0
      BY <1>1, <1>2, <3>2 DEF SlotsOfSecond, Ring
    <3> QED
      BY <3>1, <3>2
  <2> QED
    BY <2>4, <2>5
<1>6. ASSUME NEW f \in Fields PROVE Sum(count, f, Unread(f)') = added[f]
  <2> DEFINE U == {p \in SlotsOfSecond : p = Ring \/ p < Limit}
  <2>1. \A p \in SlotsOfSecond \ U : count[p][f] = 0
    BY <1>2, <1>3, SlotsFinite DEF UnusedEmpty
  <2>2. Counted(count, f, SlotsOfSecond) /\ IsFiniteSet(SlotsOfSecond)
    BY <1>3, CountsCounted, SlotsFinite
  <2>3. U \in SUBSET SlotsOfSecond
    OBVIOUS
  <2> HIDE DEF U
  <2>4. Sum(count, f, SlotsOfSecond) = Sum(count, f, U)
    BY <2>1, <2>2, <2>3, SumZeros
  <2> QED
    BY <1>3, <1>5, <2>4 DEF U
<1>7. SumsBetween'
  <2>1. \A f \in Fields : reader'.before[f] = added[f] /\ reader'.sums[f] = 0 /\ added[f] \in Nat
    BY <1>1, <1>3 DEF NoSums
  <2>2. \A f \in Fields : Sum(count', f, Unread(f)') = added[f]
    BY <1>1, <1>6
  <2> SUFFICES ASSUME NEW f \in Fields
               PROVE  /\ reader'.before[f] <= reader'.sums[f] + Sum(count', f, Unread(f)')
                      /\ reader'.sums[f] + Sum(count', f, Unread(f)') <= added'[f]
    BY DEF SumsBetween, Sum, FoldFunctionOnSet, MapThenFoldSet
  <2> QED
    BY <1>1, <2>1, <2>2
<1> QED
  BY <1>4, <1>7

\* The counter that is read, and whether its slot is done with.
Value == count[reader.at][reader.next]
Over == reader.next = "latency" \/ (reader.next = "requests" /\ Value = 0)

LEMMA ReadCountSteps ==
  ASSUME ReadInv, ReadCount
  PROVE  /\ reader.at \in SlotsOfSecond /\ reader.next \in Fields /\ Value \in Nat
         /\ reader'.at = IF Over THEN NextPlace ELSE reader.at
         /\ reader'.next = IF Over THEN "requests"
                           ELSE IF reader.next = "requests" THEN "errors" ELSE "latency"
         /\ reader'.limit = reader.limit /\ reader'.before = reader.before
         /\ \A f \in Fields : reader'.sums[f] =
              IF f = reader.next THEN reader.sums[f] + Value ELSE reader.sums[f]
         /\ ReaderTyped'
         /\ UNCHANGED <<count, added>>
<1>1. /\ reader.at \in SlotsOfSecond
      /\ reader' = [reader EXCEPT
           !.sums[reader.next] = @ + Value,
           !.at = IF Over THEN NextPlace ELSE @,
           !.next = IF Over THEN "requests"
                    ELSE IF @ = "requests" THEN "errors" ELSE "latency"]
      /\ UNCHANGED <<count, added>>
  BY DEF ReadCount, Value, Over, counterVars
<1>2. ReaderTyped
  BY DEF ReadInv
<1>3. reader.next \in Fields /\ Value \in Nat
  BY <1>1, <1>2 DEF ReaderTyped, Value, ReadInv, TallyInv, CountersInv, LoadsCurrent
<1>4. /\ reader'.at = IF Over THEN NextPlace ELSE reader.at
      /\ reader'.next = IF Over THEN "requests"
                        ELSE IF reader.next = "requests" THEN "errors" ELSE "latency"
      /\ reader'.limit = reader.limit /\ reader'.before = reader.before
      /\ reader'.sums = [reader.sums EXCEPT ![reader.next] = @ + Value]
  BY <1>1, <1>2 DEF ReaderTyped
<1>5. \A f \in Fields : reader'.sums[f] =
        IF f = reader.next THEN reader.sums[f] + Value ELSE reader.sums[f]
  BY <1>2, <1>4 DEF ReaderTyped
<1>6. ReaderTyped'
  <2>1. NextPlace \in 0..AllRead /\ reader.at \in 0..AllRead
    BY <1>1, <1>2, StagesAssumption DEF NextPlace, SlotsOfSecond, Ring, AllRead, ReaderTyped
  <2>2. reader'.at \in {NotReading} \cup (0..AllRead)
    BY <1>4, <2>1
  <2>3. reader'.next \in Fields
    BY <1>4 DEF Fields
  <2>4. reader'.sums \in [Fields -> Nat]
    BY <1>2, <1>3, <1>4 DEF ReaderTyped
  <2>5. reader' = [at |-> reader'.at, limit |-> reader'.limit, next |-> reader'.next,
                   sums |-> reader'.sums, before |-> reader'.before]
    BY <1>1, <1>2 DEF ReaderTyped
  <2> QED
    BY <1>2, <1>4, <2>2, <2>3, <2>4, <2>5 DEF ReaderTyped
<1> QED
  BY <1>1, <1>3, <1>4, <1>5, <1>6

\* A step takes the slot out of what is unread: for the counter that is read, and
\* for all of them when the slot is done with.
LEMMA ReadCountUnread ==
  ASSUME ReadInv, ReadCount, NEW f \in Fields
  PROVE  Unread(f)' = IF f = reader.next \/ Over THEN Unread(f) \ {reader.at} ELSE Unread(f)
<1> DEFINE p == reader.at
           Later == {q \in SlotsOfSecond :
                       q # p /\ (q = Ring \/ (p < q /\ q < reader.limit))}
<1>1. /\ reader.at \in SlotsOfSecond /\ reader.next \in Fields
      /\ reader'.at = IF Over THEN NextPlace ELSE reader.at
      /\ reader'.next = IF Over THEN "requests"
                        ELSE IF reader.next = "requests" THEN "errors" ELSE "latency"
      /\ reader'.limit = reader.limit
  BY ReadCountSteps
<1>2. Unread(f) = Later \cup (IF f \in Ahead THEN {p} ELSE {})
  BY <1>1 DEF Unread
<1>3. CASE ~Over
  <2>1. reader'.at = p /\ reader'.limit = reader.limit
    BY <1>1, <1>3
  <2>2. Unread(f)' = Later \cup (IF f \in Ahead' THEN {p} ELSE {})
    BY <1>1, <2>1 DEF Unread
  <2>3. reader.next # "latency"
    BY <1>3 DEF Over
  <2>4. f \in Ahead' <=> f \in Ahead /\ f # reader.next
    BY <1>1, <1>3, <2>3 DEF Ahead, Fields
  <2>5. p \notin Later
    OBVIOUS
  <2> HIDE DEF Later, p
  <2> QED
    BY <1>2, <1>3, <2>2, <2>4, <2>5 DEF p
<1>4. CASE Over
  <2>1. reader'.at = NextPlace /\ reader'.limit = reader.limit /\ Ahead' = Fields
    BY <1>1, <1>4 DEF Ahead
  <2>2. MaxStages \in Nat /\ reader.limit \in 0..MaxStages /\ p \in 0..MaxStages
    BY <1>1, StagesAssumption DEF ReadInv, ReaderTyped, SlotsOfSecond
  <2>3. Unread(f)' = {q \in SlotsOfSecond :
                        /\ NextPlace \in SlotsOfSecond
                        /\ q = NextPlace \/ q = Ring \/ (NextPlace < q /\ q < reader.limit)}
    <3>1. Unread(f)' = {q \in SlotsOfSecond :
                         /\ reader'.at \in SlotsOfSecond
                         /\ IF q = reader'.at THEN f \in Ahead'
                            ELSE q = Ring \/ (reader'.at < q /\ q < reader'.limit)}
      BY DEF Unread
    <3> QED
      BY <2>1, <3>1
  <2>4. ASSUME NEW q \in SlotsOfSecond
        PROVE  (/\ NextPlace \in SlotsOfSecond
                /\ q = NextPlace \/ q = Ring \/ (NextPlace < q /\ q < reader.limit))
               <=> q # p /\ (q = Ring \/ (p < q /\ q < reader.limit))
    <3>1. q \in 0..MaxStages
      BY DEF SlotsOfSecond
    <3>2. CASE p = Ring
      BY <2>2, <3>1, <3>2 DEF NextPlace, SlotsOfSecond, Ring, AllRead
    <3>3. CASE p # Ring /\ p + 1 < reader.limit
      BY <2>2, <3>1, <3>3 DEF NextPlace, SlotsOfSecond, Ring
    <3>4. CASE p # Ring /\ ~(p + 1 < reader.limit)
      BY <2>2, <3>1, <3>4 DEF NextPlace, SlotsOfSecond, Ring
    <3> QED
      BY <3>2, <3>3, <3>4
  <2>5. Unread(f)' = Later
    BY <2>3, <2>4
  <2>6. p \notin Later
    OBVIOUS
  <2> HIDE DEF Later, p
  <2> QED
    BY <1>2, <1>4, <2>5, <2>6 DEF p
<1> QED
  BY <1>3, <1>4

LEMMA SumOfCounts ==
  ASSUME CountersInv, NEW f \in Fields, NEW S \in SUBSET SlotsOfSecond, NEW p \in S
  PROVE  Sum(count, f, S) = count[p][f] + Sum(count, f, S \ {p})
<1>1. Counted(count, f, S) /\ IsFiniteSet(S)
  BY CountsCounted, SlotsFinite
<1> QED
  BY <1>1, SumWithout

\* What moves from what is unread to what is summed is the same number.
LEMMA ReadCountKeepsSums ==
  ASSUME ReadInv, ReadCount
  PROVE  ReaderTyped' /\ SumsBetween'
<1> DEFINE p == reader.at
<1>1. /\ p \in SlotsOfSecond /\ reader.next \in Fields /\ Value \in Nat
      /\ reader'.before = reader.before
      /\ \A f \in Fields : reader'.sums[f] =
           IF f = reader.next THEN reader.sums[f] + Value ELSE reader.sums[f]
      /\ ReaderTyped'
      /\ UNCHANGED <<count, added>>
  BY ReadCountSteps
<1>2. CountersInv /\ EmptyMeansEmpty /\ added \in [Fields -> Nat] /\ reader.at # NotReading
  BY <1>1, SlotsFinite DEF ReadInv, TallyInv, NotReading
<1>3. ASSUME NEW f \in Fields
      PROVE  reader'.sums[f] + Sum(count, f, Unread(f)') = reader.sums[f] + Sum(count, f, Unread(f))
  <2>1. /\ Unread(f) \in SUBSET SlotsOfSecond /\ Unread(f) \ {p} \in SUBSET SlotsOfSecond
        /\ reader.sums[f] \in Nat
    BY UnreadSlots DEF ReadInv, ReaderTyped
  <2>2. /\ Counted(count, f, Unread(f)) /\ IsFiniteSet(Unread(f))
        /\ Sum(count, f, Unread(f) \ {p}) \in Nat
    BY <1>2, <2>1, CountsCounted, SlotsFinite
  <2>3. p \in Unread(f) => Sum(count, f, Unread(f)) = count[p][f] + Sum(count, f, Unread(f) \ {p})
    BY <1>2, <2>1, SumOfCounts
  <2>4. Unread(f)' = IF f = reader.next \/ Over THEN Unread(f) \ {p} ELSE Unread(f)
    BY ReadCountUnread
  <2>5. CASE f = reader.next
    <3>1. f \in Ahead /\ Value = count[p][f]
      BY <2>5 DEF Ahead, Fields, Value
    <3>2. p \in Unread(f)
      BY <1>1, <3>1 DEF Unread
    <3>3. Unread(f)' = Unread(f) \ {p} /\ reader'.sums[f] = reader.sums[f] + Value
      BY <1>1, <2>4, <2>5
    <3> QED
      BY <1>1, <2>1, <2>2, <2>3, <3>1, <3>2, <3>3
  <2>6. CASE f # reader.next /\ Over
    <3>1. Unread(f)' = Unread(f) \ {p} /\ reader'.sums[f] = reader.sums[f]
      BY <1>1, <2>4, <2>6
    <3>2. CASE p \in Unread(f)
      <4>1. f \in Ahead
        BY <3>2 DEF Unread
      <4>2. reader.next = "requests" /\ count[p]["requests"] = 0
        BY <2>6, <4>1 DEF Over, Ahead, Value
      <4>3. count[p][f] = 0
        BY <1>1, <1>2, <4>2 DEF EmptyMeansEmpty
      <4> QED
        BY <2>1, <2>2, <2>3, <3>1, <3>2, <4>3
    <3>3. CASE p \notin Unread(f)
      <4>1. Unread(f) \ {p} = Unread(f)
        BY <3>3
      <4> QED
        BY <3>1, <4>1
    <3> QED
      BY <3>2, <3>3
  <2>7. CASE f # reader.next /\ ~Over
    BY <1>1, <2>4, <2>7
  <2> QED
    BY <2>5, <2>6, <2>7
<1>4. SumsBetween'
  <2> SUFFICES ASSUME NEW f \in Fields
               PROVE  /\ reader'.before[f] <= reader'.sums[f] + Sum(count', f, Unread(f)')
                      /\ reader'.sums[f] + Sum(count', f, Unread(f)') <= added'[f]
    BY DEF SumsBetween, Sum, FoldFunctionOnSet, MapThenFoldSet
  <2>1. /\ reader.before[f] <= reader.sums[f] + Sum(count, f, Unread(f))
        /\ reader.sums[f] + Sum(count, f, Unread(f)) <= added[f]
    BY <1>2 DEF ReadInv, SumsBetween
  <2>2. reader'.sums[f] + Sum(count', f, Unread(f)') = reader.sums[f] + Sum(count, f, Unread(f))
    BY <1>1, <1>3
  <2> QED
    BY <1>1, <2>1, <2>2
<1> QED
  BY <1>1, <1>4

\* Nothing is added, and the reader is where it was.
LEMMA OthersKeepSums ==
  ASSUME ReadInv, UNCHANGED <<count, added, reader>>
  PROVE  SumsBetween'
<1>1. \A f \in Fields : Unread(f)' = Unread(f)
  BY UnreadStays
<1> SUFFICES ASSUME reader.at # NotReading, NEW f \in Fields
             PROVE  /\ reader.before[f] <= reader.sums[f] + Sum(count', f, Unread(f))
                    /\ reader.sums[f] + Sum(count', f, Unread(f)) <= added'[f]
  BY <1>1 DEF SumsBetween, Sum, FoldFunctionOnSet, MapThenFoldSet
<1>2. /\ reader.before[f] <= reader.sums[f] + Sum(count, f, Unread(f))
      /\ reader.sums[f] + Sum(count, f, Unread(f)) <= added[f]
  BY DEF ReadInv, SumsBetween
<1> QED
  BY <1>2

LEMMA ReadKept == ReadInv /\ TallyInv' /\ [CountersNext]_allVars => ReadInv'
<1> SUFFICES ASSUME ReadInv, TallyInv', [CountersNext]_allVars PROVE ReadInv'
  OBVIOUS
<1> DEFINE Goal == ReaderTyped' /\ SumsBetween'
<1>1. ASSUME NEW t \in Threads, StoreCount(t) \/ AddToRing(t) PROVE Goal
  <2>1. AddsAt(t)
    BY <1>1, RecordingAdds DEF ReadInv, TallyInv
  <2> QED
    BY <2>1, AddingKeepsSums DEF AddsAt, ReadInv, ReaderTyped
<1>2. ASSUME UNCHANGED <<count, added, reader>> PROVE Goal
  BY <1>2, OthersKeepSums DEF ReadInv, ReaderTyped
<1>3. ASSUME NEW t \in Threads, PoolStep(t) \/ BeginRecord(t) \/ LoadCount(t) PROVE Goal
  BY <1>2, <1>3 DEF PoolStep, BeginRecord, LoadCount, counterVars
<1>4. ASSUME UNCHANGED allVars PROVE Goal
  BY <1>2, <1>4 DEF allVars, counterVars
<1>5. ASSUME StartRead PROVE Goal
  BY <1>5, StartKeepsSums
<1>6. ASSUME ReadCount PROVE Goal
  BY <1>6, ReadCountKeepsSums
<1>7. ASSUME EndRead PROVE Goal
  <2>1. reader' = [reader EXCEPT !.at = NotReading, !.limit = 0,
                                 !.sums = NoSums, !.before = NoSums]
    BY <1>7 DEF EndRead
  <2>2. NoSums \in [Fields -> Nat] /\ 0 \in 0..MaxStages
    BY StagesAssumption DEF NoSums
  <2>3. ReaderTyped' /\ reader'.at = NotReading
    BY <2>1, <2>2 DEF ReadInv, ReaderTyped
  <2> QED
    BY <2>3 DEF SumsBetween
<1> HIDE DEF Goal
<1>8. ASSUME CountersNext PROVE Goal
  BY <1>1, <1>3, <1>5, <1>6, <1>7, <1>8 DEF CountersNext
<1>9. Goal
  BY <1>4, <1>8
<1> QED
  BY <1>9 DEF Goal, ReadInv

LEMMA TallyInit == CountersInit /\ CountersInv => ReadInv
<1> SUFFICES ASSUME CountersInit, CountersInv PROVE ReadInv
  OBVIOUS
<1>1. /\ \A p \in SlotsOfSecond, f \in Fields : count[p][f] = 0
      /\ \A t \in Threads : step[t] = "idle"
      /\ added \in [Fields -> Nat] /\ \A f \in Fields : added[f] = 0
  BY DEF CountersInit, NoSums
<1>2. Recorders /\ EmptyMeansEmpty /\ UnusedEmpty
  BY <1>1 DEF Recorders, EmptyMeansEmpty, UnusedEmpty
<1>3. CountersExact
  <2>1. ASSUME NEW f \in Fields PROVE Sum(count, f, SlotsOfSecond) = 0
    <3>1. Counted(count, f, SlotsOfSecond) /\ IsFiniteSet(SlotsOfSecond)
      BY CountsCounted, SlotsFinite
    <3>2. {} \in SUBSET SlotsOfSecond /\ \A p \in SlotsOfSecond \ {} : count[p][f] = 0
      BY <1>1
    <3>3. Sum(count, f, SlotsOfSecond) = Sum(count, f, {})
      BY <3>1, <3>2, SumZeros
    <3>4. IsFiniteSet({})
      BY FS_EmptySet
    <3>5. Sum(count, f, {}) = 0
      BY <3>4, SumSteps DEF SumStep
    <3> QED
      BY <3>3, <3>5
  <2> QED
    BY <1>1, <2>1, ExactAsSum
<1>4. ReaderTyped /\ SumsBetween
  <2>1. NoSums \in [Fields -> Nat] /\ 0 \in 0..MaxStages /\ "requests" \in Fields
    BY StagesAssumption DEF NoSums, Fields
  <2>2. ReaderTyped /\ reader.at = NotReading
    BY <2>1 DEF CountersInit, ReaderTyped
  <2> QED
    BY <2>2 DEF SumsBetween
<1> QED
  BY <1>1, <1>2, <1>3, <1>4 DEF ReadInv, TallyInv

LEMMA ReadAlways == CountersSpec => []ReadInv
<1>1. CountersInit /\ CountersInv => ReadInv
  BY TallyInit
<1>2. ReadInv /\ CountersInv' /\ [CountersNext]_allVars => ReadInv'
  <2>1. ReadInv /\ CountersInv' /\ [CountersNext]_allVars => TallyInv'
    BY TallyKept DEF ReadInv
  <2> QED
    BY <2>1, ReadKept
<1> QED
  BY <1>1, <1>2, LoadsAlwaysCurrent, PTL DEF CountersSpec

\* The counters of all stages and the ring slot add up to the additions made: none
\* is lost to a load and a store, nor made twice, however threads start, exit and
\* inherit stages in the middle of a read (histogram.rs:193-201, shard.rs:94-97).
THEOREM CountersAlwaysExact == CountersSpec => []CountersExact
<1>1. ReadInv => CountersExact
  BY DEF ReadInv, TallyInv
<1> QED
  BY <1>1, ReadAlways, PTL

\* A read without a lock ends between the counts it began with and those it ended
\* with, counter by counter, though it leaves out the stages from live_indices on,
\* skips slots without requests, and everything moves under it.
THEOREM ReadsAlwaysBetween == CountersSpec => []ReadBetween
<1>1. ReadInv => ReadBetween
  <2> SUFFICES ASSUME ReadInv, reader.at = AllRead, NEW f \in Fields
               PROVE  reader.before[f] <= reader.sums[f] /\ reader.sums[f] <= added[f]
    BY DEF ReadBetween
  <2>1. reader.at \notin SlotsOfSecond /\ reader.at # NotReading
    BY StagesAssumption DEF AllRead, Ring, SlotsOfSecond, NotReading
  <2>2. Unread(f) = {}
    BY <2>1 DEF Unread
  <2>3. IsFiniteSet({})
    BY FS_EmptySet
  <2>4. Sum(count, f, Unread(f)) = 0
    BY <2>2, <2>3, SumSteps DEF SumStep
  <2>5. /\ reader.before[f] <= reader.sums[f] + Sum(count, f, Unread(f))
        /\ reader.sums[f] + Sum(count, f, Unread(f)) <= added[f]
    BY <2>1 DEF ReadInv, SumsBetween
  <2>6. reader.sums[f] \in Nat
    BY DEF ReadInv, ReaderTyped
  <2> QED
    BY <2>4, <2>5, <2>6
<1> QED
  BY <1>1, ReadAlways, PTL
=============================================================================
