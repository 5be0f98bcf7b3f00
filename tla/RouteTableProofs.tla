------------------------- MODULE RouteTableProofs -------------------------
(***************************************************************************)
(* For any threads, requests, keys and size of the table: the caches of    *)
(* the threads agree with the table as soon as their generation is the     *)
(* current one, rows leave the table by eviction only, a row that looks    *)
(* cold holds nothing but what is about to expire, and evictions keep      *)
(* their order, whichever lines the threads stamp.                         *)
(***************************************************************************)
EXTENDS RouteTable, FiniteSetTheorems, TLAPS

\* The places of a thread that resolves a request, and of one that completes one.
ResolvingPCs == {"probe", "touch", "read", "write", "scan", "bump", "insert", "count"}
CompletingPCs == {"stamp", "sample"}
WritingPCs == {"scan", "bump", "insert"}

\* What the place of a thread says of its request, and who holds the write lock.
ControlOK ==
  /\ \A t \in Threads :
       /\ pc[t] \in ResolvingPCs =>
            /\ cur[t] \in Requests /\ state[cur[t]] = "starting"
            /\ key[cur[t]] \in Keys
       /\ pc[t] \in CompletingPCs =>
            /\ cur[t] \in Requests /\ state[cur[t]] = "completing"
            /\ handle[cur[t]] \in Requests
       /\ pc[t] \in {"touch", "count"} => found[t] \in Requests
       /\ pc[t] \in WritingPCs <=> writer = t
  /\ \A t, u \in Threads :
       t # u /\ pc[t] # "idle" /\ pc[u] # "idle" => cur[t] # cur[u]
  /\ \A r \in Requests :
       state[r] \in {"flying", "completing", "observed"} => handle[r] \in Requests

\* The invariant of the threads.
ThreadsInv == TypeOK /\ ControlOK

-----------------------------------------------------------------------------
(* Stamps.                                                                 *)

\* Among the sets that f assigns to the elements of a finite set there is a minimal
\* one: the form in which the library's well-foundedness of inclusion can be used.
LEMMA MinimalImage ==
  ASSUME NEW S, IsFiniteSet(S), S # {}, NEW f, \A x \in S : f[x] \subseteq S
  PROVE  \E x \in S : \A y \in S : f[y] \subseteq f[x] => f[y] = f[x]
<1> DEFINE R == StrictSubsetOrdering(S)
           X == {f[x] : x \in S}
<1>1. IsWellFoundedOn(R, SUBSET S)
  BY FS_StrictSubsetOrderingWellFounded, FS_FiniteSubsetsOfFinite
<1>2. \A A, B \in SUBSET S : B \subseteq A /\ B # A => <<B, A>> \in R
  BY DEF StrictSubsetOrdering
<1>3. X \subseteq SUBSET S /\ X # {}
  OBVIOUS
<1>4. \E A \in X : \A B \in X : ~(<<B, A>> \in R)
  <2> HIDE DEF R, X
  <2> QED
    BY <1>1, <1>3, WFMin
<1>5. PICK x \in S : \A y \in S : ~(<<f[y], f[x]>> \in R)
  BY <1>4
<1> QED
  BY <1>2, <1>5

\* The elements that are not below an element of a finite set.
LEMMA MinimalAbove ==
  ASSUME NEW S, IsFiniteSet(S), S # {}
  PROVE  \E x \in S : \A y \in S :
           {z \in S : z >= y} \subseteq {z \in S : z >= x}
             => {z \in S : z >= y} = {z \in S : z >= x}
<1> DEFINE f == [x \in S |-> {y \in S : y >= x}]
<1>1. \A x \in S : f[x] \subseteq S
  OBVIOUS
<1>2. \E x \in S : \A y \in S : f[y] \subseteq f[x] => f[y] = f[x]
  <2> HIDE DEF f
  <2> QED
    BY <1>1, MinimalImage
<1> QED
  BY <1>2

\* A finite set of numbers has a largest one.
LEMMA MaxExists ==
  ASSUME NEW S, S \subseteq Nat, IsFiniteSet(S), S # {}
  PROVE  Max(S) \in S /\ \A x \in S : x <= Max(S)
<1> DEFINE Above(x) == {z \in S : z >= x}
<1>1. PICK x \in S : \A y \in S : Above(y) \subseteq Above(x) => Above(y) = Above(x)
  BY MinimalAbove
<1>2. ASSUME NEW y \in S, ~(y <= x) PROVE FALSE
  <2>1. x \in Nat /\ y \in Nat /\ y > x
    BY <1>2
  <2>2. \A z \in S : z >= y => z >= x
    BY <2>1
  <2>3. Above(y) \subseteq Above(x)
    BY <2>2
  <2>4. x \in Above(x) /\ x \notin Above(y)
    BY <2>1
  <2> QED
    BY <1>1, <2>3, <2>4
<1>3. \A y \in S : x >= y
  BY <1>2
<1> QED
  BY <1>3 DEF Max

\* The stamps of the lines of a row: the largest of them is a number.
LEMMA LatestIs ==
  ASSUME NEW f, \A l \in Lines : f[l] \in Nat, Lines # {}
  PROVE  /\ Max({f[l] : l \in Lines}) \in Nat
         /\ \E l \in Lines : Max({f[x] : x \in Lines}) = f[l]
         /\ \A l \in Lines : f[l] <= Max({f[x] : x \in Lines})
<1> DEFINE S == {f[l] : l \in Lines}
<1>1. S \subseteq Nat /\ S # {}
  BY TableAssumption
<1>2. IsFiniteSet(S)
  <2>1. [l \in Lines |-> f[l]] \in Surjection(Lines, S)
    BY DEF Surjection
  <2> QED
    BY <2>1, TableAssumption, FS_Surjection
<1>3. Max(S) \in S /\ \A x \in S : x <= Max(S)
  <2> HIDE DEF S
  <2> QED
    BY <1>1, <1>2, MaxExists
<1> QED
  BY <1>1, <1>3

-----------------------------------------------------------------------------
(* Types, and who does what.                                               *)

\* A step of one thread.
ThreadStep(t) ==
  \/ Advance(t) \/ ServeOther(t)
  \/ \E r \in Requests : Complete(t, r) \/ \E k \in Keys : Start(t, r, k)

LEMMA StampsAreNumbers ==
  ASSUME TypeOK, NEW w \in Requests, NEW t \in Threads
  PROVE  LastUsed(w) \in Nat /\ IsCold(w, etick) \in BOOLEAN
<1>1. lastUsed[w] \in [Lines -> Nat] /\ lastObserve[w] \in [Lines -> Nat]
  BY TableAssumption DEF TypeOK
<1>2. LastUsed(w) \in Nat
  BY <1>1, LatestIs, TableAssumption DEF LastUsed
<1>3. IsCold(w, etick) \in BOOLEAN
  BY DEF IsCold
<1> QED
  BY <1>2, <1>3

\* What a row, a lookup and a cache are changed to has their types.
LEMMA TouchedTyped ==
  ASSUME TypeOK, NEW t \in Threads, cur[t] \in Requests, NEW w, Touched(t, w)
  PROVE  lastUsed' \in [Requests -> [Lines -> Nat]]
<1>1. PICK l \in Lines : lastUsed' = [lastUsed EXCEPT ![w][l] = stamp[cur[t]]]
  BY DEF Touched
<1> QED
  BY <1>1 DEF TypeOK

LEMMA CreateTyped ==
  ASSUME TypeOK, NEW t \in Threads, cur[t] \in Requests, NEW k \in AllKeys, Create(t, k)
  PROVE  /\ routes' \in [AllKeys -> MaybeRow] /\ found' \in [Threads -> MaybeRow]
         /\ lastUsed' \in [Requests -> [Lines -> Nat]]
         /\ UNCHANGED <<lastObserve, samples, late>>
BY TouchedTyped DEF TypeOK, Create, MaybeRow

LEMMA RememberTyped ==
  ASSUME TypeOK, NEW t \in Threads, NEW w \in Requests, Remember(t, w)
  PROVE  cache' \in [Threads -> [Keys -> MaybeRow]]
BY DEF TypeOK, Remember, NoCache, MaybeRow

LEMMA EndScanTyped ==
  ASSUME EndScan
  PROVE  /\ writer' \in Threads \cup {NoThread} /\ left' \subseteq Requests
         /\ scanned' \subseteq [row : Requests, cold : BOOLEAN, used : Nat]
         /\ etick' \in 0..MaxTick
<1>1. 0 \in 0..MaxTick
  BY TableAssumption
<1> QED
  BY <1>1 DEF EndScan

\* Every step keeps the types.
LEMMA TypeKept ==
  ASSUME ThreadsInv, NEW t \in Threads, ThreadStep(t)
  PROVE  TypeOK'
<1> USE DEF ThreadsInv, TypeOK, ControlOK, Goto, tableVars, rowVars, requestVars, cacheVars,
            scanVars, PCs, States, MaybeRow, ResolvingPCs, CompletingPCs, Key
<1>1. CASE ProbeHit(t)
  BY <1>1, TableAssumption DEF ProbeHit, Synced, NoCache
<1>2. CASE ProbeMiss(t)
  BY <1>2, TableAssumption DEF ProbeMiss, Synced, NoCache
<1>3. CASE TouchHit(t)
  BY <1>3, TouchedTyped DEF TouchHit
<1>4. CASE FindShared(t)
  BY <1>4, TouchedTyped, RememberTyped DEF FindShared, AllKeys
<1>5. CASE MissShared(t)
  BY <1>5, TableAssumption DEF MissShared
<1>6. CASE InsertRow(t)
  BY <1>6, CreateTyped, RememberTyped DEF InsertRow, AllKeys
<1>7. CASE BeginScan(t)
  BY <1>7, TableAssumption DEF BeginScan, Rows, Tracked, AllKeys
<1>8. CASE EvictRow(t)
  BY <1>8, TableAssumption DEF EvictRow
<1>9. CASE BumpGeneration(t)
  BY <1>9, TableAssumption DEF BumpGeneration
<1>10. CASE InsertAfterEviction(t)
  <2>1. cur[t] \in Requests /\ key[cur[t]] \in AllKeys
    BY <1>10 DEF InsertAfterEviction, AllKeys
  <2>2. /\ routes' \in [AllKeys -> MaybeRow] /\ found' \in [Threads -> MaybeRow]
        /\ lastUsed' \in [Requests -> [Lines -> Nat]]
        /\ UNCHANGED <<lastObserve, samples, late>>
    BY <1>10, <2>1, CreateTyped DEF InsertAfterEviction
  <2>3. cache' \in [Threads -> [Keys -> MaybeRow]]
    BY <1>10, <2>1, RememberTyped DEF InsertAfterEviction
  <2>4. writer' \in Threads \cup {NoThread} /\ left' \subseteq Requests
        /\ scanned' \subseteq [row : Requests, cold : BOOLEAN, used : Nat]
        /\ etick' \in 0..MaxTick
    BY <1>10, EndScanTyped DEF InsertAfterEviction
  <2>5. pc' \in [Threads -> PCs]
    BY <1>10 DEF InsertAfterEviction
  <2> QED
    BY <1>10, <2>2, <2>3, <2>4, <2>5 DEF InsertAfterEviction
<1>11. CASE UseOverflow(t)
  <2>1. cur[t] \in Requests /\ OverflowKey \in AllKeys
    BY <1>11 DEF UseOverflow, AllKeys
  <2>2. /\ routes' \in [AllKeys -> MaybeRow] /\ found' \in [Threads -> MaybeRow]
        /\ lastUsed' \in [Requests -> [Lines -> Nat]]
        /\ UNCHANGED <<lastObserve, samples, late>>
    <3>1. CASE routes[OverflowKey] = NoRow
      BY <1>11, <2>1, <3>1, CreateTyped DEF UseOverflow
    <3>2. CASE routes[OverflowKey] # NoRow
      <4>1. /\ found' = [found EXCEPT ![t] = routes[OverflowKey]]
            /\ Touched(t, routes[OverflowKey])
            /\ UNCHANGED <<routes, lastObserve, samples, late>>
        BY <1>11, <3>2 DEF UseOverflow
      <4>2. lastUsed' \in [Requests -> [Lines -> Nat]]
        BY <4>1, <2>1, TouchedTyped
      <4> QED
        BY <4>1, <4>2, <2>1
    <3> QED
      BY <3>1, <3>2
  <2>4. writer' \in Threads \cup {NoThread} /\ left' \subseteq Requests
        /\ scanned' \subseteq [row : Requests, cold : BOOLEAN, used : Nat]
        /\ etick' \in 0..MaxTick
    BY <1>11, EndScanTyped DEF UseOverflow
  <2>5. pc' \in [Threads -> PCs]
    BY <1>11 DEF UseOverflow
  <2> QED
    BY <1>11, <2>2, <2>4, <2>5 DEF UseOverflow
<1>12. CASE CountInFlight(t)
  BY <1>12, TableAssumption DEF CountInFlight
<1>13. CASE StampObserve(t)
  <2>1. /\ otick[t] + 1 \in 0..(MaxTick + 1)
        /\ handle[cur[t]] \in Requests
    <3>1. MaxTick \in Nat
      BY TableAssumption
    <3>2. otick[t] \in 0..MaxTick
      OBVIOUS
    <3>3. pc[t] \in CompletingPCs
      BY <1>13 DEF StampObserve
    <3>4. handle[cur[t]] \in Requests
      BY <3>3
    <3> QED
      BY <3>1, <3>2, <3>4
  <2>2. lastObserve' \in [Requests -> [Lines -> 0..(MaxTick + 1)]]
    <3> DEFINE T == 0..(MaxTick + 1)
    <3>1. lastObserve \in [Requests -> [Lines -> T]] /\ otick[t] + 1 \in T
      BY <2>1
    <3> HIDE DEF T
    <3> QED
      BY <1>13, <2>1, <3>1 DEF StampObserve
  <2>3. pc' \in [Threads -> PCs]
    BY <1>13 DEF StampObserve
  <2> QED
    BY <1>13, <2>2, <2>3 DEF StampObserve
<1>14. CASE RecordSample(t)
  BY <1>14, TableAssumption DEF RecordSample
<1>15. CASE ServeOther(t)
  BY <1>15, TableAssumption DEF ServeOther, NoCache
<1>16. ASSUME NEW w \in Requests, ScanRow(t, w) PROVE TypeOK'
  BY <1>16, StampsAreNumbers DEF ScanRow
<1>17. ASSUME NEW r \in Requests, Complete(t, r) PROVE TypeOK'
  BY <1>17 DEF Complete
<1>18. ASSUME NEW r \in Requests, NEW k \in Keys, Start(t, r, k) PROVE TypeOK'
  BY <1>18 DEF Start
<1> QED
  BY <1>1, <1>2, <1>3, <1>4, <1>5, <1>6, <1>7, <1>8, <1>9,
     <1>10, <1>11, <1>12, <1>13, <1>14, <1>15, <1>16, <1>17, <1>18 DEF ThreadStep, Advance

-----------------------------------------------------------------------------
(* The inductive invariants.                                               *)

\* No cache is of a generation to come, and who holds the write lock has found its
\* key without a row.
CacheInv ==
  /\ CacheCoherent
  /\ \A t \in Threads :
       /\ cacheGen[t] <= generation
       /\ pc[t] \in WritingPCs => routes[Key(t)] = NoRow

\* Some line of the row is not behind the second s by more than MaxStale.
Covered(w, s) ==
  \E l \in Lines : lastObserve[w][l] # 0 /\ s < lastObserve[w][l] + MaxStale

\* Clock reads and samples are of the past; while no completion was overtaken by the
\* clock, whatever is stored over the stamp of a sample is nearly as late as the sample.
StampInv ==
  /\ \A t \in Threads : otick[t] <= now
  /\ \A w \in Requests : \A s \in samples[w] : s <= now
  /\ ~late =>
       /\ \A w \in Requests : \A s \in samples[w] : Covered(w, s)
       /\ \A t \in Threads : pc[t] = "sample" => Covered(handle[cur[t]], otick[t])

\* A stamp is that of a sample, or of a completion that is about to record it.
StampedFor(w, l) ==
  \/ lastObserve[w][l] - 1 \in samples[w]
  \/ \E t \in Threads :
       pc[t] = "sample" /\ handle[cur[t]] = w /\ otick[t] = lastObserve[w][l] - 1

\* The scan under the write lock sees each row once, and the table does not change
\* under it; a candidate that was not cold holds a sample of the window.
ScanInv ==
  /\ \A w \in Requests : \A l \in Lines : lastObserve[w][l] # 0 => StampedFor(w, l)
  /\ \A t \in Threads : pc[t] = "scan" =>
       /\ left \subseteq Rows
       /\ \A c \in scanned :
            /\ c.row \in Rows /\ c.row \notin left
            /\ ~c.cold => Holds(c.row, etick)
            /\ \A d \in scanned : c.row = d.row => c = d

-----------------------------------------------------------------------------
(* Control.                                                                *)

\* A thread's step leaves the place and the locals of the others alone.
LEMMA OthersStay ==
  ASSUME ThreadsInv, NEW t \in Threads, ThreadStep(t), NEW u \in Threads, u # t
  PROVE  /\ pc'[u] = pc[u] /\ cur'[u] = cur[u] /\ found'[u] = found[u]
         /\ otick'[u] = otick[u] /\ cache'[u] = cache[u] /\ cacheGen'[u] = cacheGen[u]
<1> DEFINE G == /\ pc'[u] = pc[u] /\ cur'[u] = cur[u] /\ found'[u] = found[u]
                /\ otick'[u] = otick[u] /\ cache'[u] = cache[u]
                /\ cacheGen'[u] = cacheGen[u]
<1> USE DEF ThreadsInv, TypeOK, Goto, requestVars, cacheVars, Remember
<1>1. CASE ProbeHit(t)
  BY <1>1 DEF ProbeHit
<1>2. CASE ProbeMiss(t)
  BY <1>2 DEF ProbeMiss
<1>3. CASE TouchHit(t)
  BY <1>3 DEF TouchHit
<1>4. CASE FindShared(t)
  BY <1>4 DEF FindShared
<1>5. CASE MissShared(t)
  BY <1>5 DEF MissShared
<1>6. CASE InsertRow(t)
  BY <1>6 DEF InsertRow, Create
<1>7. CASE BeginScan(t)
  BY <1>7 DEF BeginScan
<1>8. CASE EvictRow(t)
  BY <1>8 DEF EvictRow
<1>9. CASE BumpGeneration(t)
  BY <1>9 DEF BumpGeneration
<1>10. CASE InsertAfterEviction(t)
  BY <1>10 DEF InsertAfterEviction, Create, EndScan
<1>11. CASE UseOverflow(t)
  BY <1>11 DEF UseOverflow, Create, EndScan
<1>12. CASE CountInFlight(t)
  BY <1>12 DEF CountInFlight
<1>13. CASE StampObserve(t)
  BY <1>13 DEF StampObserve
<1>14. CASE RecordSample(t)
  BY <1>14 DEF RecordSample
<1>15. CASE ServeOther(t)
  BY <1>15 DEF ServeOther
<1>16. ASSUME NEW w \in Requests, ScanRow(t, w) PROVE G
  BY <1>16 DEF ScanRow
<1>17. ASSUME NEW r \in Requests, Complete(t, r) PROVE G
  BY <1>17 DEF Complete
<1>18. ASSUME NEW r \in Requests, NEW k \in Keys, Start(t, r, k) PROVE G
  BY <1>18 DEF Start
<1> QED
  BY <1>1, <1>2, <1>3, <1>4, <1>5, <1>6, <1>7, <1>8, <1>9, <1>10, <1>11, <1>12,
     <1>13, <1>14, <1>15, <1>16, <1>17, <1>18
  DEF ThreadStep, Advance

\* The request of another thread is left alone as well.
LEMMA OthersRequestStays ==
  ASSUME ThreadsInv, NEW t \in Threads, ThreadStep(t), NEW u \in Threads, u # t,
         pc[u] # "idle"
  PROVE  /\ cur[u] \in Requests
         /\ state'[cur[u]] = state[cur[u]] /\ key'[cur[u]] = key[cur[u]]
         /\ handle'[cur[u]] = handle[cur[u]] /\ stamp'[cur[u]] = stamp[cur[u]]
<1> DEFINE G == /\ state'[cur[u]] = state[cur[u]] /\ key'[cur[u]] = key[cur[u]]
                /\ handle'[cur[u]] = handle[cur[u]] /\ stamp'[cur[u]] = stamp[cur[u]]
<1>0. /\ cur[u] \in Requests /\ state[cur[u]] \in {"starting", "completing"}
      /\ pc[t] # "idle" => cur[t] # cur[u]
  BY DEF ThreadsInv, TypeOK, ControlOK, PCs, ResolvingPCs, CompletingPCs
<1> USE DEF ThreadsInv, TypeOK, Goto, requestVars
<1>1. CASE ProbeHit(t)
  BY <1>1, <1>0 DEF ProbeHit
<1>2. CASE ProbeMiss(t)
  BY <1>2, <1>0 DEF ProbeMiss
<1>3. CASE TouchHit(t)
  BY <1>3, <1>0 DEF TouchHit
<1>4. CASE FindShared(t)
  BY <1>4, <1>0 DEF FindShared
<1>5. CASE MissShared(t)
  BY <1>5, <1>0 DEF MissShared
<1>6. CASE InsertRow(t)
  BY <1>6, <1>0 DEF InsertRow, Create
<1>7. CASE BeginScan(t)
  BY <1>7, <1>0 DEF BeginScan
<1>8. CASE EvictRow(t)
  BY <1>8, <1>0 DEF EvictRow
<1>9. CASE BumpGeneration(t)
  BY <1>9, <1>0 DEF BumpGeneration
<1>10. CASE InsertAfterEviction(t)
  BY <1>10, <1>0 DEF InsertAfterEviction, Create, EndScan
<1>11. CASE UseOverflow(t)
  BY <1>11, <1>0 DEF UseOverflow, Create, EndScan
<1>12. CASE CountInFlight(t)
  BY <1>12, <1>0 DEF CountInFlight
<1>13. CASE StampObserve(t)
  BY <1>13, <1>0 DEF StampObserve
<1>14. CASE RecordSample(t)
  BY <1>14, <1>0 DEF RecordSample
<1>15. CASE ServeOther(t)
  BY <1>15, <1>0 DEF ServeOther
<1>16. ASSUME NEW w \in Requests, ScanRow(t, w) PROVE G
  BY <1>16, <1>0 DEF ScanRow
<1>17. ASSUME NEW r \in Requests, Complete(t, r) PROVE G
  BY <1>17, <1>0 DEF Complete
<1>18. ASSUME NEW r \in Requests, NEW k \in Keys, Start(t, r, k) PROVE G
  BY <1>18, <1>0 DEF Start
<1> QED
  BY <1>1, <1>2, <1>3, <1>4, <1>5, <1>6, <1>7, <1>8, <1>9, <1>10, <1>11, <1>12,
     <1>13, <1>14, <1>15, <1>16, <1>17, <1>18, <1>0
  DEF ThreadStep, Advance

\* The write lock passes between nobody and the thread that moves.
LEMMA LockMoves ==
  ASSUME ThreadsInv, NEW t \in Threads, ThreadStep(t)
  PROVE  \A u \in Threads : u # t => (writer' = u <=> writer = u)
<1> DEFINE G == \A u \in Threads : u # t => (writer' = u <=> writer = u)
<1>0. NoThread \notin Threads /\ (pc[t] \in WritingPCs => writer = t)
  BY TableAssumption DEF ThreadsInv, ControlOK
<1> USE DEF tableVars, WritingPCs
<1>1. CASE ProbeHit(t)
  BY <1>1, <1>0 DEF ProbeHit
<1>2. CASE ProbeMiss(t)
  BY <1>2, <1>0 DEF ProbeMiss
<1>3. CASE TouchHit(t)
  BY <1>3, <1>0 DEF TouchHit
<1>4. CASE FindShared(t)
  BY <1>4, <1>0 DEF FindShared
<1>5. CASE MissShared(t)
  BY <1>5, <1>0 DEF MissShared
<1>6. CASE InsertRow(t)
  BY <1>6, <1>0 DEF InsertRow, Create
<1>7. CASE BeginScan(t)
  BY <1>7, <1>0 DEF BeginScan
<1>8. CASE EvictRow(t)
  BY <1>8, <1>0 DEF EvictRow
<1>9. CASE BumpGeneration(t)
  BY <1>9, <1>0 DEF BumpGeneration
<1>10. CASE InsertAfterEviction(t)
  BY <1>10, <1>0 DEF InsertAfterEviction, Create, EndScan
<1>11. CASE UseOverflow(t)
  BY <1>11, <1>0 DEF UseOverflow, Create, EndScan
<1>12. CASE CountInFlight(t)
  BY <1>12, <1>0 DEF CountInFlight
<1>13. CASE StampObserve(t)
  BY <1>13, <1>0 DEF StampObserve
<1>14. CASE RecordSample(t)
  BY <1>14, <1>0 DEF RecordSample
<1>15. CASE ServeOther(t)
  BY <1>15, <1>0 DEF ServeOther
<1>16. ASSUME NEW w \in Requests, ScanRow(t, w) PROVE G
  BY <1>16, <1>0 DEF ScanRow
<1>17. ASSUME NEW r \in Requests, Complete(t, r) PROVE G
  BY <1>17, <1>0 DEF Complete
<1>18. ASSUME NEW r \in Requests, NEW k \in Keys, Start(t, r, k) PROVE G
  BY <1>18, <1>0 DEF Start
<1> QED
  BY <1>1, <1>2, <1>3, <1>4, <1>5, <1>6, <1>7, <1>8, <1>9, <1>10, <1>11, <1>12,
     <1>13, <1>14, <1>15, <1>16, <1>17, <1>18, <1>0
  DEF ThreadStep, Advance

\* What ControlOK says of one thread.
ControlOf(t) ==
  /\ pc[t] \in ResolvingPCs =>
       /\ cur[t] \in Requests /\ state[cur[t]] = "starting" /\ key[cur[t]] \in Keys
  /\ pc[t] \in CompletingPCs =>
       /\ cur[t] \in Requests /\ state[cur[t]] = "completing"
       /\ handle[cur[t]] \in Requests
  /\ pc[t] \in {"touch", "count"} => found[t] \in Requests
  /\ pc[t] \in WritingPCs <=> writer = t

LEMMA ControlOfMover ==
  ASSUME ThreadsInv, NEW t \in Threads, ThreadStep(t)
  PROVE  ControlOf(t)'
<1>0. NoThread \notin Threads /\ NoRow \notin Requests /\ ControlOf(t)
      /\ \A r \in Requests :
           state[r] \in {"flying", "completing", "observed"} => handle[r] \in Requests
  BY TableAssumption DEF ThreadsInv, ControlOK, ControlOf
<1>a. key[cur[t]] \in Keys => Key(t) \in AllKeys
  BY DEF Key, AllKeys
<1> USE DEF ThreadsInv, TypeOK, ControlOf, Goto, tableVars, requestVars, cacheVars, MaybeRow,
            ResolvingPCs, CompletingPCs, WritingPCs
<1>1. CASE ProbeHit(t)
  BY <1>1, <1>0 DEF ProbeHit, Synced, NoCache, Key
<1>2. CASE ProbeMiss(t)
  BY <1>2, <1>0 DEF ProbeMiss, Synced, NoCache, Key
<1>3. CASE TouchHit(t)
  BY <1>3, <1>0 DEF TouchHit
<1>4. CASE FindShared(t)
  BY <1>4, <1>0 DEF FindShared, Key, AllKeys
<1>5. CASE MissShared(t)
  BY <1>5, <1>0 DEF MissShared
<1>6. CASE InsertRow(t)
  BY <1>6, <1>0 DEF InsertRow, Create
<1>7. CASE BeginScan(t)
  BY <1>7, <1>0 DEF BeginScan
<1>8. CASE EvictRow(t)
  BY <1>8, <1>0 DEF EvictRow
<1>9. CASE BumpGeneration(t)
  BY <1>9, <1>0 DEF BumpGeneration
<1>10. CASE InsertAfterEviction(t)
  BY <1>10, <1>0 DEF InsertAfterEviction, Create, EndScan
<1>11. CASE UseOverflow(t)
  BY <1>11, <1>0 DEF UseOverflow, Create, EndScan, AllKeys
<1>12. CASE CountInFlight(t)
  BY <1>12, <1>0 DEF CountInFlight
<1>13. CASE StampObserve(t)
  BY <1>13, <1>0 DEF StampObserve
<1>14. CASE RecordSample(t)
  BY <1>14, <1>0 DEF RecordSample
<1>15. CASE ServeOther(t)
  BY <1>15, <1>0 DEF ServeOther
<1>16. ASSUME NEW w \in Requests, ScanRow(t, w) PROVE ControlOf(t)'
  BY <1>16, <1>0 DEF ScanRow
<1>17. ASSUME NEW r \in Requests, Complete(t, r) PROVE ControlOf(t)'
  BY <1>17, <1>0 DEF Complete
<1>18. ASSUME NEW r \in Requests, NEW k \in Keys, Start(t, r, k) PROVE ControlOf(t)'
  BY <1>18, <1>0 DEF Start
<1> QED
  BY <1>1, <1>2, <1>3, <1>4, <1>5, <1>6, <1>7, <1>8, <1>9, <1>10, <1>11, <1>12,
     <1>13, <1>14, <1>15, <1>16, <1>17, <1>18, <1>0
  DEF ThreadStep, Advance

\* No two threads work for one request.
LEMMA CursApart ==
  ASSUME ThreadsInv, NEW t \in Threads, ThreadStep(t), NEW u \in Threads, u # t,
         pc[u] # "idle", pc'[t] # "idle"
  PROVE  cur'[t] # cur[u]
<1> DEFINE G == cur'[t] # cur[u]
<1>0. /\ state[cur[u]] \in {"starting", "completing"}
      /\ pc[t] # "idle" => cur[t] # cur[u]
  BY DEF ThreadsInv, TypeOK, ControlOK, PCs, ResolvingPCs, CompletingPCs
<1> USE DEF ThreadsInv, TypeOK, Goto, requestVars
<1>1. CASE ProbeHit(t)
  BY <1>1, <1>0 DEF ProbeHit
<1>2. CASE ProbeMiss(t)
  BY <1>2, <1>0 DEF ProbeMiss
<1>3. CASE TouchHit(t)
  BY <1>3, <1>0 DEF TouchHit
<1>4. CASE FindShared(t)
  BY <1>4, <1>0 DEF FindShared
<1>5. CASE MissShared(t)
  BY <1>5, <1>0 DEF MissShared
<1>6. CASE InsertRow(t)
  BY <1>6, <1>0 DEF InsertRow, Create
<1>7. CASE BeginScan(t)
  BY <1>7, <1>0 DEF BeginScan
<1>8. CASE EvictRow(t)
  BY <1>8, <1>0 DEF EvictRow
<1>9. CASE BumpGeneration(t)
  BY <1>9, <1>0 DEF BumpGeneration
<1>10. CASE InsertAfterEviction(t)
  BY <1>10, <1>0 DEF InsertAfterEviction, Create, EndScan
<1>11. CASE UseOverflow(t)
  BY <1>11, <1>0 DEF UseOverflow, Create, EndScan
<1>12. CASE CountInFlight(t)
  BY <1>12, <1>0 DEF CountInFlight
<1>13. CASE StampObserve(t)
  BY <1>13, <1>0 DEF StampObserve
<1>14. CASE RecordSample(t)
  BY <1>14, <1>0 DEF RecordSample
<1>15. CASE ServeOther(t)
  BY <1>15, <1>0 DEF ServeOther
<1>16. ASSUME NEW w \in Requests, ScanRow(t, w) PROVE G
  BY <1>16, <1>0 DEF ScanRow
<1>17. ASSUME NEW r \in Requests, Complete(t, r) PROVE G
  BY <1>17, <1>0 DEF Complete
<1>18. ASSUME NEW r \in Requests, NEW k \in Keys, Start(t, r, k) PROVE G
  BY <1>18, <1>0 DEF Start
<1> QED
  BY <1>1, <1>2, <1>3, <1>4, <1>5, <1>6, <1>7, <1>8, <1>9, <1>10, <1>11, <1>12,
     <1>13, <1>14, <1>15, <1>16, <1>17, <1>18, <1>0
  DEF ThreadStep, Advance

\* Every request that is counted has the row it is counted on.
LEMMA HandlesKept ==
  ASSUME ThreadsInv, NEW t \in Threads, ThreadStep(t)
  PROVE  \A r \in Requests :
           state'[r] \in {"flying", "completing", "observed"} => handle'[r] \in Requests
<1> DEFINE G == \A r \in Requests :
                  state'[r] \in {"flying", "completing", "observed"} => handle'[r] \in Requests
<1>0. /\ \A r \in Requests :
           state[r] \in {"flying", "completing", "observed"} => handle[r] \in Requests
      /\ pc[t] = "count" => found[t] \in Requests /\ cur[t] \in Requests
      /\ pc[t] = "sample" => handle[cur[t]] \in Requests
  BY DEF ThreadsInv, ControlOK, ResolvingPCs, CompletingPCs
<1> USE DEF ThreadsInv, TypeOK, requestVars
<1>1. CASE ProbeHit(t)
  BY <1>1, <1>0 DEF ProbeHit
<1>2. CASE ProbeMiss(t)
  BY <1>2, <1>0 DEF ProbeMiss
<1>3. CASE TouchHit(t)
  BY <1>3, <1>0 DEF TouchHit
<1>4. CASE FindShared(t)
  BY <1>4, <1>0 DEF FindShared
<1>5. CASE MissShared(t)
  BY <1>5, <1>0 DEF MissShared
<1>6. CASE InsertRow(t)
  BY <1>6, <1>0 DEF InsertRow, Create
<1>7. CASE BeginScan(t)
  BY <1>7, <1>0 DEF BeginScan
<1>8. CASE EvictRow(t)
  BY <1>8, <1>0 DEF EvictRow
<1>9. CASE BumpGeneration(t)
  BY <1>9, <1>0 DEF BumpGeneration
<1>10. CASE InsertAfterEviction(t)
  BY <1>10, <1>0 DEF InsertAfterEviction, Create, EndScan
<1>11. CASE UseOverflow(t)
  BY <1>11, <1>0 DEF UseOverflow, Create, EndScan
<1>12. CASE CountInFlight(t)
  BY <1>12, <1>0 DEF CountInFlight
<1>13. CASE StampObserve(t)
  BY <1>13, <1>0 DEF StampObserve
<1>14. CASE RecordSample(t)
  BY <1>14, <1>0 DEF RecordSample
<1>15. CASE ServeOther(t)
  BY <1>15, <1>0 DEF ServeOther
<1>16. ASSUME NEW w \in Requests, ScanRow(t, w) PROVE G
  BY <1>16, <1>0 DEF ScanRow
<1>17. ASSUME NEW r \in Requests, Complete(t, r) PROVE G
  BY <1>17, <1>0 DEF Complete
<1>18. ASSUME NEW r \in Requests, NEW k \in Keys, Start(t, r, k) PROVE G
  BY <1>18, <1>0 DEF Start
<1> QED
  BY <1>1, <1>2, <1>3, <1>4, <1>5, <1>6, <1>7, <1>8, <1>9, <1>10, <1>11, <1>12,
     <1>13, <1>14, <1>15, <1>16, <1>17, <1>18, <1>0
  DEF ThreadStep, Advance

LEMMA ControlKept ==
  ASSUME ThreadsInv, NEW t \in Threads, ThreadStep(t)
  PROVE  ControlOK'
<1>1. \A u \in Threads : ControlOf(u)'
  <2>1. ASSUME NEW u \in Threads, u # t PROVE ControlOf(u)'
    <3>1. ControlOf(u)
      BY DEF ThreadsInv, ControlOK, ControlOf
    <3>2. /\ pc'[u] = pc[u] /\ cur'[u] = cur[u] /\ found'[u] = found[u]
          /\ writer' = u <=> writer = u
      BY <2>1, OthersStay, LockMoves
    <3>3. CASE pc[u] = "idle"
      BY <3>1, <3>2, <3>3 DEF ControlOf, ResolvingPCs, CompletingPCs, WritingPCs
    <3>4. CASE pc[u] # "idle"
      <4>1. /\ state'[cur[u]] = state[cur[u]] /\ key'[cur[u]] = key[cur[u]]
            /\ handle'[cur[u]] = handle[cur[u]]
        BY <2>1, <3>4, OthersRequestStays
      <4> QED
        BY <3>1, <3>2, <4>1 DEF ControlOf
    <3> QED
      BY <3>3, <3>4
  <2> QED
    BY <2>1, ControlOfMover
<1>2. ASSUME NEW u \in Threads, NEW v \in Threads, u # v, pc'[u] # "idle", pc'[v] # "idle"
      PROVE  cur'[u] # cur'[v]
  <2>1. CASE u = t
    BY <1>2, <2>1, CursApart, OthersStay
  <2>2. CASE v = t
    BY <1>2, <2>2, CursApart, OthersStay
  <2>3. CASE u # t /\ v # t
    BY <1>2, <2>3, OthersStay DEF ThreadsInv, ControlOK
  <2> QED
    BY <2>1, <2>2, <2>3
<1> QED
  BY <1>1, <1>2, HandlesKept DEF ControlOK, ControlOf

\* The guard of a request drops, and the clock ticks.
LEMMA EndKeeps ==
  ASSUME ThreadsInv, NEW r \in Requests, End(r)
  PROVE  ThreadsInv'
<1>1. TypeOK'
  BY DEF ThreadsInv, TypeOK, End, tableVars, rowVars, cacheVars, scanVars, MaybeRow, States
<1>2. \A t \in Threads : pc[t] \in ResolvingPCs \cup CompletingPCs => cur[t] # r
  BY DEF ThreadsInv, ControlOK, End
<1>3. ControlOK'
  BY <1>2 DEF ThreadsInv, ControlOK, TypeOK, End, tableVars
<1> QED
  BY <1>1, <1>3 DEF ThreadsInv

LEMMA TickKeeps ==
  ASSUME ThreadsInv, Tick
  PROVE  ThreadsInv'
<1>1. now' \in 0..MaxTick
  BY TableAssumption DEF ThreadsInv, TypeOK, Tick
<1> QED
  BY <1>1 DEF ThreadsInv, TypeOK, ControlOK, Tick, tableVars, rowVars, requestVars, cacheVars,
     scanVars

LEMMA ThreadsInvInit == Init => ThreadsInv
<1> SUFFICES ASSUME Init PROVE ThreadsInv
  OBVIOUS
<1>1. TypeOK
  <2>1. late \in BOOLEAN
    BY DEF Init
  <2> QED
    BY <2>1, TableAssumption DEF Init, TypeOK, NoCache, MaybeRow, PCs, States, AllKeys
<1>2. ControlOK
  BY TableAssumption DEF Init, ControlOK, ResolvingPCs, CompletingPCs, WritingPCs
<1> QED
  BY <1>1, <1>2 DEF ThreadsInv

LEMMA NextMoves ==
  ASSUME Next
  PROVE  Tick \/ (\E r \in Requests : End(r)) \/ (\E t \in Threads : ThreadStep(t))
BY DEF Next, ThreadStep

LEMMA ThreadsInvStep == ThreadsInv /\ [Next]_vars => ThreadsInv'
<1> SUFFICES ASSUME ThreadsInv, [Next]_vars PROVE ThreadsInv'
  OBVIOUS
<1>1. CASE Tick
  BY <1>1, TickKeeps
<1>2. ASSUME NEW r \in Requests, End(r) PROVE ThreadsInv'
  BY <1>2, EndKeeps
<1>3. ASSUME NEW t \in Threads, ThreadStep(t) PROVE ThreadsInv'
  BY <1>3, TypeKept, ControlKept DEF ThreadsInv
<1>4. CASE UNCHANGED vars
  BY <1>4 DEF ThreadsInv, TypeOK, ControlOK, vars, tableVars, rowVars, requestVars, cacheVars,
     scanVars
<1> QED
  BY <1>1, <1>2, <1>3, <1>4, NextMoves

\* Every variable of the table, of its rows, of the requests and of the threads stays
\* of its type.
THEOREM TableTypeCorrect == Spec => []TypeOK
<1>1. ThreadsInv => TypeOK
  BY DEF ThreadsInv
<1> QED
  BY <1>1, ThreadsInvInit, ThreadsInvStep, PTL DEF Spec

-----------------------------------------------------------------------------
(* Caches.                                                                 *)

\* No step but an eviction takes a row from its key.
LEMMA RowsStay ==
  ASSUME ThreadsInv, CacheInv, NEW t \in Threads, ThreadStep(t), ~EvictRow(t)
  PROVE  /\ \A k \in AllKeys : routes[k] # NoRow => routes'[k] = routes[k]
         /\ \A k \in AllKeys : routes'[k] = routes[k] \/ writer \in {NoThread, t}
<1> DEFINE G == /\ \A k \in AllKeys : routes[k] # NoRow => routes'[k] = routes[k]
                /\ \A k \in AllKeys : routes'[k] = routes[k] \/ writer \in {NoThread, t}
<1>0. /\ pc[t] \in WritingPCs => routes[Key(t)] = NoRow /\ writer = t
      /\ routes \in [AllKeys -> MaybeRow]
  BY DEF ThreadsInv, TypeOK, ControlOK, CacheInv
<1> USE DEF tableVars, WritingPCs
<1>1. CASE ProbeHit(t)
  BY <1>1, <1>0 DEF ProbeHit
<1>2. CASE ProbeMiss(t)
  BY <1>2, <1>0 DEF ProbeMiss
<1>3. CASE TouchHit(t)
  BY <1>3, <1>0 DEF TouchHit
<1>4. CASE FindShared(t)
  BY <1>4, <1>0 DEF FindShared
<1>5. CASE MissShared(t)
  BY <1>5, <1>0 DEF MissShared
<1>6. CASE InsertRow(t)
  BY <1>6, <1>0 DEF InsertRow, Create
<1>7. CASE BeginScan(t)
  BY <1>7, <1>0 DEF BeginScan
<1>8. CASE EvictRow(t)
  BY <1>8

<1>9. CASE BumpGeneration(t)
  BY <1>9, <1>0 DEF BumpGeneration
<1>10. CASE InsertAfterEviction(t)
  BY <1>10, <1>0 DEF InsertAfterEviction, Create, EndScan
<1>11. CASE UseOverflow(t)
  BY <1>11, <1>0 DEF UseOverflow, Create, EndScan
<1>12. CASE CountInFlight(t)
  BY <1>12, <1>0 DEF CountInFlight
<1>13. CASE StampObserve(t)
  BY <1>13, <1>0 DEF StampObserve
<1>14. CASE RecordSample(t)
  BY <1>14, <1>0 DEF RecordSample
<1>15. CASE ServeOther(t)
  BY <1>15, <1>0 DEF ServeOther
<1>16. ASSUME NEW w \in Requests, ScanRow(t, w) PROVE G
  BY <1>16, <1>0 DEF ScanRow
<1>17. ASSUME NEW r \in Requests, Complete(t, r) PROVE G
  BY <1>17, <1>0 DEF Complete
<1>18. ASSUME NEW r \in Requests, NEW j \in Keys, Start(t, r, j) PROVE G
  BY <1>18, <1>0 DEF Start
<1> QED
  BY <1>1, <1>2, <1>3, <1>4, <1>5, <1>6, <1>7, <1>8, <1>9, <1>10, <1>11, <1>12,
     <1>13, <1>14, <1>15, <1>16, <1>17, <1>18, <1>0
  DEF ThreadStep, Advance

\* An eviction only removes.
LEMMA EvictionRemoves ==
  ASSUME ThreadsInv, NEW t \in Threads, EvictRow(t)
  PROVE  \A k \in AllKeys : routes'[k] \in {routes[k], NoRow}
BY DEF EvictRow

\* What a cache becomes when it takes in a row.
LEMMA RememberIs ==
  ASSUME ThreadsInv, NEW t \in Threads, NEW w, Remember(t, w), key[cur[t]] \in Keys
  PROVE  /\ cache'[t][Key(t)] = w
         /\ \A k \in Keys : k # Key(t) => cache'[t][k] \in {cache[t][k], NoRow}
BY DEF ThreadsInv, TypeOK, Remember, NoCache, Key

\* Until the caches are told of it, an eviction is not over.
LEMMA EvictingGoesOn ==
  ASSUME ThreadsInv, NEW t \in Threads, ThreadStep(t), ~BumpGeneration(t), Evicting
  PROVE  Evicting'
<1>1. PICK u \in Threads : pc[u] = "bump"
  BY DEF Evicting
<1>2. CASE u # t
  BY <1>1, <1>2, OthersStay DEF Evicting
<1>3. CASE pc[t] = "bump"
  BY <1>3 DEF ThreadStep, Advance, ProbeHit, ProbeMiss, TouchHit, FindShared, MissShared,
     InsertRow, BeginScan, EvictRow, InsertAfterEviction, UseOverflow, CountInFlight,
     StampObserve, RecordSample, ScanRow, ServeOther, Complete, Start
<1> QED
  BY <1>1, <1>2, <1>3

LEMMA GenerationSteps ==
  ASSUME ThreadsInv, CacheInv, NEW t \in Threads, ThreadStep(t)
  PROVE  /\ BumpGeneration(t) => \A u \in Threads : cacheGen'[u] # generation'
         /\ ~BumpGeneration(t) => generation' = generation
         /\ \A u \in Threads : cacheGen'[u] <= generation'
<1> DEFINE G == /\ BumpGeneration(t) => \A u \in Threads : cacheGen'[u] # generation'
                /\ ~BumpGeneration(t) => generation' = generation
                /\ \A u \in Threads : cacheGen'[u] <= generation'
<1>0. /\ generation \in Nat /\ cacheGen \in [Threads -> Nat]
      /\ \A u \in Threads : cacheGen[u] <= generation
  BY DEF ThreadsInv, TypeOK, CacheInv
<1>a. BumpGeneration(t) => pc[t] = "bump"
  BY DEF BumpGeneration
<1> USE DEF tableVars, cacheVars
<1>1. CASE ProbeHit(t)
  BY <1>1, <1>0, <1>a DEF ProbeHit
<1>2. CASE ProbeMiss(t)
  BY <1>2, <1>0, <1>a DEF ProbeMiss
<1>3. CASE TouchHit(t)
  BY <1>3, <1>0, <1>a DEF TouchHit
<1>4. CASE FindShared(t)
  BY <1>4, <1>0, <1>a DEF FindShared
<1>5. CASE MissShared(t)
  BY <1>5, <1>0, <1>a DEF MissShared
<1>6. CASE InsertRow(t)
  BY <1>6, <1>0, <1>a DEF InsertRow, Create
<1>7. CASE BeginScan(t)
  BY <1>7, <1>0, <1>a DEF BeginScan
<1>8. CASE EvictRow(t)
  BY <1>8, <1>0, <1>a DEF EvictRow
<1>9. CASE BumpGeneration(t)
  BY <1>9, <1>0, <1>a DEF BumpGeneration
<1>10. CASE InsertAfterEviction(t)
  BY <1>10, <1>0, <1>a DEF InsertAfterEviction, Create, EndScan
<1>11. CASE UseOverflow(t)
  BY <1>11, <1>0, <1>a DEF UseOverflow, Create, EndScan
<1>12. CASE CountInFlight(t)
  BY <1>12, <1>0, <1>a DEF CountInFlight
<1>13. CASE StampObserve(t)
  BY <1>13, <1>0, <1>a DEF StampObserve
<1>14. CASE RecordSample(t)
  BY <1>14, <1>0, <1>a DEF RecordSample
<1>15. CASE ServeOther(t)
  BY <1>15, <1>0, <1>a DEF ServeOther
<1>16. ASSUME NEW w \in Requests, ScanRow(t, w) PROVE G
  BY <1>16, <1>0, <1>a DEF ScanRow
<1>17. ASSUME NEW r \in Requests, Complete(t, r) PROVE G
  BY <1>17, <1>0, <1>a DEF Complete
<1>18. ASSUME NEW r \in Requests, NEW j \in Keys, Start(t, r, j) PROVE G
  BY <1>18, <1>0, <1>a DEF Start
<1> QED
  BY <1>1, <1>2, <1>3, <1>4, <1>5, <1>6, <1>7, <1>8, <1>9, <1>10, <1>11, <1>12,
     <1>13, <1>14, <1>15, <1>16, <1>17, <1>18, <1>0
  DEF ThreadStep, Advance

\* The cache of a thread that is not the one to move.
LEMMA OthersCoherent ==
  ASSUME ThreadsInv, CacheInv, NEW t \in Threads, ThreadStep(t), NEW u \in Threads, u # t,
         NEW k \in Keys, cacheGen'[u] = generation', cache'[u][k] # NoRow, ~Evicting'
  PROVE  routes'[k] = cache'[u][k]
<1>1. cache'[u] = cache[u] /\ cacheGen'[u] = cacheGen[u] /\ k \in AllKeys
  BY OthersStay DEF AllKeys
<1>2. ~BumpGeneration(t) /\ generation' = generation
  BY GenerationSteps
<1>3. ~Evicting
  BY <1>2, EvictingGoesOn
<1>4. ~EvictRow(t)
  BY DEF EvictRow, Evicting, Goto, ThreadsInv, TypeOK
<1>5. routes[k] = cache[u][k]
  BY <1>1, <1>2, <1>3 DEF CacheInv, CacheCoherent
<1> QED
  BY <1>1, <1>4, <1>5, RowsStay

\* The cache of the thread that moves.
LEMMA MoverCoherent ==
  ASSUME ThreadsInv, CacheInv, NEW t \in Threads, ThreadStep(t),
         NEW k \in Keys, cacheGen'[t] = generation', cache'[t][k] # NoRow, ~Evicting'
  PROVE  routes'[k] = cache'[t][k]
<1>0. /\ ~BumpGeneration(t) /\ generation' = generation /\ k \in AllKeys
      /\ cacheGen[t] = generation /\ cache[t][k] # NoRow => routes[k] = cache[t][k]
  <2>1. ~BumpGeneration(t) /\ generation' = generation
    BY GenerationSteps
  <2>2. ~Evicting
    BY <2>1, EvictingGoesOn
  <2> QED
    BY <2>1, <2>2 DEF CacheInv, CacheCoherent, AllKeys
<1>a. routes \in [AllKeys -> MaybeRow] /\ cache \in [Threads -> [Keys -> MaybeRow]]
      /\ cacheGen \in [Threads -> Nat]
  BY DEF ThreadsInv, TypeOK
<1>b. ~EvictRow(t)
  BY DEF EvictRow, Evicting, Goto, ThreadsInv, TypeOK
<1>c. routes[k] # NoRow => routes'[k] = routes[k]
  BY <1>0, <1>b, RowsStay
<1>d. pc[t] \in ResolvingPCs => key[cur[t]] \in Keys
  BY DEF ThreadsInv, ControlOK
<1> DEFINE G == routes'[k] = cache'[t][k]
<1> USE DEF tableVars, cacheVars, NoCache, Synced
<1>1. CASE ProbeHit(t)
  BY <1>1, <1>0, <1>a, <1>c DEF ProbeHit
<1>2. CASE ProbeMiss(t)
  BY <1>2, <1>0, <1>a, <1>c DEF ProbeMiss
<1>3. CASE TouchHit(t)
  BY <1>3, <1>0, <1>a, <1>c DEF TouchHit
<1>4. CASE FindShared(t)
  BY <1>4, <1>0, <1>a, <1>c, <1>d, RememberIs DEF FindShared, ResolvingPCs, Key

<1>5. CASE MissShared(t)
  BY <1>5, <1>0, <1>a, <1>c DEF MissShared
<1>6. CASE InsertRow(t)
  <2>1. /\ key[cur[t]] \in Keys /\ Key(t) \in AllKeys
        /\ routes' = [routes EXCEPT ![Key(t)] = cur[t]] /\ Remember(t, cur[t])
        /\ cacheGen'[t] = cacheGen[t]
    BY <1>6, <1>d DEF InsertRow, Create, ResolvingPCs, Key, AllKeys
  <2> QED
    BY <2>1, <1>0, <1>a, <1>c, RememberIs

<1>7. CASE BeginScan(t)
  BY <1>7, <1>0, <1>a, <1>c DEF BeginScan
<1>8. CASE EvictRow(t)
  BY <1>8, <1>b

<1>9. CASE BumpGeneration(t)
  BY <1>9, <1>0

<1>10. CASE InsertAfterEviction(t)
  <2>1. /\ key[cur[t]] \in Keys /\ Key(t) \in AllKeys
        /\ routes' = [routes EXCEPT ![Key(t)] = cur[t]] /\ Remember(t, cur[t])
        /\ cacheGen'[t] = cacheGen[t]
    BY <1>10, <1>d DEF InsertAfterEviction, Create, ResolvingPCs, Key, AllKeys
  <2> QED
    BY <2>1, <1>0, <1>a, <1>c, RememberIs

<1>11. CASE UseOverflow(t)
  BY <1>11, <1>0, <1>a, <1>c DEF UseOverflow, Create, EndScan
<1>12. CASE CountInFlight(t)
  BY <1>12, <1>0, <1>a, <1>c DEF CountInFlight
<1>13. CASE StampObserve(t)
  BY <1>13, <1>0, <1>a, <1>c DEF StampObserve
<1>14. CASE RecordSample(t)
  BY <1>14, <1>0, <1>a, <1>c DEF RecordSample
<1>15. CASE ServeOther(t)
  BY <1>15, <1>0, <1>a, <1>c DEF ServeOther
<1>16. ASSUME NEW w \in Requests, ScanRow(t, w) PROVE G
  BY <1>16, <1>0, <1>a, <1>c DEF ScanRow
<1>17. ASSUME NEW r \in Requests, Complete(t, r) PROVE G
  BY <1>17, <1>0, <1>a, <1>c DEF Complete
<1>18. ASSUME NEW r \in Requests, NEW j \in Keys, Start(t, r, j) PROVE G
  BY <1>18, <1>0, <1>a, <1>c DEF Start
<1> QED
  BY <1>1, <1>2, <1>3, <1>4, <1>5, <1>6, <1>7, <1>8, <1>9, <1>10, <1>11, <1>12,
     <1>13, <1>14, <1>15, <1>16, <1>17, <1>18
  DEF ThreadStep, Advance

\* Whoever holds the write lock finds its key without a row until it inserts one.
LEMMA MoversKeyStaysFree ==
  ASSUME ThreadsInv, CacheInv, NEW t \in Threads, ThreadStep(t), pc'[t] \in WritingPCs
  PROVE  routes'[Key(t)'] = NoRow
<1>0. /\ pc[t] \in WritingPCs => routes[Key(t)] = NoRow /\ key[cur[t]] \in Keys
      /\ pc[t] = "write" => key[cur[t]] \in Keys
  BY DEF ThreadsInv, ControlOK, CacheInv, WritingPCs, ResolvingPCs
<1> DEFINE G == routes'[Key(t)'] = NoRow
<1> USE DEF ThreadsInv, TypeOK, Goto, tableVars, requestVars, WritingPCs, Key, AllKeys
<1>1. CASE ProbeHit(t)
  BY <1>1, <1>0 DEF ProbeHit
<1>2. CASE ProbeMiss(t)
  BY <1>2, <1>0 DEF ProbeMiss
<1>3. CASE TouchHit(t)
  BY <1>3, <1>0 DEF TouchHit
<1>4. CASE FindShared(t)
  BY <1>4, <1>0 DEF FindShared
<1>5. CASE MissShared(t)
  BY <1>5, <1>0 DEF MissShared
<1>6. CASE InsertRow(t)
  BY <1>6, <1>0 DEF InsertRow, Create
<1>7. CASE BeginScan(t)
  BY <1>7, <1>0 DEF BeginScan
<1>8. CASE EvictRow(t)
  BY <1>8, <1>0 DEF EvictRow
<1>9. CASE BumpGeneration(t)
  BY <1>9, <1>0 DEF BumpGeneration
<1>10. CASE InsertAfterEviction(t)
  BY <1>10, <1>0 DEF InsertAfterEviction, Create, EndScan
<1>11. CASE UseOverflow(t)
  BY <1>11, <1>0 DEF UseOverflow, Create, EndScan
<1>12. CASE CountInFlight(t)
  BY <1>12, <1>0 DEF CountInFlight
<1>13. CASE StampObserve(t)
  BY <1>13, <1>0 DEF StampObserve
<1>14. CASE RecordSample(t)
  BY <1>14, <1>0 DEF RecordSample
<1>15. CASE ServeOther(t)
  BY <1>15, <1>0 DEF ServeOther
<1>16. ASSUME NEW w \in Requests, ScanRow(t, w) PROVE G
  BY <1>16, <1>0 DEF ScanRow
<1>17. ASSUME NEW r \in Requests, Complete(t, r) PROVE G
  BY <1>17, <1>0 DEF Complete
<1>18. ASSUME NEW r \in Requests, NEW j \in Keys, Start(t, r, j) PROVE G
  BY <1>18, <1>0 DEF Start
<1> QED
  BY <1>1, <1>2, <1>3, <1>4, <1>5, <1>6, <1>7, <1>8, <1>9, <1>10, <1>11, <1>12,
     <1>13, <1>14, <1>15, <1>16, <1>17, <1>18
  DEF ThreadStep, Advance

LEMMA KeyStaysFree ==
  ASSUME ThreadsInv, CacheInv, NEW t \in Threads, ThreadStep(t), NEW u \in Threads,
         pc'[u] \in WritingPCs
  PROVE  routes'[Key(u)'] = NoRow
<1>1. CASE u # t
  <2>1. pc[u] \in WritingPCs /\ cur'[u] = cur[u]
    BY <1>1, OthersStay
  <2>2. key'[cur[u]] = key[cur[u]]
    BY <1>1, <2>1, OthersRequestStays DEF WritingPCs
  <2>3. writer = u /\ routes[Key(u)] = NoRow /\ Key(u) \in AllKeys /\ NoThread \notin Threads
    BY <2>1, TableAssumption
    DEF ThreadsInv, ControlOK, CacheInv, Key, AllKeys, WritingPCs, ResolvingPCs
  <2>4. routes'[Key(u)] = NoRow
    BY <1>1, <2>3, RowsStay, EvictionRemoves
  <2> QED
    BY <2>1, <2>2, <2>4 DEF Key
<1> QED
  BY <1>1, MoversKeyStaysFree

LEMMA CacheInvStep == ThreadsInv /\ CacheInv /\ [Next]_vars => CacheInv'
<1> SUFFICES ASSUME ThreadsInv, CacheInv, [Next]_vars PROVE CacheInv'
  OBVIOUS
<1>1. ASSUME NEW t \in Threads, ThreadStep(t) PROVE CacheInv'
  <2>1. CacheCoherent'
    BY <1>1, OthersCoherent, MoverCoherent DEF CacheCoherent
  <2> QED
    BY <1>1, <2>1, GenerationSteps, KeyStaysFree DEF CacheInv
<1>2. CASE Tick \/ (\E r \in Requests : End(r)) \/ UNCHANGED vars
  BY <1>2 DEF CacheInv, CacheCoherent, Evicting, Tick, End, vars, tableVars, rowVars,
     requestVars, cacheVars, scanVars, Key
<1> QED
  BY <1>1, <1>2, NextMoves

LEMMA CacheInvInit == Init => CacheInv
BY DEF Init, CacheInv, CacheCoherent, WritingPCs, NoCache

\* As soon as a thread's cache is of the current generation, each row it names is the
\* one the table has for the key, so that no request is counted on a row that was
\* evicted (endpoints.rs:70-78, 499-500, 521-523).
THEOREM CachesCoherent == Spec => []CacheCoherent
<1>1. CacheInv => CacheCoherent
  BY DEF CacheInv
<1> QED
  BY <1>1, ThreadsInvInit, ThreadsInvStep, CacheInvInit, CacheInvStep, PTL DEF Spec

\* However many threads miss one key together, the row the first of them inserts is not
\* replaced: rows leave the table by eviction only (endpoints.rs:514-518).
THEOREM RowsNeverReplaced == Spec => NeverReplaced
<1> DEFINE Kept == \A k \in AllKeys :
                     routes[k] # NoRow /\ routes'[k] # NoRow => routes'[k] = routes[k]
<1>1. ThreadsInv /\ CacheInv /\ [Next]_vars => [Kept]_vars
  <2> SUFFICES ASSUME ThreadsInv, CacheInv, Next PROVE Kept
    BY DEF vars, tableVars
  <2>1. ASSUME NEW t \in Threads, ThreadStep(t) PROVE Kept
    BY <2>1, RowsStay, EvictionRemoves
  <2>2. CASE Tick \/ (\E r \in Requests : End(r))
    BY <2>2 DEF Tick, End, tableVars
  <2> QED
    BY <2>1, <2>2, NextMoves
<1> QED
  BY <1>1, ThreadsInvInit, ThreadsInvStep, CacheInvInit, CacheInvStep, PTL
  DEF Spec, NeverReplaced

-----------------------------------------------------------------------------
(* Stamps and samples.                                                     *)

\* Only a completion writes them: it stamps its row, then records its sample.
LEMMA WhoStamps ==
  ASSUME ThreadsInv, NEW t \in Threads, ThreadStep(t)
  PROVE  /\ now' = now
         /\ StampObserve(t) \/ (lastObserve' = lastObserve /\ late' = late)
         /\ RecordSample(t) \/ samples' = samples
         /\ pc'[t] = "sample" => StampObserve(t)
         /\ pc'[t] = "stamp" => otick'[t] = now
         /\ otick'[t] \in {otick[t], now, 0}
         /\ pc[t] = "sample" => RecordSample(t)
<1> DEFINE G == /\ now' = now
                /\ StampObserve(t) \/ (lastObserve' = lastObserve /\ late' = late)
                /\ RecordSample(t) \/ samples' = samples
                /\ pc'[t] = "sample" => StampObserve(t)
                /\ pc'[t] = "stamp" => otick'[t] = now
                /\ otick'[t] \in {otick[t], now, 0}
                /\ pc[t] = "sample" => RecordSample(t)
<1> USE DEF ThreadsInv, TypeOK, Goto, rowVars
<1>1. CASE ProbeHit(t)
  BY <1>1 DEF ProbeHit
<1>2. CASE ProbeMiss(t)
  BY <1>2 DEF ProbeMiss
<1>3. CASE TouchHit(t)
  BY <1>3 DEF TouchHit
<1>4. CASE FindShared(t)
  BY <1>4 DEF FindShared
<1>5. CASE MissShared(t)
  BY <1>5 DEF MissShared
<1>6. CASE InsertRow(t)
  BY <1>6 DEF InsertRow, Create
<1>7. CASE BeginScan(t)
  BY <1>7 DEF BeginScan
<1>8. CASE EvictRow(t)
  BY <1>8 DEF EvictRow
<1>9. CASE BumpGeneration(t)
  BY <1>9 DEF BumpGeneration
<1>10. CASE InsertAfterEviction(t)
  BY <1>10 DEF InsertAfterEviction, Create, EndScan
<1>11. CASE UseOverflow(t)
  BY <1>11 DEF UseOverflow, Create, EndScan
<1>12. CASE CountInFlight(t)
  BY <1>12 DEF CountInFlight
<1>13. CASE StampObserve(t)
  BY <1>13 DEF StampObserve
<1>14. CASE RecordSample(t)
  BY <1>14 DEF RecordSample
<1>15. CASE ServeOther(t)
  BY <1>15 DEF ServeOther
<1>16. ASSUME NEW w \in Requests, ScanRow(t, w) PROVE G
  BY <1>16 DEF ScanRow
<1>17. ASSUME NEW r \in Requests, Complete(t, r) PROVE G
  BY <1>17 DEF Complete
<1>18. ASSUME NEW r \in Requests, NEW j \in Keys, Start(t, r, j) PROVE G
  BY <1>18 DEF Start
<1> QED
  BY <1>1, <1>2, <1>3, <1>4, <1>5, <1>6, <1>7, <1>8, <1>9, <1>10, <1>11, <1>12,
     <1>13, <1>14, <1>15, <1>16, <1>17, <1>18
  DEF ThreadStep, Advance

\* What the two steps of a completion change.
LEMMA StampObserveIs ==
  ASSUME ThreadsInv, NEW t \in Threads, StampObserve(t)
  PROVE  /\ handle[cur[t]] \in Requests /\ cur' = cur /\ handle' = handle /\ samples' = samples
         /\ pc'[t] = "sample" /\ pc[t] = "stamp" /\ otick' = otick
         /\ late' = (late \/ now - otick[t] > MaxStale)
         /\ \E l \in Lines : \A w \in Requests, x \in Lines :
              lastObserve'[w][x] = IF w = handle[cur[t]] /\ x = l
                                   THEN otick[t] + 1 ELSE lastObserve[w][x]
<1>1. /\ handle[cur[t]] \in Requests /\ cur' = cur /\ handle' = handle /\ samples' = samples
      /\ pc'[t] = "sample" /\ pc[t] = "stamp" /\ otick' = otick
  BY DEF ThreadsInv, TypeOK, ControlOK, StampObserve, CompletingPCs, Goto, requestVars
<1>2. late' = (late \/ now - otick[t] > MaxStale)
  BY DEF StampObserve
<1>3. PICK l \in Lines :
        lastObserve' = [lastObserve EXCEPT ![handle[cur[t]]][l] = otick[t] + 1]
  BY DEF StampObserve
<1>4. \A w \in Requests, x \in Lines :
        lastObserve'[w][x] = IF w = handle[cur[t]] /\ x = l
                             THEN otick[t] + 1 ELSE lastObserve[w][x]
  BY <1>1, <1>3 DEF ThreadsInv, TypeOK
<1> QED
  BY <1>1, <1>2, <1>4

LEMMA RecordSampleIs ==
  ASSUME ThreadsInv, NEW t \in Threads, RecordSample(t)
  PROVE  /\ handle[cur[t]] \in Requests /\ pc[t] = "sample" /\ pc'[t] = "idle"
         /\ lastObserve' = lastObserve
         /\ \A w \in Requests :
              samples'[w] = IF w = handle[cur[t]] THEN samples[w] \cup {otick[t]}
                            ELSE samples[w]
BY DEF ThreadsInv, TypeOK, ControlOK, RecordSample, CompletingPCs, Goto

LEMMA SamplesStay ==
  ASSUME ThreadsInv, NEW t \in Threads, ThreadStep(t)
  PROVE  \A w \in Requests : samples[w] \subseteq samples'[w]
BY WhoStamps, RecordSampleIs

LEMMA StampNumbers ==
  ASSUME ThreadsInv
  PROVE  /\ now \in Nat /\ now \in Int /\ MaxStale \in Nat /\ late \in BOOLEAN
         /\ \A t \in Threads : otick[t] \in Nat
         /\ \A w \in Requests : /\ \A l \in Lines : lastObserve[w][l] \in Nat
                                /\ \A s \in samples[w] : s \in Nat
BY TableAssumption DEF ThreadsInv, TypeOK

\* A stamp that the clock did not overtake leaves every sample covered, whatever it is
\* stored over.
LEMMA CoveredKept ==
  ASSUME ThreadsInv, StampInv, NEW t \in Threads, ThreadStep(t), ~late',
         NEW w \in Requests, NEW s \in Nat, s <= now, Covered(w, s)
  PROVE  Covered(w, s)'
<1>1. PICK l \in Lines : lastObserve[w][l] # 0 /\ s < lastObserve[w][l] + MaxStale
  BY DEF Covered
<1>2. CASE StampObserve(t)
  <2>1. PICK x \in Lines : \A v \in Requests, y \in Lines :
          lastObserve'[v][y] = IF v = handle[cur[t]] /\ y = x
                               THEN otick[t] + 1 ELSE lastObserve[v][y]
    BY <1>2, StampObserveIs
  <2>2. CASE lastObserve'[w][l] = lastObserve[w][l]
    BY <1>1, <2>2 DEF Covered
  <2>3. CASE lastObserve'[w][l] # lastObserve[w][l]
    <3>1. lastObserve'[w][l] = otick[t] + 1
      BY <2>1, <2>3
    <3>2. ~(now - otick[t] > MaxStale)
      BY <1>2, StampObserveIs
    <3>3. otick[t] \in Nat /\ now \in Nat /\ MaxStale \in Nat
      BY StampNumbers
    <3>4. otick[t] + 1 # 0 /\ s < (otick[t] + 1) + MaxStale
      BY <3>2, <3>3
    <3> QED
      BY <3>1, <3>4 DEF Covered
  <2> QED
    BY <2>2, <2>3
<1>3. CASE ~StampObserve(t)
  BY <1>1, <1>3, WhoStamps DEF Covered
<1> QED
  BY <1>2, <1>3

LEMMA LateStays ==
  ASSUME ThreadsInv, NEW t \in Threads, ThreadStep(t), ~late'
  PROVE  ~late
BY WhoStamps, StampObserveIs, StampNumbers

LEMMA StampInvRows ==
  ASSUME ThreadsInv, StampInv, NEW t \in Threads, ThreadStep(t), NEW w \in Requests,
         NEW s \in samples'[w]
  PROVE  s <= now' /\ (~late' => Covered(w, s)')
<1>1. CASE s \in samples[w]
  <2>1. s \in Nat /\ s <= now /\ now' = now
    BY <1>1, StampNumbers, WhoStamps DEF StampInv
  <2>2. ASSUME ~late' PROVE Covered(w, s)'
    <3>1. Covered(w, s)
      BY <1>1, <2>2, LateStays DEF StampInv
    <3> QED
      BY <2>1, <2>2, <3>1, CoveredKept
  <2> QED
    BY <2>1, <2>2
<1>2. CASE s \notin samples[w]
  <2>1. /\ RecordSample(t) /\ w = handle[cur[t]] /\ s = otick[t] /\ pc[t] = "sample"
        /\ now' = now
    <3>1. RecordSample(t) /\ now' = now
      BY <1>2, WhoStamps
    <3>2. /\ pc[t] = "sample"
          /\ samples'[w] = IF w = handle[cur[t]] THEN samples[w] \cup {otick[t]}
                           ELSE samples[w]
      BY <3>1, RecordSampleIs
    <3> QED
      BY <1>2, <3>1, <3>2
  <2>2. s \in Nat /\ s <= now
    BY <2>1, StampNumbers DEF StampInv
  <2>3. ASSUME ~late' PROVE Covered(w, s)'
    <3>1. Covered(w, s)
      BY <2>1, <2>3, LateStays DEF StampInv
    <3> QED
      BY <2>2, <2>3, <3>1, CoveredKept
  <2> QED
    BY <2>1, <2>2, <2>3
<1> QED
  BY <1>1, <1>2

LEMMA StampInvThreads ==
  ASSUME ThreadsInv, StampInv, NEW t \in Threads, ThreadStep(t), NEW u \in Threads
  PROVE  /\ otick'[u] <= now'
         /\ pc'[u] = "sample" /\ ~late' => Covered(handle[cur[u]], otick[u])'
<1>0. /\ otick[u] <= now /\ now \in Nat /\ otick[u] \in Nat /\ now' = now
  BY StampNumbers, WhoStamps DEF StampInv
<1>1. CASE u # t
  <2>1. pc'[u] = pc[u] /\ cur'[u] = cur[u] /\ otick'[u] = otick[u]
    BY <1>1, OthersStay
  <2>2. ASSUME pc'[u] = "sample", ~late' PROVE Covered(handle[cur[u]], otick[u])'
    <3>1. handle'[cur'[u]] = handle[cur[u]] /\ handle[cur[u]] \in Requests
      BY <1>1, <2>1, <2>2, OthersRequestStays DEF ThreadsInv, ControlOK, CompletingPCs
    <3>2. Covered(handle[cur[u]], otick[u])
      BY <2>1, <2>2, LateStays DEF StampInv
    <3>3. \E l \in Lines : lastObserve'[handle[cur[u]]][l] # 0
             /\ otick[u] < lastObserve'[handle[cur[u]]][l] + MaxStale
      BY <1>0, <2>2, <3>1, <3>2, CoveredKept DEF Covered
    <3> QED
      BY <2>1, <3>1, <3>3 DEF Covered
  <2> QED
    BY <1>0, <2>1, <2>2
<1>2. CASE u = t
  <2>1. otick'[t] <= now'
    BY <1>0, <1>2, WhoStamps
  <2>2. ASSUME pc'[t] = "sample" PROVE Covered(handle[cur[t]], otick[t])'
    <3>1. StampObserve(t)
      BY <2>2, WhoStamps
    <3>2. PICK x \in Lines : lastObserve'[handle[cur[t]]][x] = otick[t] + 1
      BY <3>1, StampObserveIs
    <3>3. otick[t] + 1 # 0 /\ otick[t] < (otick[t] + 1) + MaxStale
      BY StampNumbers
    <3>4. cur' = cur /\ handle' = handle /\ otick' = otick
      BY <3>1, StampObserveIs
    <3> QED
      BY <3>2, <3>3, <3>4 DEF Covered
  <2> QED
    BY <1>2, <2>1, <2>2
<1> QED
  BY <1>1, <1>2

LEMMA StampInvStep == ThreadsInv /\ StampInv /\ [Next]_vars => StampInv'
<1> SUFFICES ASSUME ThreadsInv, StampInv, [Next]_vars PROVE StampInv'
  OBVIOUS
<1>1. ASSUME NEW t \in Threads, ThreadStep(t) PROVE StampInv'
  <2>1. \A w \in Requests : \A s \in samples'[w] : s <= now' /\ (~late' => Covered(w, s)')
    BY <1>1, StampInvRows
  <2>2. \A u \in Threads :
          /\ otick'[u] <= now'
          /\ pc'[u] = "sample" /\ ~late' => Covered(handle[cur[u]], otick[u])'
    BY <1>1, StampInvThreads
  <2> QED
    BY <2>1, <2>2 DEF StampInv
<1>2. CASE Tick
  <2>1. /\ now' = now + 1 /\ lastObserve' = lastObserve /\ samples' = samples /\ otick' = otick
        /\ pc' = pc /\ cur' = cur /\ handle' = handle /\ late' = late
    BY <1>2 DEF Tick, rowVars, requestVars
  <2>2. \A w \in Requests : \A s \in samples[w] : s <= now'
    BY <2>1, StampNumbers DEF StampInv
  <2>3. \A t \in Threads : otick[t] <= now'
    BY <2>1, StampNumbers DEF StampInv
  <2> QED
    BY <2>1, <2>2, <2>3 DEF StampInv, Covered
<1>3. ASSUME NEW r \in Requests, End(r) PROVE StampInv'
  <2>1. \A t \in Threads : pc[t] = "sample" => handle'[cur[t]] = handle[cur[t]]
    BY <1>3 DEF ThreadsInv, ControlOK, TypeOK, CompletingPCs, End
  <2> QED
    BY <1>3, <2>1 DEF StampInv, Covered, End, rowVars
<1>4. CASE UNCHANGED vars
  BY <1>4 DEF StampInv, Covered, vars, rowVars, requestVars
<1> QED
  BY <1>1, <1>2, <1>3, <1>4, NextMoves

LEMMA StampInvInit == Init => StampInv
<1> SUFFICES ASSUME Init PROVE StampInv
  OBVIOUS
<1> QED
  BY TableAssumption DEF Init, StampInv

\* A row that is cold in a second has no sample that the window ending then holds but
\* those in its last MaxStale seconds.
LEMMA ColdIsNearlyEmpty ==
  ASSUME ThreadsInv, StampInv, ~late, NEW w \in Requests, NEW second \in Nat,
         IsCold(w, second), NEW s \in samples[w]
  PROVE  second - s >= WindowSecs - MaxStale
<1>1. PICK l \in Lines : lastObserve[w][l] # 0 /\ s < lastObserve[w][l] + MaxStale
  BY DEF StampInv, Covered
<1> DEFINE latest == Max({lastObserve[w][x] : x \in Lines})
<1>2. latest \in Nat /\ lastObserve[w][l] <= latest
  BY StampNumbers, LatestIs, TableAssumption
<1>3. s \in Nat /\ lastObserve[w][l] \in Nat /\ WindowSecs \in Nat /\ MaxStale \in Nat
  BY StampNumbers, TableAssumption
<1>4. latest = 0 \/ (second >= latest - 1 /\ second - (latest - 1) >= WindowSecs)
  BY DEF IsCold
<1> HIDE DEF latest
<1> QED
  BY <1>1, <1>2, <1>3, <1>4

\* Whatever lines the threads stamp, their own or shared ones, and however an earlier
\* second is stored over a later one: while each completion stores its stamp within
\* MaxStale seconds of its clock read, a row whose latest stamp is out of the window has
\* no completion in it but those in its last MaxStale seconds (endpoints.rs:275-287,
\* 371-374, 420-421).
THEOREM ColdRowsNearlyEmpty == Spec => []ColdNearlyEmpty
<1>1. ThreadsInv /\ StampInv => ColdNearlyEmpty
  BY ColdIsNearlyEmpty, StampNumbers DEF ColdNearlyEmpty
<1>2. ThreadsInv /\ StampInv /\ [Next]_vars => (ThreadsInv /\ StampInv)'
  BY ThreadsInvStep, StampInvStep
<1> QED
  BY <1>1, <1>2, ThreadsInvInit, StampInvInit, PTL DEF Spec

-----------------------------------------------------------------------------
(* The scan of an eviction.                                                *)

LEMMA StampedForKept ==
  ASSUME ThreadsInv, StampInv, ScanInv, NEW t \in Threads, ThreadStep(t),
         NEW w \in Requests, NEW l \in Lines, lastObserve'[w][l] # 0
  PROVE  StampedFor(w, l)'
<1>1. CASE lastObserve'[w][l] # lastObserve[w][l]
  <2>1. StampObserve(t)
    BY <1>1, WhoStamps
  <2>2. w = handle[cur[t]] /\ lastObserve'[w][l] = otick[t] + 1
    BY <1>1, <2>1, StampObserveIs
  <2>3. pc'[t] = "sample" /\ handle'[cur'[t]] = w /\ otick'[t] = otick[t]
    BY <2>1, <2>2, StampObserveIs
  <2>4. otick[t] = lastObserve'[w][l] - 1
    BY <2>2, StampNumbers
  <2> QED
    BY <2>3, <2>4 DEF StampedFor
<1>2. CASE lastObserve'[w][l] = lastObserve[w][l]
  <2>1. StampedFor(w, l)
    BY <1>2 DEF ScanInv
  <2>2. CASE lastObserve[w][l] - 1 \in samples[w]
    BY <1>2, <2>2, SamplesStay DEF StampedFor
  <2>3. ASSUME NEW u \in Threads, pc[u] = "sample", handle[cur[u]] = w,
               otick[u] = lastObserve[w][l] - 1
        PROVE  StampedFor(w, l)'
    <3>1. CASE u = t
      <4>1. RecordSample(t)
        BY <2>3, <3>1, WhoStamps
      <4>2. otick[t] \in samples'[w]
        BY <2>3, <3>1, <4>1, RecordSampleIs
      <4> QED
        BY <1>2, <2>3, <3>1, <4>2 DEF StampedFor
    <3>2. CASE u # t
      <4>1. pc'[u] = "sample" /\ handle'[cur'[u]] = w /\ otick'[u] = otick[u]
        BY <3>2, <2>3, OthersStay, OthersRequestStays
      <4> QED
        BY <1>2, <2>3, <4>1 DEF StampedFor
    <3> QED
      BY <3>1, <3>2
  <2> QED
    BY <2>1, <2>2, <2>3 DEF StampedFor
<1> QED
  BY <1>1, <1>2

\* A row without requests in flight that is not cold holds a sample of the window.
LEMMA WarmHolds ==
  ASSUME ThreadsInv, StampInv, ScanInv, NEW t \in Threads, NEW w \in Requests,
         InFlightOn(w) = {}, NEW second \in Nat, ~IsCold(w, second)
  PROVE  Holds(w, second)
<1> DEFINE latest == Max({lastObserve[w][x] : x \in Lines})
<1>1. PICK l \in Lines : latest = lastObserve[w][l]
  <2>1. \A x \in Lines : lastObserve[w][x] \in Nat
    BY StampNumbers
  <2> QED
    BY <2>1, LatestIs, TableAssumption
<1>2. latest \in Nat /\ WindowSecs \in Nat \ {0}
  BY <1>1, StampNumbers, TableAssumption
<1>3. latest # 0 /\ ~(second >= latest - 1 /\ second - (latest - 1) >= WindowSecs)
  BY DEF IsCold
<1>4. second - (latest - 1) < WindowSecs
  <2> HIDE DEF latest
  <2> QED
    BY <1>2, <1>3
<1>5. ASSUME NEW u \in Threads, pc[u] = "sample", handle[cur[u]] = w PROVE FALSE
  <2>1. cur[u] \in Requests /\ state[cur[u]] = "completing"
    BY <1>5 DEF ThreadsInv, ControlOK, CompletingPCs
  <2> QED
    BY <2>1, <1>5 DEF InFlightOn
<1>6. StampedFor(w, l)
  BY <1>1, <1>3 DEF ScanInv
<1>7. latest - 1 \in samples[w]
  BY <1>1, <1>5, <1>6 DEF StampedFor
<1> QED
  BY <1>4, <1>7 DEF Holds

\* While one thread scans, the others leave the scan and the table alone.
LEMMA ScanIsAlone ==
  ASSUME ThreadsInv, CacheInv, NEW t \in Threads, ThreadStep(t), NEW u \in Threads, u # t,
         pc[u] = "scan"
  PROVE  UNCHANGED <<left, scanned, etick>> /\ Rows' = Rows
<1>0. /\ pc[t] \notin WritingPCs /\ writer = u /\ writer # NoThread /\ writer # t
  BY TableAssumption DEF ThreadsInv, ControlOK, WritingPCs
<1> DEFINE G == UNCHANGED <<left, scanned, etick>>
<1>a. G
  <2> USE DEF scanVars, WritingPCs
  <2> QED
    BY <1>0 DEF ThreadStep, Advance, ProbeHit, ProbeMiss, TouchHit, FindShared, MissShared,
       InsertRow, BeginScan, EvictRow, BumpGeneration, InsertAfterEviction, UseOverflow,
       CountInFlight, StampObserve, RecordSample, ScanRow, ServeOther, Complete, Start
<1>b. ~EvictRow(t)
  BY <1>0 DEF EvictRow, WritingPCs
<1>c. \A k \in AllKeys : routes'[k] = routes[k]
  BY <1>0, <1>b, RowsStay
<1> QED
  BY <1>a, <1>c DEF Rows, Tracked

\* What ScanInv says of a scan.
ScanOf(t) ==
  pc[t] = "scan" =>
    /\ left \subseteq Rows
    /\ \A c \in scanned :
         /\ c.row \in Rows /\ c.row \notin left
         /\ ~c.cold => Holds(c.row, etick)
         /\ \A d \in scanned : c.row = d.row => c = d

LEMMA OthersScan ==
  ASSUME ThreadsInv, CacheInv, StampInv, ScanInv, NEW t \in Threads, ThreadStep(t),
         NEW u \in Threads, u # t
  PROVE  ScanOf(u)'
<1> SUFFICES ASSUME pc'[u] = "scan" PROVE ScanOf(u)'
  BY DEF ScanOf
<1>1. pc[u] = "scan"
  BY OthersStay
<1>2. UNCHANGED <<left, scanned, etick>> /\ Rows' = Rows
  BY <1>1, ScanIsAlone
<1>3. ASSUME NEW c \in scanned, ~c.cold PROVE Holds(c.row, etick)'
  <2>1. c.row \in Requests /\ Holds(c.row, etick)
    BY <1>1, <1>3 DEF ScanInv, ThreadsInv, TypeOK
  <2> QED
    BY <2>1, <1>2, SamplesStay DEF Holds
<1> QED
  BY <1>1, <1>2, <1>3 DEF ScanInv, ScanOf

LEMMA MoversScan ==
  ASSUME ThreadsInv, StampInv, ScanInv, NEW t \in Threads, ThreadStep(t)
  PROVE  ScanOf(t)'
<1> SUFFICES ASSUME pc'[t] = "scan" PROVE ScanOf(t)'
  BY DEF ScanOf
<1>1. BeginScan(t) \/ (\E w \in Requests : ScanRow(t, w))
  BY DEF ThreadStep, Advance, ProbeHit, ProbeMiss, TouchHit, FindShared, MissShared,
     InsertRow, BeginScan, EvictRow, BumpGeneration, InsertAfterEviction, UseOverflow,
     CountInFlight, StampObserve, RecordSample, ServeOther, Complete, Start, Goto,
     ThreadsInv, TypeOK
<1>2. CASE BeginScan(t)
  BY <1>2 DEF BeginScan, ScanOf, Rows, Tracked
<1>3. ASSUME NEW w \in Requests, ScanRow(t, w) PROVE ScanOf(t)'
  <2> DEFINE new == [row |-> w, cold |-> IsCold(w, etick), used |-> LastUsed(w)]
  <2>1. /\ pc[t] = "scan" /\ w \in left /\ left' = left \ {w} /\ samples' = samples
        /\ etick' = etick /\ routes' = routes
        /\ \/ scanned' = scanned
           \/ InFlightOn(w) = {} /\ scanned' = scanned \cup {new}
    BY <1>3 DEF ScanRow, tableVars, rowVars
  <2>2. /\ left \subseteq Rows /\ Rows' = Rows
        /\ \A c \in scanned : /\ c.row \in Rows /\ c.row \notin left
                              /\ ~c.cold => Holds(c.row, etick)
                              /\ \A d \in scanned : c.row = d.row => c = d
    BY <2>1 DEF ScanInv, Rows, Tracked
  <2>3. \A c : Holds(c.row, etick)' <=> Holds(c.row, etick)
    BY <2>1 DEF Holds
  <2>4. CASE scanned' = scanned
    BY <2>1, <2>2, <2>3, <2>4 DEF ScanOf
  <2>5. CASE InFlightOn(w) = {} /\ scanned' = scanned \cup {new}
    <3>1. new.row = w /\ (~new.cold => Holds(w, etick))
      <4>1. etick \in Nat
        BY TableAssumption DEF ThreadsInv, TypeOK
      <4> QED
        BY <4>1, <2>5, WarmHolds
    <3> HIDE DEF new
    <3> QED
      BY <2>1, <2>2, <2>3, <2>5, <3>1 DEF ScanOf
  <2> QED
    BY <2>1, <2>4, <2>5
<1> QED
  BY <1>1, <1>2, <1>3

LEMMA ScanInvStep ==
  ThreadsInv /\ CacheInv /\ StampInv /\ ScanInv /\ [Next]_vars => ScanInv'
<1> SUFFICES ASSUME ThreadsInv, CacheInv, StampInv, ScanInv, [Next]_vars PROVE ScanInv'
  OBVIOUS
<1>1. ASSUME NEW t \in Threads, ThreadStep(t) PROVE ScanInv'
  <2>1. \A u \in Threads : ScanOf(u)'
    BY <1>1, OthersScan, MoversScan
  <2> QED
    BY <1>1, <2>1, StampedForKept DEF ScanInv, ScanOf
<1>2. ASSUME NEW r \in Requests, End(r) PROVE ScanInv'
  <2>1. \A t \in Threads : pc[t] = "sample" => handle'[cur[t]] = handle[cur[t]]
    BY <1>2 DEF ThreadsInv, ControlOK, TypeOK, CompletingPCs, End
  <2>2. \A w \in Requests, l \in Lines : StampedFor(w, l) => StampedFor(w, l)'
    BY <1>2, <2>1 DEF StampedFor, End, rowVars
  <2> QED
    BY <1>2, <2>2
    DEF ScanInv, End, rowVars, tableVars, scanVars, Rows, Tracked, Holds
<1>3. CASE Tick \/ UNCHANGED vars
  BY <1>3 DEF ScanInv, StampedFor, Tick, vars, rowVars, tableVars, scanVars, requestVars,
     Rows, Tracked, Holds
<1> QED
  BY <1>1, <1>2, <1>3, NextMoves

LEMMA ScanInvInit == Init => ScanInv
<1> SUFFICES ASSUME Init PROVE ScanInv
  OBVIOUS
<1>1. \A w \in Requests, l \in Lines : lastObserve[w][l] = 0
  BY DEF Init
<1> QED
  BY <1>1 DEF Init, ScanInv

\* The candidate that an eviction removes is the victim it chose.
LEMMA VictimIs ==
  ASSUME ThreadsInv, ScanInv, NEW t \in Threads, EvictRow(t), NEW c \in scanned,
         \A k \in AllKeys : routes'[k] # c.row
  PROVE  \A other \in scanned : Better(c, other)
<1>1. PICK v \in scanned :
        /\ \A other \in scanned : Better(v, other)
        /\ routes' = [k \in AllKeys |-> IF routes[k] = v.row THEN NoRow ELSE routes[k]]
  BY DEF EvictRow
<1>2. pc[t] = "scan"
  BY DEF EvictRow
<1>3. PICK k \in AllKeys : routes[k] = c.row
  BY <1>2 DEF ScanInv, Rows, Tracked
<1>4. c.row = v.row
  BY <1>1, <1>3
<1>5. c = v
  BY <1>2, <1>4 DEF ScanInv
<1> QED
  BY <1>1, <1>5

\* A candidate that still looks as it did when it was scanned is cold if it holds no
\* sample of the window, and warm if it holds a recent one.
LEMMA ColdOrHolds ==
  ASSUME ThreadsInv, StampInv, ScanInv, ~late, NEW t \in Threads, pc[t] = "scan",
         NEW c \in scanned, Unchanged(c)
  PROVE  /\ HoldsRecent(c.row, etick) => ~c.cold
         /\ ~c.cold => Holds(c.row, etick)
         /\ c.used = LastUsed(c.row)
<1>1. c.row \in Requests /\ etick \in Nat
  BY TableAssumption DEF ThreadsInv, TypeOK
<1>2. ASSUME c.cold, NEW s \in samples[c.row] PROVE ~(etick - s < WindowSecs - MaxStale)
  <2>1. IsCold(c.row, etick)
    BY <1>2 DEF Unchanged
  <2>2. etick - s >= WindowSecs - MaxStale
    BY <1>1, <1>2, <2>1, ColdIsNearlyEmpty
  <2>3. s \in Nat /\ WindowSecs \in Nat /\ MaxStale \in Nat
    BY <1>1, <1>2, StampNumbers, TableAssumption
  <2> QED
    BY <1>1, <2>2, <2>3
<1>3. ~c.cold => Holds(c.row, etick)
  BY DEF ScanInv
<1> QED
  BY <1>2, <1>3 DEF Unchanged, HoldsRecent

LEMMA OrderKept ==
  ASSUME ThreadsInv, StampInv, ScanInv, ~late, NEW t \in Threads, EvictRow(t),
         NEW c \in scanned, NEW other \in scanned, Unchanged(c), Unchanged(other),
         \A k \in AllKeys : routes'[k] # c.row
  PROVE  /\ HoldsRecent(c.row, etick) => Holds(other.row, etick)
         /\ \/ ~Holds(c.row, etick) /\ ~Holds(other.row, etick)
            \/ HoldsRecent(c.row, etick) /\ HoldsRecent(other.row, etick)
              => LastUsed(c.row) <= LastUsed(other.row)
<1>1. Better(c, other)
  BY VictimIs
<1>2. /\ HoldsRecent(c.row, etick) => ~c.cold
      /\ ~c.cold => Holds(c.row, etick)
      /\ HoldsRecent(other.row, etick) => ~other.cold
      /\ ~other.cold => Holds(other.row, etick)
      /\ c.used = LastUsed(c.row) /\ other.used = LastUsed(other.row)
  BY ColdOrHolds DEF EvictRow
<1>3. c.cold \in BOOLEAN /\ other.cold \in BOOLEAN
  BY DEF ThreadsInv, TypeOK
<1> QED
  BY <1>1, <1>2, <1>3 DEF Better

\* A thread goes from the scan to telling the caches by an eviction only.
LEMMA BumpFollowsEviction ==
  ASSUME ThreadsInv, [Next]_vars, NEW t \in Threads, pc[t] = "scan", pc'[t] = "bump"
  PROVE  EvictRow(t)
<1>1. ASSUME NEW u \in Threads, ThreadStep(u) PROVE EvictRow(t)
  <2>1. u = t
    BY <1>1, OthersStay
  <2> QED
    BY <1>1, <2>1 DEF ThreadStep, Advance, ProbeHit, ProbeMiss, TouchHit, FindShared,
       MissShared, InsertRow, BeginScan, BumpGeneration, InsertAfterEviction, UseOverflow,
       CountInFlight, StampObserve, RecordSample, ScanRow, ServeOther, Complete, Start,
       Goto, ThreadsInv, TypeOK
<1>2. CASE Tick \/ (\E r \in Requests : End(r)) \/ UNCHANGED vars
  BY <1>2 DEF Tick, End, vars
<1> QED
  BY <1>1, <1>2, NextMoves

\* Whatever lines the threads stamp: a row with recent completions goes only when every
\* other candidate has completions of the window, and among candidates without any, or
\* all with recent ones, the one looked up longest ago goes, those the threads reached
\* meanwhile left out (lib.rs:9-11, endpoints.rs:566-594).
THEOREM EvictionInOrder == Spec => EmptyFirstThenLRU
<1> DEFINE InOrder ==
      ~late => \A t \in Threads : pc[t] = "scan" /\ pc'[t] = "bump" =>
        \A c \in scanned : \A other \in {d \in scanned : Unchanged(d)} :
          Unchanged(c) /\ (\A k \in AllKeys : routes'[k] # c.row) =>
            /\ HoldsRecent(c.row, etick) => Holds(other.row, etick)
            /\ \/ ~Holds(c.row, etick) /\ ~Holds(other.row, etick)
               \/ HoldsRecent(c.row, etick) /\ HoldsRecent(other.row, etick)
                 => LastUsed(c.row) <= LastUsed(other.row)
           Inv == ThreadsInv /\ CacheInv /\ StampInv /\ ScanInv
<1>1. Inv /\ [Next]_vars => [InOrder]_vars
  BY BumpFollowsEviction, OrderKept
<1>2. Inv /\ [Next]_vars => Inv'
  BY ThreadsInvStep, CacheInvStep, StampInvStep, ScanInvStep
<1>3. Init => Inv
  BY ThreadsInvInit, CacheInvInit, StampInvInit, ScanInvInit
<1> QED
  BY <1>1, <1>2, <1>3, PTL DEF Spec, EmptyFirstThenLRU
=============================================================================
