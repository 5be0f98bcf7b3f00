---------------------- MODULE ThreadIndexPoolProofs ----------------------
(***************************************************************************)
(* For every set of threads and every number of stages: no index is ever   *)
(* held twice, no index handed out is ever lost, the least free one is     *)
(* taken first, and the space of indices is never larger than it must be.  *)
(***************************************************************************)
EXTENDS ThreadIndexPool, FiniteSetTheorems, TLAPS

(***************************************************************************)
(* The partition alone is not inductive: a live thread must hold a real    *)
(* index (not NoIndex) for release to put a real index back, and only      *)
(* finitely many threads are live at once, for `peak' to be a number.      *)
(***************************************************************************)
IInv ==
  /\ TypeOK
  /\ IsFiniteSet(Live)
  /\ \A t \in Live : index[t] \in Nat
  /\ IndicesPartitioned

\* The place release computes lies within the vector.
LEMMA PartitionPointBounds ==
  ASSUME NEW seq \in Seq(Nat), NEW i \in Int
  PROVE  PartitionPoint(seq, i) \in 0..Len(seq)
<1> DEFINE above == {j \in DOMAIN seq : seq[j] > i}
<1>1. DOMAIN seq = 1..Len(seq) /\ Len(seq) \in Nat
  OBVIOUS
<1>2. IsFiniteSet(1..Len(seq)) /\ Cardinality(1..Len(seq)) = Len(seq)
  BY <1>1, FS_Interval
<1>3. above \subseteq 1..Len(seq)
  BY <1>1
<1>4. Cardinality(above) <= Len(seq)
  BY <1>2, <1>3, FS_Subset
<1>5. Cardinality(above) \in Nat
  BY <1>2, <1>3, FS_Subset, FS_CardinalityType
<1> QED
  BY <1>1, <1>4, <1>5 DEF PartitionPoint

\* Inserting a value at any place of a vector adds exactly that value to its
\* entries, and keeps them distinct when the value was not among them.
LEMMA InsertAfterEntries ==
  ASSUME NEW seq \in Seq(Nat), NEW p \in 0..Len(seq), NEW e \in Nat,
         IsInjective(seq),
         \A i \in DOMAIN seq : seq[i] # e,
         NEW ins, ins = InsertAfter(seq, p, e)
  PROVE  /\ ins \in Seq(Nat)
         /\ Range(ins) = Range(seq) \cup {e}
         /\ IsInjective(ins)
<1> DEFINE n == Len(seq)
<1>1. n \in Nat /\ DOMAIN seq = 1..n /\ \A j \in 1..n : seq[j] \in Nat
  OBVIOUS
<1>2. DOMAIN ins = 1..(n + 1)
  BY DEF InsertAfter
<1>3. \A j \in 1..(n + 1) :
        ins[j] = IF j <= p THEN seq[j] ELSE IF j = p + 1 THEN e ELSE seq[j - 1]
  BY DEF InsertAfter
<1>p. p \in Int /\ p >= 0 /\ p <= n
  OBVIOUS
<1> HIDE DEF n
<1>4. \A j \in 1..(n + 1) : ins[j] \in Nat
  BY <1>1, <1>3
<1>5. ins \in Seq(Nat)
  <2>1. ins = [j \in 1..(n + 1) |-> ins[j]]
    BY <1>2 DEF InsertAfter, n
  <2>2. n + 1 \in Nat /\ ins \in [1..(n + 1) -> Nat]
    BY <1>1, <1>4, <2>1
  <2> QED
    BY <2>2
<1>6. Range(ins) = Range(seq) \cup {e}
  <2>1. ASSUME NEW i \in DOMAIN seq
        PROVE  \E j \in DOMAIN ins : ins[j] = seq[i]
    <3>1. CASE i <= p
      BY <1>1, <1>2, <1>3, <3>1
    <3>2. CASE ~(i <= p)
      <4>1. i + 1 \in 1..(n + 1) /\ ~(i + 1 <= p) /\ i + 1 # p + 1 /\ (i + 1) - 1 = i
        BY <1>1, <3>2
      <4> QED
        BY <1>2, <1>3, <4>1
    <3> QED
      BY <3>1, <3>2
  <2>2. \E j \in DOMAIN ins : ins[j] = e
    <3>1. p + 1 \in 1..(n + 1) /\ ~(p + 1 <= p)
      BY <1>1 DEF n
    <3> QED
      BY <1>2, <1>3, <3>1
  <2>3. ASSUME NEW i \in DOMAIN ins
        PROVE  ins[i] = e \/ \E j \in DOMAIN seq : seq[j] = ins[i]
    <3>1. CASE i <= p
      <4>1. i \in DOMAIN seq /\ ins[i] = seq[i]
        BY <1>1, <1>2, <1>3, <1>p, <3>1
      <4> QED
        BY <4>1
    <3>2. CASE i = p + 1
      BY <1>1, <1>2, <1>3, <1>p, <3>2
    <3>3. CASE i > p + 1
      <4>1. i - 1 \in DOMAIN seq /\ ins[i] = seq[i - 1]
        BY <1>1, <1>2, <1>3, <1>p, <3>3
      <4> QED
        BY <4>1
    <3> QED
      BY <1>1, <1>2, <1>p, <3>1, <3>2, <3>3
  <2> QED
    BY <2>1, <2>2, <2>3 DEF Range
<1>7. ASSUME NEW i \in DOMAIN ins, NEW j \in DOMAIN ins, i < j
      PROVE  ins[i] # ins[j]
  <2> DEFINE old(k) == IF k <= p THEN k ELSE k - 1
  <2>1. ASSUME NEW k \in DOMAIN ins, k # p + 1
        PROVE  old(k) \in DOMAIN seq /\ ins[k] = seq[old(k)]
    <3>1. CASE k <= p
      BY <1>1, <1>2, <1>3, <1>p, <3>1
    <3>2. CASE ~(k <= p)
      <4>1. old(k) = k - 1 /\ k - 1 \in DOMAIN seq
        BY <1>1, <1>2, <1>p, <2>1, <3>2
      <4>2. ins[k] = seq[k - 1]
        BY <1>2, <1>3, <2>1, <3>2
      <4> QED
        BY <4>1, <4>2
    <3> QED
      BY <3>1, <3>2
  <2>2. ins[p + 1] = e
    BY <1>1, <1>3, <1>p
  <2>3. CASE i # p + 1 /\ j # p + 1
    <3>1. old(i) # old(j)
      BY <1>1, <1>2, <1>p, <1>7, <2>3
    <3> QED
      BY <2>1, <2>3, <3>1 DEF IsInjective
  <2>4. CASE i = p + 1 \/ j = p + 1
    BY <1>7, <1>1, <1>2, <2>1, <2>2, <2>4
  <2> QED
    BY <2>3, <2>4
<1>8. IsInjective(ins)
  BY <1>1, <1>2, <1>7 DEF IsInjective
<1> QED
  BY <1>5, <1>6, <1>8
\* Popping removes exactly the last entry.
LEMMA PopEntries ==
  ASSUME NEW seq \in Seq(Nat), seq # <<>>,
         IsInjective(seq),
         NEW rest, rest = SubSeq(seq, 1, Len(seq) - 1)
  PROVE  /\ rest \in Seq(Nat)
         /\ seq[Len(seq)] \in Nat
         /\ seq[Len(seq)] \in Range(seq)
         /\ Range(rest) = Range(seq) \ {seq[Len(seq)]}
         /\ IsInjective(rest)
<1> DEFINE n == Len(seq)
<1>1. n \in Nat \ {0} /\ DOMAIN seq = 1..n /\ \A j \in 1..n : seq[j] \in Nat
  OBVIOUS
<1>2. rest \in Seq(Nat) /\ DOMAIN rest = 1..(n - 1)
  BY <1>1
<1>3. \A j \in 1..(n - 1) : rest[j] = seq[j]
  BY <1>1
<1> HIDE DEF n
<1>4. Range(rest) = Range(seq) \ {seq[n]}
  <2>1. ASSUME NEW i \in DOMAIN rest
        PROVE  i \in DOMAIN seq /\ rest[i] = seq[i] /\ seq[i] # seq[n]
    BY <1>1, <1>2, <1>3 DEF IsInjective
  <2>2. ASSUME NEW i \in DOMAIN seq, seq[i] # seq[n]
        PROVE  i \in DOMAIN rest /\ rest[i] = seq[i]
    <3>1. i # n
      BY <2>2
    <3> QED
      BY <1>1, <1>2, <1>3, <3>1
  <2> QED
    BY <2>1, <2>2 DEF Range
<1>5. IsInjective(rest)
  BY <1>1, <1>2, <1>3 DEF IsInjective
<1>6. n \in DOMAIN seq /\ seq[n] \in Nat
  BY <1>1
<1>7. seq[n] \in Range(seq)
  BY <1>6 DEF Range
<1> QED
  BY <1>2, <1>4, <1>5, <1>6, <1>7 DEF n

-----------------------------------------------------------------------------
\* Taking an index keeps the partition: a popped index leaves the pool as it
\* is taken, a fresh one is above everything handed out.
LEMMA AcquireKeeps ==
  ASSUME IInv, NEW t \in Threads, Acquire(t)
  PROVE  IInv'
<1>1. Live' = Live \cup {t} /\ t \notin Live
  BY DEF IInv, TypeOK, Acquire, Live, Lives
<1>2. \A u \in Live : index'[u] = index[u]
  BY DEF IInv, TypeOK, Acquire, Live
<1>3. index'[t] = Popped /\ index' = [index EXCEPT ![t] = Popped]
  BY DEF IInv, TypeOK, Acquire
<1>4. Held' = Held \cup {Popped}
  BY <1>1, <1>2, <1>3 DEF Held
<1>5. IsFiniteSet(Live') /\ peak' \in Nat
  <2>1. IsFiniteSet(Live')
    BY <1>1, FS_AddElement DEF IInv
  <2>2. Cardinality(Live') \in Nat
    BY <2>1, FS_CardinalityType
  <2> QED
    BY <2>1, <2>2 DEF IInv, TypeOK, Acquire
<1>6. life' \in [Threads -> Lives]
  BY DEF IInv, TypeOK, Acquire, Lives
<1>7. CASE released = <<>>
  <2>1. Popped = next /\ next' = next + 1 /\ released' = released
    BY <1>7 DEF Acquire, Popped
  <2>2. Released' = Released /\ next \notin Held \cup Released
    BY <2>1 DEF IInv, TypeOK, IndicesPartitioned, Released
  <2>3. Held' \cup Released' = 0..(next' - 1)
    BY <1>4, <2>1, <2>2 DEF IInv, TypeOK, IndicesPartitioned
  <2>4. \A u, v \in Live' : u # v => index'[u] # index'[v]
    BY <1>1, <1>2, <1>3, <2>1, <2>2 DEF IInv, IndicesPartitioned, Held
  <2>5. IndicesPartitioned'
    BY <1>4, <2>1, <2>2, <2>3, <2>4 DEF IInv, IndicesPartitioned
  <2>6. TypeOK'
    <3>1. next' \in Nat /\ released' \in Seq(Nat)
      BY <2>1 DEF IInv, TypeOK
    <3>2. index' \in [Threads -> Nat \cup {NoIndex}]
      BY <1>3, <2>1 DEF IInv, TypeOK
    <3> QED
      BY <1>5, <1>6, <3>1, <3>2 DEF TypeOK
  <2>7. \A u \in Live' : index'[u] \in Nat
    BY <1>1, <1>2, <1>3, <2>1 DEF IInv, TypeOK
  <2> QED
    BY <1>5, <2>5, <2>6, <2>7 DEF IInv
<1>8. CASE released # <<>>
  <2>1. /\ Popped = released[Len(released)]
        /\ next' = next
        /\ released' = SubSeq(released, 1, Len(released) - 1)
    BY <1>8 DEF Acquire, Popped
  <2>2. /\ released' \in Seq(Nat)
        /\ Popped \in Nat
        /\ Popped \in Released
        /\ Released' = Released \ {Popped}
        /\ IsInjective(released')
    <3>1. /\ released \in Seq(Nat)
          /\ IsInjective(released)
      BY DEF IInv, TypeOK, IndicesPartitioned
    <3>2. /\ released' \in Seq(Nat)
          /\ released[Len(released)] \in Nat
          /\ released[Len(released)] \in Range(released)
          /\ Range(released') = Range(released) \ {released[Len(released)]}
          /\ IsInjective(released')
      BY <1>8, <2>1, <3>1, PopEntries
    <3> QED
      BY <2>1, <3>2 DEF Released
  <2>3. \A u, v \in Live' : u # v => index'[u] # index'[v]
    BY <1>1, <1>2, <1>3, <2>2 DEF IInv, IndicesPartitioned, Held
  <2>4. IndicesPartitioned'
    BY <1>4, <2>1, <2>2, <2>3 DEF IInv, IndicesPartitioned
  <2>5. TypeOK'
    BY <1>3, <1>5, <1>6, <2>1, <2>2 DEF IInv, TypeOK
  <2>6. \A u \in Live' : index'[u] \in Nat
    BY <1>1, <1>2, <1>3, <2>2 DEF IInv
  <2> QED
    BY <1>5, <2>4, <2>5, <2>6 DEF IInv
<1> QED
  BY <1>7, <1>8

\* Returning an index keeps the partition: it moves from the holder's side to
\* the pool's, at a place inside the vector.
LEMMA ReleaseKeeps ==
  ASSUME IInv, NEW t \in Threads, Release(t)
  PROVE  IInv'
<1> DEFINE p == PartitionPoint(released, index[t])
<1>1. t \in Live /\ Live' = Live \ {t} /\ index[t] \in Nat
  BY DEF IInv, TypeOK, Release, Live, Lives
<1>2. \A u \in Live' : index'[u] = index[u]
  BY <1>1 DEF IInv, TypeOK, Release, Live
<1>3. Held' = Held \ {index[t]} /\ index[t] \in Held
  BY <1>1, <1>2 DEF IInv, IndicesPartitioned, Held
<1>4. p \in 0..Len(released)
  BY <1>1, PartitionPointBounds DEF IInv, TypeOK
<1>5. released' = InsertAfter(released, p, index[t])
  BY DEF Release
<1>6. \A i \in DOMAIN released : released[i] # index[t]
  BY <1>3 DEF IInv, IndicesPartitioned, Released, Range
<1> HIDE DEF p
<1>7. /\ released' \in Seq(Nat)
      /\ Released' = Released \cup {index[t]}
      /\ IsInjective(released')
  <2>1. /\ released \in Seq(Nat)
        /\ IsInjective(released)
    BY DEF IInv, TypeOK, IndicesPartitioned
  <2>2. /\ released' \in Seq(Nat)
        /\ Range(released') = Range(released) \cup {index[t]}
        /\ IsInjective(released')
    BY <1>1, <1>4, <1>5, <1>6, <2>1, InsertAfterEntries
  <2> QED
    BY <2>2 DEF Released
<1>8. \A u, v \in Live' : u # v => index'[u] # index'[v]
  BY <1>1, <1>2 DEF IInv, IndicesPartitioned
<1>9. next' = next /\ peak' = peak
  BY DEF Release
<1>10. IndicesPartitioned'
  BY <1>3, <1>7, <1>8, <1>9 DEF IInv, IndicesPartitioned
<1>11. TypeOK'
  BY <1>7, <1>9 DEF IInv, TypeOK, Release, Lives
<1>12. IsFiniteSet(Live') /\ \A u \in Live' : index'[u] \in Nat
  BY <1>1, <1>2, FS_Subset DEF IInv
<1> QED
  BY <1>10, <1>11, <1>12 DEF IInv

\* A new thread holds nothing yet.
LEMMA RespawnKeeps ==
  ASSUME IInv, NEW t \in Threads, Respawn(t)
  PROVE  IInv'
<1>1. Live' = Live
  BY DEF IInv, TypeOK, Respawn, Live, Lives
<1>2. Held' = Held /\ Released' = Released
  BY <1>1 DEF Respawn, Held, Released
<1> QED
  BY <1>1, <1>2 DEF IInv, TypeOK, IndicesPartitioned, Respawn, Lives

-----------------------------------------------------------------------------
\* The inductive invariant holds in every state of the pool.
THEOREM PoolInvariant == Spec => []IInv
<1>1. Init => IInv
  <2> SUFFICES ASSUME Init PROVE IInv
    OBVIOUS
  <2>1. Live = {}
    BY DEF Init, Live
  <2>2. Held = {} /\ Released = {} /\ 0..(next - 1) = {}
    BY <2>1 DEF Init, Held, Released, Range
  <2> QED
    BY <2>1, <2>2, FS_EmptySet
      DEF Init, IInv, TypeOK, IndicesPartitioned, Lives, IsInjective
<1>2. IInv /\ [Next]_vars => IInv'
  <2> SUFFICES ASSUME IInv, [Next]_vars PROVE IInv'
    OBVIOUS
  <2>1. ASSUME NEW t \in Threads, Acquire(t) PROVE IInv'
    BY <2>1, AcquireKeeps
  <2>2. ASSUME NEW t \in Threads, Release(t) PROVE IInv'
    BY <2>2, ReleaseKeeps
  <2>3. ASSUME NEW t \in Threads, Respawn(t) PROVE IInv'
    BY <2>3, RespawnKeeps
  <2>4. CASE UNCHANGED vars
    <3>1. Live' = Live /\ Held' = Held /\ Released' = Released
      BY <2>4 DEF vars, Live, Held, Released
    <3> QED
      BY <2>4, <3>1 DEF vars, IInv, TypeOK, IndicesPartitioned
  <2> QED
    BY <2>1, <2>2, <2>3, <2>4 DEF Next
<1> QED
  BY <1>1, <1>2, PTL DEF Spec

\* Every variable of the pool keeps its type: in particular a released index
\* is always a real one.
THEOREM PoolTypeCorrect == Spec => []TypeOK
<1>1. IInv => TypeOK
  BY DEF IInv
<1> QED
  BY <1>1, PoolInvariant, PTL

\* No two live threads ever share an index, and every index ever handed out is
\* with one live thread or in the pool once: the fact that makes the unlocked
\* load-and-store updates of a stage exact.
THEOREM IndicesAlwaysPartitioned == Spec => []IndicesPartitioned
<1>1. IInv => IndicesPartitioned
  BY DEF IInv
<1> QED
  BY <1>1, PoolInvariant, PTL

-----------------------------------------------------------------------------
(***************************************************************************)
(* That the least free index is the one taken needs the order of the       *)
(* released ones, and that nobody holds an index unseen: a thread that is  *)
(* not live has none.  That the space is compact needs a count: live       *)
(* threads are never more than the indices handed out, and exactly as many *)
(* when none is released.                                                  *)
(***************************************************************************)
PoolInv ==
  /\ IInv
  /\ ReleasedDescending
  /\ next = peak
  /\ \A t \in Threads : life[t] # "live" => index[t] = NoIndex

\* In a descending vector the entries above a value are those before its place.
LEMMA PartitionPointSplits ==
  ASSUME NEW seq \in Seq(Nat), NEW i \in Nat,
         \A j, k \in DOMAIN seq : j < k => seq[j] > seq[k]
  PROVE  \A j \in DOMAIN seq : j <= PartitionPoint(seq, i) <=> seq[j] > i
<1> DEFINE above == {j \in DOMAIN seq : seq[j] > i}
           p == PartitionPoint(seq, i)
<1>1. DOMAIN seq = 1..Len(seq) /\ Len(seq) \in Nat /\ \A j \in DOMAIN seq : seq[j] \in Nat
  OBVIOUS
<1>2. p \in 0..Len(seq)
  BY PartitionPointBounds
<1>3. IsFiniteSet(above) /\ p = Cardinality(above)
  <2>1. IsFiniteSet(1..Len(seq)) /\ above \subseteq 1..Len(seq)
    BY <1>1, FS_Interval
  <2> QED
    BY <2>1, FS_Subset DEF PartitionPoint
<1> HIDE DEF p
<1>4. above \subseteq 1..p
  <2> SUFFICES ASSUME NEW j \in above PROVE j \in 1..p
    OBVIOUS
  <2>1. 1..j \subseteq above
    <3> SUFFICES ASSUME NEW k \in 1..j PROVE k \in above
      OBVIOUS
    <3>1. j \in DOMAIN seq /\ seq[j] > i /\ j \in Nat /\ k \in DOMAIN seq
      BY <1>1
    <3>2. k = j \/ seq[k] > seq[j]
      BY <3>1, <1>1
    <3> QED
      BY <1>1, <3>1, <3>2
  <2>2. j \in Nat /\ j >= 1
    BY <1>1
  <2>3. Cardinality(1..j) = j
    BY <2>2, FS_Interval
  <2>4. j <= p
    BY <1>3, <2>1, <2>3, FS_Subset
  <2> QED
    BY <1>2, <2>2, <2>4
<1>5. above = 1..p
  <2>1. IsFiniteSet(1..p) /\ Cardinality(1..p) = p
    BY <1>2, FS_Interval
  <2> QED
    BY <1>3, <1>4, <2>1, FS_Subset
<1>6. ASSUME NEW j \in DOMAIN seq PROVE j <= p <=> seq[j] > i
  <2>1. j \in 1..p <=> seq[j] > i
    BY <1>5
  <2> QED
    BY <1>1, <1>2, <2>1
<1> QED
  BY <1>6 DEF p

\* Inserting a new value at its place keeps the order.
LEMMA InsertAfterDescending ==
  ASSUME NEW seq \in Seq(Nat), NEW e \in Nat,
         \A i, j \in DOMAIN seq : i < j => seq[i] > seq[j],
         \A i \in DOMAIN seq : seq[i] # e,
         NEW ins, ins = InsertAfter(seq, PartitionPoint(seq, e), e)
  PROVE  \A i, j \in DOMAIN ins : i < j => ins[i] > ins[j]
<1> DEFINE n == Len(seq)
           p == PartitionPoint(seq, e)
<1>1. n \in Nat /\ DOMAIN seq = 1..n /\ \A j \in 1..n : seq[j] \in Nat
  OBVIOUS
<1>2. p \in Int /\ 0 <= p /\ p <= n
  BY PartitionPointBounds
<1>3. \A j \in 1..n : j <= p <=> seq[j] > e
  BY <1>1, PartitionPointSplits
<1>4. DOMAIN ins = 1..(n + 1)
  BY DEF InsertAfter
<1>5. \A j \in 1..(n + 1) :
        ins[j] = IF j <= p THEN seq[j] ELSE IF j = p + 1 THEN e ELSE seq[j - 1]
  BY DEF InsertAfter
<1> HIDE DEF n, p
<1>6. \A j \in 1..n : seq[j] # e
  BY <1>1
<1>7. \A i, j \in 1..n : i < j => seq[i] > seq[j]
  BY <1>1
<1> SUFFICES ASSUME NEW i \in 1..(n + 1), NEW j \in 1..(n + 1), i < j
             PROVE  ins[i] > ins[j]
  BY <1>4
<1>8. CASE j <= p
  BY <1>1, <1>2, <1>5, <1>7, <1>8
<1>9. CASE j = p + 1
  <2>1. i \in 1..n /\ i <= p /\ ins[i] = seq[i] /\ ins[j] = e
    BY <1>1, <1>2, <1>5, <1>9
  <2> QED
    BY <1>3, <2>1
<1>10. CASE j > p + 1
  <2>1. j - 1 \in 1..n /\ ~(j - 1 <= p) /\ ins[j] = seq[j - 1]
    BY <1>1, <1>2, <1>5, <1>10
  <2>2. seq[j - 1] < e
    BY <1>1, <1>3, <1>6, <2>1
  <2>3. CASE i <= p
    <3>1. i \in 1..n /\ i < j - 1 /\ ins[i] = seq[i]
      BY <1>1, <1>2, <1>5, <1>10, <2>3
    <3> QED
      BY <1>7, <2>1, <3>1
  <2>4. CASE i = p + 1
    <3>1. ins[i] = e
      BY <1>2, <1>5, <2>4
    <3> QED
      BY <1>1, <2>1, <2>2, <3>1
  <2>5. CASE i > p + 1
    <3>1. i - 1 \in 1..n /\ i - 1 < j - 1 /\ ins[i] = seq[i - 1]
      BY <1>1, <1>2, <1>5, <2>5
    <3> QED
      BY <1>7, <2>1, <3>1
  <2> QED
    BY <1>2, <2>3, <2>4, <2>5
<1> QED
  BY <1>2, <1>8, <1>9, <1>10

\* Threads that hold distinct indices are no more than the indices, and as many
\* when every index is held.
LEMMA InjectiveIndices ==
  ASSUME NEW L, IsFiniteSet(L), NEW n \in Nat, NEW ix,
         \A t \in L : ix[t] \in 0..(n - 1),
         \A t, u \in L : t # u => ix[t] # ix[u]
  PROVE  /\ Cardinality(L) \in Nat
         /\ Cardinality(L) <= n
         /\ {ix[t] : t \in L} = 0..(n - 1) => Cardinality(L) = n
<1> DEFINE f == [t \in L |-> ix[t]]
           S == 0..(n - 1)
<1>2. IsFiniteSet(S) /\ Cardinality(S) = n
  BY FS_Interval
<1>3. f \in Injection(L, S)
  <2>1. f \in [L -> S]
    OBVIOUS
  <2>2. IsInjective(f)
    BY DEF IsInjective
  <2> QED
    BY <2>1, <2>2 DEF Injection
<1>4. {ix[t] : t \in L} = S => f \in Surjection(L, S)
  <2> SUFFICES ASSUME {ix[t] : t \in L} = S PROVE f \in Surjection(L, S)
    OBVIOUS
  <2>1. \A i \in S : \E t \in L : f[t] = i
    OBVIOUS
  <2>2. f \in [L -> S]
    BY <1>3 DEF Injection
  <2> QED
    BY <2>1, <2>2 DEF Surjection
<1>5. Cardinality(L) \in Nat
  BY FS_CardinalityType
<1> HIDE DEF f, S
<1>6. /\ Cardinality(L) <= Cardinality(S)
      /\ Cardinality(L) = Cardinality(S) <=> f \in Surjection(L, S)
  BY <1>2, <1>3, FS_Injection
<1> QED
  BY <1>2, <1>4, <1>5, <1>6 DEF S

\* Taking an index off the end leaves the rest in order.
LEMMA AcquireKeepsOrder ==
  ASSUME PoolInv, NEW t \in Threads, Acquire(t)
  PROVE  PoolInv'
<1>1. IInv'
  BY AcquireKeeps DEF PoolInv
<1>2. ReleasedDescending'
  <2>1. CASE released' = released
    BY <2>1 DEF PoolInv, ReleasedDescending
  <2>2. CASE released # <<>> /\ released' = SubSeq(released, 1, Len(released) - 1)
    <3>1. released \in Seq(Nat)
      BY DEF PoolInv, IInv, TypeOK
    <3>2. DOMAIN released' \subseteq DOMAIN released
      BY <2>2, <3>1
    <3>3. \A i \in DOMAIN released' : released'[i] = released[i]
      BY <2>2, <3>1
    <3> QED
      BY <3>2, <3>3 DEF PoolInv, ReleasedDescending
  <2> QED
    BY <2>1, <2>2 DEF Acquire
<1>3. \A u \in Threads : life'[u] # "live" => index'[u] = NoIndex
  BY DEF PoolInv, IInv, TypeOK, Acquire
<1>4. next' = peak'
  <2>1. next = peak /\ next \in Nat
    BY DEF PoolInv, IInv, TypeOK
  <2>2. peak' = IF Cardinality(Live') > peak THEN Cardinality(Live') ELSE peak
    BY DEF Acquire
  <2>3. CASE released = <<>>
    <3>1. next' = next + 1
      BY <2>3 DEF Acquire
    <3>2. Cardinality(Live) = next
      <4>1. Released = {}
        BY <2>3 DEF Released, Range
      <4>2. Held = 0..(next - 1)
        BY <4>1 DEF PoolInv, IInv, IndicesPartitioned
      <4> QED
        <5>1. /\ IsFiniteSet(Live) /\ next \in Nat
              /\ \A u \in Live : index[u] \in 0..(next - 1)
              /\ \A u, v \in Live : u # v => index[u] # index[v]
          BY <4>2 DEF PoolInv, IInv, TypeOK, IndicesPartitioned, Held
        <5>2. {index[u] : u \in Live} = 0..(next - 1)
          BY <4>2 DEF Held
        <5> QED
          BY <5>1, <5>2, InjectiveIndices
    <3>3. Live' = Live \cup {t} /\ t \notin Live
      BY DEF PoolInv, IInv, TypeOK, Acquire, Live, Lives
    <3>4. Cardinality(Live') = Cardinality(Live) + 1
      BY <3>3, FS_AddElement DEF PoolInv, IInv
    <3> QED
      BY <2>1, <2>2, <3>1, <3>2, <3>4
  <2>4. CASE released # <<>>
    <3>1. next' = next
      BY <2>4 DEF Acquire
    <3>2. Cardinality(Live') \in Nat /\ Cardinality(Live') <= next'
      <4>1. /\ IsFiniteSet(Live') /\ next' \in Nat
            /\ \A u \in Live' : index'[u] \in 0..(next' - 1)
            /\ \A u, v \in Live' : u # v => index'[u] # index'[v]
        BY <1>1 DEF IInv, TypeOK, IndicesPartitioned, Held
      <4> QED
        BY <4>1, InjectiveIndices
    <3> QED
      BY <2>1, <2>2, <3>1, <3>2
  <2> QED
    BY <2>3, <2>4
<1> QED
  BY <1>1, <1>2, <1>3, <1>4 DEF PoolInv

\* Returning one puts it at its place.
LEMMA ReleaseKeepsOrder ==
  ASSUME PoolInv, NEW t \in Threads, Release(t)
  PROVE  PoolInv'
<1>1. IInv'
  BY ReleaseKeeps DEF PoolInv
<1>2. t \in Live /\ index[t] \in Nat /\ index[t] \in Held
  BY DEF PoolInv, IInv, Release, Live, Held
<1>3. \A i \in DOMAIN released : released[i] # index[t]
  BY <1>2 DEF PoolInv, IInv, IndicesPartitioned, Released, Range
<1>4. ReleasedDescending'
  <2>1. released \in Seq(Nat)
    BY DEF PoolInv, IInv, TypeOK
  <2>2. released' = InsertAfter(released, PartitionPoint(released, index[t]), index[t])
    BY DEF Release
  <2>3. \A i, j \in DOMAIN released : i < j => released[i] > released[j]
    BY DEF PoolInv, ReleasedDescending
  <2>4. \A i, j \in DOMAIN released' : i < j => released'[i] > released'[j]
    BY <1>2, <1>3, <2>1, <2>2, <2>3, InsertAfterDescending
  <2> QED
    BY <2>4 DEF ReleasedDescending
<1>5. \A u \in Threads : life'[u] # "live" => index'[u] = NoIndex
  BY DEF PoolInv, IInv, TypeOK, Release
<1> QED
  BY <1>1, <1>4, <1>5 DEF PoolInv, Release

\* A new thread has no index, as the one before it.
LEMMA RespawnKeepsOrder ==
  ASSUME PoolInv, NEW t \in Threads, Respawn(t)
  PROVE  PoolInv'
<1>1. IInv'
  BY RespawnKeeps DEF PoolInv
<1>2. \A u \in Threads : life'[u] # "live" => index'[u] = NoIndex
  BY DEF PoolInv, IInv, TypeOK, Respawn
<1> QED
  BY <1>1, <1>2 DEF PoolInv, ReleasedDescending, Respawn

\* A step that leaves the pool alone.
LEMMA StutterKeepsOrder ==
  ASSUME PoolInv, UNCHANGED vars
  PROVE  PoolInv'
<1>1. Live' = Live /\ Held' = Held /\ Released' = Released
  BY DEF vars, Live, Held, Released
<1>2. IInv'
  BY <1>1 DEF PoolInv, vars, IInv, TypeOK, IndicesPartitioned
<1> QED
  BY <1>2 DEF PoolInv, vars, ReleasedDescending

\* What the pool hands out is held by nobody, and everything below it is.
LEMMA PoppedIsLeastFree ==
  ASSUME PoolInv
  PROVE  /\ Popped \in Nat \ Held
         /\ 0..(Popped - 1) \subseteq Held
<1>1. /\ next \in Nat /\ released \in Seq(Nat)
      /\ Held \cup Released = 0..(next - 1) /\ Held \cap Released = {}
  BY DEF PoolInv, IInv, TypeOK, IndicesPartitioned
<1>2. CASE released = <<>>
  <2>1. Released = {} /\ Popped = next
    BY <1>2 DEF Released, Range, Popped
  <2> QED
    BY <1>1, <2>1
<1>3. CASE released # <<>>
  <2> DEFINE n == Len(released)
  <2>1. /\ n \in Nat \ {0} /\ DOMAIN released = 1..n
        /\ \A j \in 1..n : released[j] \in Nat
    BY <1>1, <1>3
  <2>2. Popped = released[n]
    BY <1>3 DEF Popped
  <2> HIDE DEF n
  <2>3. Popped \in Released
    BY <2>1, <2>2 DEF Released, Range
  <2>4. \A k \in Released : k >= Popped
    <3> SUFFICES ASSUME NEW j \in 1..n PROVE released[j] >= released[n]
      BY <2>1, <2>2 DEF Released, Range
    <3>1. j = n \/ released[j] > released[n]
      BY <2>1 DEF PoolInv, ReleasedDescending
    <3> QED
      BY <2>1, <3>1
  <2> QED
    BY <1>1, <2>1, <2>2, <2>3, <2>4
<1> QED
  BY <1>2, <1>3

\* The order, the peak and the absence of unseen holders in every state.
THEOREM PoolOrdered == Spec => []PoolInv
<1>1. Init => PoolInv
  <2> SUFFICES ASSUME Init PROVE PoolInv
    OBVIOUS
  <2>1. Live = {} /\ IsFiniteSet(Live)
    BY FS_EmptySet DEF Init, Live
  <2>2. Held = {} /\ Released = {} /\ 0..(next - 1) = {}
    BY <2>1 DEF Init, Held, Released, Range
  <2>3. IInv
    BY <2>1, <2>2 DEF Init, IInv, TypeOK, IndicesPartitioned, Lives, IsInjective
  <2> QED
    BY <2>3 DEF Init, PoolInv, ReleasedDescending
<1>2. PoolInv /\ [Next]_vars => PoolInv'
  BY AcquireKeepsOrder, ReleaseKeepsOrder, RespawnKeepsOrder, StutterKeepsOrder DEF Next
<1> QED
  BY <1>1, <1>2, PTL DEF Spec

\* Released indices are always in strictly descending order, so that the last
\* one is the lowest.
THEOREM ReleasedAlwaysDescending == Spec => []ReleasedDescending
<1>1. PoolInv => ReleasedDescending
  BY DEF PoolInv
<1> QED
  BY <1>1, PoolOrdered, PTL

\* Churn never grows the index space: every index is below the most threads
\* that were alive at one time, however many came and went.
THEOREM SpaceAlwaysCompact == Spec => []SpaceIsCompact
<1>1. PoolInv => SpaceIsCompact
  <2> SUFFICES ASSUME PoolInv PROVE SpaceIsCompact
    OBVIOUS
  <2>1. next = peak /\ next \in Nat /\ Held \subseteq 0..(next - 1)
    BY DEF PoolInv, IInv, TypeOK, IndicesPartitioned
  <2>2. \A t \in Live : index[t] \in Held
    BY DEF Held
  <2>3. \A i \in 0..(next - 1) : i < peak
    BY <2>1
  <2>4. \A t \in Live : index[t] < peak
    BY <2>1, <2>2, <2>3
  <2> QED
    BY <2>1, <2>4 DEF SpaceIsCompact
<1> QED
  BY <1>1, PoolOrdered, PTL
=============================================================================
