--------------------------- MODULE LatencyBuckets ---------------------------
(***************************************************************************)
(* The latency buckets of src/src/histogram.rs and the percentiles read    *)
(* from them.  Latencies below SUB have a bucket each; above, every power  *)
(* of two is split into SUB buckets of equal width.                        *)
(***************************************************************************)
EXTENDS Integers, Sequences, FiniteSets, SequencesExt

CONSTANTS SubBits,    \* SUB_BITS (3 in the code)
          MaxLog,     \* MAX_LOG (36)
          MaxLatency  \* MAX_LATENCY_NS (60 seconds)

\* 1 << k, for the shifts that occur.
Power[k \in 0..MaxLog] == IF k = 0 THEN 1 ELSE 2 * Power[k - 1]

ASSUME BucketsAssumption ==
  /\ SubBits \in Nat /\ MaxLog \in Nat /\ MaxLatency \in Nat
  /\ SubBits < MaxLog
  /\ Power[MaxLog - 1] <= MaxLatency /\ MaxLatency < Power[MaxLog]

Sub == Power[SubBits]

Buckets == Sub + (MaxLog - SubBits) * Sub

AllBuckets == 0..(Buckets - 1)

Least(a, b) == IF a < b THEN a ELSE b
Greatest(a, b) == IF a > b THEN a ELSE b

Clamped(ns) == Greatest(1, Least(ns, MaxLatency))

\* u64::ilog2, of a positive latency.
ILog2(n) == CHOOSE k \in 0..(MaxLog - 1) : Power[k] <= n /\ n < Power[k + 1]

-----------------------------------------------------------------------------

\* mistake: the leading bit is not taken off the significant bits
BucketOfLeadingBit(ns) ==
  LET value == Clamped(ns)
      log == ILog2(value)
      significant == value \div Power[log - SubBits]
  IN IF value < Sub THEN value
     ELSE Least(Buckets - 1, Sub + (log - SubBits) * Sub + significant)

BucketOf(ns) ==
  LET value == Clamped(ns)
      log == ILog2(value)
      significant == value \div Power[log - SubBits]
  IN IF value < Sub THEN value
     ELSE Least(Buckets - 1, Sub + (log - SubBits) * Sub + (significant - Sub))

\* bucket_upper_ns: the largest latency of a bucket.
UpperOf(bucket) ==
  LET shifted == bucket - Sub
      shift == shifted \div Sub
      significant == Sub + (shifted % Sub)
  IN IF bucket < Sub THEN bucket
     ELSE Least(MaxLatency, (significant + 1) * Power[shift] - 1)

-----------------------------------------------------------------------------
(* A histogram maps every bucket to the number of its samples.             *)

\* PERCENTILES
Permilles == <<500, 950, 990, 999>>

None == -1

Samples(hist) ==
  LET counted[k \in 0..Buckets] == IF k = 0 THEN 0 ELSE counted[k - 1] + hist[k - 1]
  IN counted[Buckets]

\* mistake: rounded down
RankDown(total, permille) == Greatest(1, (total * permille) \div 1000)

\* The number of the sample a percentile asks for, rounded up (div_ceil).
Rank(total, permille) == Greatest(1, (total * permille + 999) \div 1000)

Ranks(total) == [k \in DOMAIN Permilles |-> Rank(total, Permilles[k])]

\* One bucket of the walk: it serves the percentiles whose samples it reaches.
Visit(hist, ranks, walk, bucket) ==
  LET cumulative == walk.cumulative + hist[bucket]
      served == {k \in DOMAIN ranks : k >= walk.next /\ ranks[k] <= cumulative}
  IN [cumulative |-> cumulative,
      next |-> walk.next + Cardinality(served),
      values |-> [k \in DOMAIN ranks |->
                    IF k \in served THEN UpperOf(bucket) ELSE walk.values[k]]]

\* One walk over the buckets serves the percentiles in order; what it does not
\* serve keeps the largest latency.
Walk(hist, ranks) ==
  FoldLeft(LAMBDA walk, bucket : Visit(hist, ranks, walk, bucket),
           [cumulative |-> 0, next |-> 1, values |-> [k \in DOMAIN ranks |-> MaxLatency]],
           [i \in 1..Buckets |-> i - 1])

\* LatencyHist::percentiles
Percentiles(hist) ==
  LET total == Samples(hist)
  IN IF total = 0 THEN [k \in DOMAIN Permilles |-> None]
     ELSE Walk(hist, Ranks(total)).values

-----------------------------------------------------------------------------
(* What they should be.                                                    *)

\* The buckets cut the latencies into consecutive ranges: the bound of a
\* latency's bucket is the largest latency in that bucket, no further above it
\* than one part in SUB ("bounds the relative error at 12.5%").
BucketRight(ns) ==
  LET value == Clamped(ns)
      bound == UpperOf(BucketOf(ns))
  IN /\ BucketOf(ns) \in AllBuckets
     /\ value <= bound
     /\ BucketOf(bound) = BucketOf(ns)
     /\ bound < MaxLatency => BucketOf(bound + 1) = BucketOf(bound) + 1
     /\ Sub * (bound - value) <= value

\* A percentile is the least bucket bound that at least so many permille of the
\* samples do not exceed.
PercentilesRightFor(hist) ==
  LET total == Samples(hist)
      UpTo(bound) ==
        Samples([b \in AllBuckets |-> IF UpperOf(b) <= bound THEN hist[b] ELSE 0])
      Suffices(bound, permille) == 1000 * UpTo(bound) >= permille * total
      values == Percentiles(hist)
  IN \A k \in DOMAIN Permilles :
       IF total = 0 THEN values[k] = None
       ELSE /\ \E b \in AllBuckets : values[k] = UpperOf(b)
            /\ Suffices(values[k], Permilles[k])
            /\ \A b \in AllBuckets :
                 UpperOf(b) < values[k] => ~Suffices(UpperOf(b), Permilles[k])
=============================================================================
