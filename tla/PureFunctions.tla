--------------------------- MODULE PureFunctions ---------------------------
(***************************************************************************)
(* The pure algorithms of the crate, one input after the other: latency    *)
(* buckets and percentiles, route keys, content negotiation.  A behaviour  *)
(* takes one input and stops; the invariants compare what the code         *)
(* computes for it with what it should compute.                            *)
(***************************************************************************)
EXTENDS LatencyBuckets, RouteKeys, Negotiation

CONSTANTS Latencies,   \* latencies to put into a bucket
          Histograms,  \* histograms to take percentiles of
          Requests,    \* requests to compare by their keys
          Headers      \* Accept headers

ASSUME InputsAssumption ==
  /\ Latencies \subseteq Nat
  /\ Histograms \subseteq [AllBuckets -> Nat]
  /\ Requests \subseteq [method : STRING, path : Seq(Segments), matched : BOOLEAN]
  /\ Headers \subseteq Seq(MediaRanges)

VARIABLE input

Init == input = [of |-> "nothing"]

Take ==
  /\ input.of = "nothing"
  /\ \/ \E ns \in Latencies : input' = [of |-> "latency", ns |-> ns]
     \/ \E hist \in Histograms : input' = [of |-> "histogram", hist |-> hist]
     \/ \E r, s \in Requests : input' = [of |-> "requests", one |-> r, other |-> s]
     \/ \E ranges \in Headers : input' = [of |-> "header", ranges |-> ranges]

Spec == Init /\ [][Take]_input

\* Every latency is in the bucket whose range it is in, the ranges are
\* consecutive and narrow, up to the clamp (histogram.rs:29-31, 917-946).
BucketsRight == input.of = "latency" => BucketRight(input.ns)

\* The walk that serves all percentiles at once finds, for each, the least
\* bound that enough samples do not exceed (histogram.rs:102-132).
PercentilesRight == input.of = "histogram" => PercentilesRightFor(input.hist)

\* A thread's cache may be looked up under raw and normalized keys together
\* (endpoints.rs:49-54, 599-606).
KeysSound == input.of = "requests" => KeysSoundFor(input.one, input.other)

\* Page or JSON, as the Accept header ranks them (lib.rs:287-301).
NegotiationRight == input.of = "header" => NegotiationRightFor(input.ranges)
=============================================================================
