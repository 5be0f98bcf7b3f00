-------------------------- MODULE MCPureFunctions --------------------------
(* Inputs for PureFunctions: every latency of a scaled-down range, small   *)
(* and lopsided histograms, routes at the limits of lengths, and all       *)
(* Accept headers of up to three ranges.                                   *)
EXTENDS PureFunctions

SomeLatencies == 0..(MaxLatency + 100)

\* Three buckets, the last one that of the clamp, with counts around the ranks.
SomeHistograms ==
  {[b \in AllBuckets |->
      IF b = 3 THEN counts[1] ELSE IF b = 30 THEN counts[2]
      ELSE IF b = BucketOf(MaxLatency) THEN counts[3] ELSE 0] :
     counts \in [1..3 -> {0, 1, 2, 9, 10, 19, 99, 500, 999}]}

Segment(head, length, alike) == [head |-> head, length |-> length, alike |-> alike]

SomeSegments ==
  {Segment("digits", 3, TRUE), Segment("digits", 48, TRUE),
   Segment("digits", 49, TRUE), Segment("digits", 49, FALSE),
   Segment("hex", 7, TRUE), Segment("hex", 8, TRUE), Segment("hex", 33, TRUE),
   Segment("uuid", 36, TRUE), Segment("uuid", 37, TRUE),
   Segment("param", 3, TRUE), Segment("word", 4, TRUE),
   Segment("word", 48, TRUE), Segment("word", 49, TRUE), Segment("word", 49, FALSE)}

LongSegments == {Segment("word", n, TRUE) : n \in {25, 28, 29, 30, 48}}

SomePaths ==
  {<<>>} \cup {<<a>> : a \in SomeSegments}
    \cup {<<Segment("word", 48, TRUE), a>> : a \in LongSegments}
    \cup {<<Segment("word", 48, TRUE), Segment("word", 48, TRUE), a>> : a \in LongSegments}
    \cup {<<Segment("word", 48, TRUE), Segment("word", 48, TRUE),
            Segment("word", n, TRUE), a>> :
            n \in {24, 25, 27, 28}, a \in {Segment("digits", 3, TRUE), Segment("word", 4, TRUE)}}

SomeRequests ==
  [method : {"GET", "get", "", "PUT"}, path : SomePaths, matched : BOOLEAN]

SomeRanges ==
  [kind : {"application", "text", "*"}, subtype : {"json", "html", "*"},
   quality : {0, 5, 10}]

SomeHeaders == UNION {[1..n -> SomeRanges] : n \in 0..3}
=============================================================================
