---------------------------- MODULE Negotiation ----------------------------
(***************************************************************************)
(* What src/src/lib.rs answers a request to the monitor route with: the    *)
(* dashboard page or the snapshot as JSON, depending on the Accept header. *)
(* A media range is a type, a subtype and a quality in tenths; the header  *)
(* is a sequence of them, empty if there is none that can be read.         *)
(***************************************************************************)
EXTENDS Integers, Sequences, Functions

MediaRanges == [kind : STRING, subtype : STRING, quality : Nat]

NoMatch == [quality |-> -1, specificity |-> -1]

\* A range covers a media type if each half is the type's or a star.
Covers(range, kind, subtype) ==
  range.kind \in {"*", kind} /\ range.subtype \in {"*", subtype}

Specificity(range) ==
  (IF range.kind = "*" THEN 0 ELSE 1) + (IF range.subtype = "*" THEN 0 ELSE 1)

\* mistake: the range of the highest quality decides
BestQuality(a, b) == a.quality >= b.quality

\* The order of max_by: specificity first, then quality.
Outranks(a, b) ==
  \/ a.specificity > b.specificity
  \/ a.specificity = b.specificity /\ a.quality >= b.quality

\* candidate_quality
CandidateQuality(ranges, kind, subtype) ==
  LET matches == {[quality |-> ranges[i].quality, specificity |-> Specificity(ranges[i])] :
                    i \in {j \in DOMAIN ranges : Covers(ranges[j], kind, subtype)}}
  IN IF matches = {} THEN NoMatch
     ELSE CHOOSE m \in matches : \A other \in matches : Outranks(m, other)

\* prefers_json: pairs of quality and specificity are compared in that order.
PrefersJson(ranges) ==
  LET json == CandidateQuality(ranges, "application", "json")
      html == CandidateQuality(ranges, "text", "html")
  IN /\ json.quality > 0
     /\ \/ html = NoMatch
        \/ json.quality > html.quality
        \/ json.quality = html.quality /\ json.specificity > html.specificity

\* Monitor::respond
Answer(method, apiOnly, ranges) ==
  IF method # "GET" THEN "method not allowed"
  ELSE IF apiOnly \/ PrefersJson(ranges) THEN "json" ELSE "html"

-----------------------------------------------------------------------------
(* What the README and the comments promise.                               *)

\* What the header says of a media type: the ranges that name it more closely
\* override those that name it less closely; of equals, the best counts.
Deciding(ranges, kind, subtype) ==
  {i \in DOMAIN ranges :
     /\ Covers(ranges[i], kind, subtype)
     /\ \A j \in DOMAIN ranges :
          Covers(ranges[j], kind, subtype) => Specificity(ranges[j]) <= Specificity(ranges[i])}

\* JSON is served only where the header accepts it, and page or snapshot is the
\* one the header wants more; where it does not tell, the one it names more
\* closely; and the page where it does not tell at all.  The order of the ranges
\* has no part in it.
NegotiationRightFor(ranges) ==
  LET json == Deciding(ranges, "application", "json")
      html == Deciding(ranges, "text", "html")
      accepted == \E i \in json : ranges[i].quality > 0
      Wanted(i) == \A j \in html :
        \/ ranges[i].quality > ranges[j].quality
        \/ /\ ranges[i].quality = ranges[j].quality
           /\ Specificity(ranges[i]) > Specificity(ranges[j])
  IN /\ Answer("GET", FALSE, ranges) = "json" <=> accepted /\ \E i \in json : Wanted(i)
     /\ \A p \in Bijection(DOMAIN ranges, DOMAIN ranges) :
          Answer("GET", FALSE, [k \in DOMAIN ranges |-> ranges[p[k]]])
            = Answer("GET", FALSE, ranges)
=============================================================================
