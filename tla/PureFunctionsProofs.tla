------------------------ MODULE PureFunctionsProofs ------------------------
(***************************************************************************)
(* For every input, and every size of the buckets and bounds of the paths: *)
(* a latency is in the bucket that encloses it, the walk over a histogram  *)
(* serves every percentile its nearest rank, requests that share a cached  *)
(* key share a row, and the negotiation follows the Accept header whatever *)
(* the order of its ranges.                                                *)
(***************************************************************************)
EXTENDS PureFunctions, FiniteSetTheorems, TLAPS

\* A set of numbers has a least one.
LEMMA LeastNumber ==
  ASSUME NEW T \in SUBSET Nat, T # {}
  PROVE  \E n \in T : \A m \in T : n <= m
<1> DEFINE R == OpToRel(<, Nat)
<1>1. IsWellFoundedOn(R, Nat)
  BY NatLessThanWellFounded
<1>2. \A x, y \in Nat : x < y => <<x, y>> \in R
  BY DEF OpToRel
<1> HIDE DEF R
<1>3. PICK n \in T : \A m \in T : ~(<<m, n>> \in R)
  BY <1>1, WFMin
<1>4. ASSUME NEW m \in T PROVE n <= m
  <2>1. ~(m < n)
    BY <1>2, <1>3, <1>4
  <2> QED
    BY <2>1
<1> QED
  BY <1>4

\* Induction up to n, for a set of numbers.
LEMMA Upward ==
  ASSUME NEW n \in Nat, NEW S, 0 \in S, \A k \in 1..n : k - 1 \in S => k \in S
  PROVE  \A k \in 0..n : k \in S
<1> DEFINE T == {k \in 0..n : k \notin S}
<1>1. SUFFICES ASSUME T # {} PROVE FALSE
  OBVIOUS
<1>2. PICK k \in T : \A m \in T : k <= m
  <2>1. T \in SUBSET Nat
    OBVIOUS
  <2> HIDE DEF T
  <2> QED
    BY <1>1, <2>1, LeastNumber
<1>3. k \in 1..n /\ k - 1 \in 0..n /\ ~(k <= k - 1)
  OBVIOUS
<1>4. k - 1 \in S
  BY <1>2, <1>3
<1> QED
  BY <1>3, <1>4

-----------------------------------------------------------------------------
(* Content negotiation.                                                    *)

\* What max_by compares of a range.
View(range) == [quality |-> range.quality, specificity |-> Specificity(range)]

LEMMA ViewTyped ==
  ASSUME NEW range \in MediaRanges
  PROVE  View(range) \in [quality : Nat, specificity : 0..2]
BY DEF MediaRanges, View, Specificity

\* Of some ranges of a header, one is not outranked.
LEMMA BestExists ==
  ASSUME NEW ranges \in Seq(MediaRanges), NEW C \in SUBSET DOMAIN ranges, C # {}
  PROVE  \E i \in C : \A j \in C : Outranks(View(ranges[i]), View(ranges[j]))
<1> DEFINE Best(k) == \E i \in C : i <= k /\ \A j \in C : j <= k =>
                         Outranks(View(ranges[i]), View(ranges[j]))
           T == {k \in Nat : (\E i \in C : i <= k) /\ ~Best(k)}
<1>1. DOMAIN ranges = 1..Len(ranges) /\ Len(ranges) \in Nat
  OBVIOUS
<1>2. \A i \in C : ranges[i] \in MediaRanges /\ i \in Nat /\ i > 0
  BY <1>1
<1>3. \A i \in C : View(ranges[i]) \in [quality : Nat, specificity : 0..2]
  BY <1>2, ViewTyped
<1>4. CASE T = {}
  <2>1. PICK i \in C : TRUE
    OBVIOUS
  <2>2. i <= Len(ranges)
    BY <1>1
  <2>3. Best(Len(ranges))
    BY <1>1, <1>4, <2>2
  <2> QED
    BY <1>1, <2>3
<1>5. CASE T # {}
  <2>1. PICK k \in T : \A m \in T : k <= m
    <3>1. T \in SUBSET Nat
      OBVIOUS
    <3> HIDE DEF T
    <3> QED
      BY <1>5, <3>1, LeastNumber
  <2>2. k \in Nat /\ (\E i \in C : i <= k) /\ ~Best(k)
    OBVIOUS
  <2>3. k # 0 /\ k - 1 \in Nat
    BY <1>2, <2>2
  <2>4. k - 1 \notin T
    <3>1. ~(k <= k - 1)
      BY <2>2
    <3> QED
      BY <2>1, <3>1
  <2>5. k \in C
    <3>1. SUFFICES ASSUME k \notin C PROVE FALSE
      OBVIOUS
    <3>2. ASSUME NEW i \in C PROVE i <= k <=> i <= k - 1
      <4>1. i \in Nat /\ i # k
        BY <1>2, <3>1
      <4> QED
        BY <2>2, <4>1
    <3> QED
      BY <2>2, <2>3, <2>4, <3>2
  <2>6. CASE \E i \in C : i <= k - 1
    <3>1. PICK i \in C : i <= k - 1 /\ \A j \in C : j <= k - 1 =>
                           Outranks(View(ranges[i]), View(ranges[j]))
      BY <2>3, <2>4, <2>6
    <3>2. \A j \in C : j <= k => j <= k - 1 \/ j = k
      BY <1>2, <2>2
    <3>3. \A x, y, z \in [quality : Nat, specificity : 0..2] :
            /\ Outranks(x, y) \/ Outranks(y, x)
            /\ Outranks(x, y) /\ Outranks(y, z) => Outranks(x, z)
            /\ Outranks(x, x)
      BY DEF Outranks
    <3>4. Best(k)
      <4>1. CASE Outranks(View(ranges[i]), View(ranges[k]))
        <5>1. \A j \in C : j <= k => Outranks(View(ranges[i]), View(ranges[j]))
          BY <3>1, <3>2, <4>1
        <5>2. i <= k
          BY <1>2, <2>2, <3>1
        <5> QED
          BY <5>1, <5>2
      <4>2. CASE Outranks(View(ranges[k]), View(ranges[i]))
        <5>1. ASSUME NEW j \in C, j <= k
              PROVE  Outranks(View(ranges[k]), View(ranges[j]))
          <6>1. CASE j = k
            BY <1>3, <2>5, <3>3, <6>1
          <6>2. CASE j # k
            BY <1>3, <2>5, <3>1, <3>2, <3>3, <4>2, <5>1, <6>2
          <6> QED
            BY <6>1, <6>2
        <5>2. k <= k
          BY <2>2
        <5> QED
          BY <2>5, <5>1, <5>2
      <4> QED
        BY <1>3, <2>5, <3>3, <4>1, <4>2
    <3> QED
      BY <2>2, <3>4
  <2>7. CASE ~ \E i \in C : i <= k - 1
    <3>1. \A j \in C : j <= k => j = k
      BY <1>2, <2>2, <2>7
    <3>2. Outranks(View(ranges[k]), View(ranges[k]))
      BY <1>3, <2>5 DEF Outranks
    <3> QED
      BY <2>2, <2>5, <3>1, <3>2
  <2> QED
    BY <2>6, <2>7
<1> QED
  BY <1>4, <1>5

\* candidate_quality is what the deciding ranges say: the best of them.
Decided(ranges, kind, subtype) ==
  LET deciding == Deciding(ranges, kind, subtype)
      candidate == CandidateQuality(ranges, kind, subtype)
  IN \/ deciding = {} /\ candidate = NoMatch
     \/ \E i \in deciding :
          /\ candidate = View(ranges[i])
          /\ \A j \in deciding : /\ ranges[j].quality <= ranges[i].quality
                                 /\ Specificity(ranges[j]) = Specificity(ranges[i])

LEMMA CandidateDecided ==
  ASSUME NEW ranges \in Seq(MediaRanges), NEW kind, NEW subtype
  PROVE  Decided(ranges, kind, subtype)
<1> DEFINE C == {j \in DOMAIN ranges : Covers(ranges[j], kind, subtype)}
           matches == {View(ranges[i]) : i \in C}
<1>1. CandidateQuality(ranges, kind, subtype) =
        IF matches = {} THEN NoMatch
        ELSE CHOOSE m \in matches : \A other \in matches : Outranks(m, other)
  BY DEF CandidateQuality, View
<1>2. CASE C = {}
  BY <1>1, <1>2 DEF Decided, Deciding
<1>3. CASE C # {}
  <2>1. \E i \in C : \A j \in C : Outranks(View(ranges[i]), View(ranges[j]))
    <3>1. C \in SUBSET DOMAIN ranges
      OBVIOUS
    <3> HIDE DEF C
    <3> QED
      BY <1>3, <3>1, BestExists
  <2>2. \E m \in matches : \A other \in matches : Outranks(m, other)
    BY <2>1
  <2> DEFINE best == CHOOSE m \in matches : \A other \in matches : Outranks(m, other)
  <2>3. best \in matches /\ \A other \in matches : Outranks(best, other)
    BY <2>2
  <2>4. CandidateQuality(ranges, kind, subtype) = best
    BY <1>1, <1>3
  <2>5. PICK i \in C : best = View(ranges[i])
    BY <2>3
  <2>6. \A j \in C : Outranks(View(ranges[i]), View(ranges[j]))
    BY <2>3, <2>5
  <2>7. \A j \in C : View(ranges[j]) \in [quality : Nat, specificity : 0..2]
    BY ViewTyped
  <2>8. \A j \in C : Specificity(ranges[j]) \in 0..2 /\ ranges[j].quality \in Nat
    BY <2>7 DEF View
  <2>9. \A j \in C : \/ Specificity(ranges[j]) < Specificity(ranges[i])
                     \/ /\ Specificity(ranges[j]) = Specificity(ranges[i])
                        /\ ranges[j].quality <= ranges[i].quality
    BY <2>6, <2>8 DEF View, Outranks
  <2>10. \A j \in C : Specificity(ranges[j]) <= Specificity(ranges[i])
    BY <2>8, <2>9
  <2>11. i \in Deciding(ranges, kind, subtype)
    BY <2>10 DEF Deciding
  <2>12. \A j \in Deciding(ranges, kind, subtype) :
           j \in C /\ Specificity(ranges[j]) >= Specificity(ranges[i])
    BY <2>8 DEF Deciding
  <2>13. \A j \in Deciding(ranges, kind, subtype) :
           /\ ranges[j].quality <= ranges[i].quality
           /\ Specificity(ranges[j]) = Specificity(ranges[i])
    BY <2>8, <2>9, <2>12
  <2> QED
    BY <2>4, <2>5, <2>11, <2>13 DEF Decided
<1> QED
  BY <1>2, <1>3

\* The ranges in another order have the same candidates.
LEMMA OrderIsNothing ==
  ASSUME NEW ranges, NEW p \in Bijection(DOMAIN ranges, DOMAIN ranges),
         NEW kind, NEW subtype
  PROVE  CandidateQuality([k \in DOMAIN ranges |-> ranges[p[k]]], kind, subtype)
           = CandidateQuality(ranges, kind, subtype)
<1> DEFINE shuffled == [k \in DOMAIN ranges |-> ranges[p[k]]]
           matches(s) == {View(s[i]) : i \in {j \in DOMAIN s : Covers(s[j], kind, subtype)}}
<1>1. /\ p \in [DOMAIN ranges -> DOMAIN ranges]
      /\ \A t \in DOMAIN ranges : \E s \in DOMAIN ranges : p[s] = t
  BY DEF Bijection, Surjection
<1>2. DOMAIN shuffled = DOMAIN ranges /\ \A k \in DOMAIN ranges : shuffled[k] = ranges[p[k]]
  OBVIOUS
<1>3. matches(shuffled) = matches(ranges)
  <2> HIDE DEF shuffled
  <2>1. ASSUME NEW m \in matches(shuffled) PROVE m \in matches(ranges)
    BY <1>1, <1>2
  <2>2. ASSUME NEW m \in matches(ranges) PROVE m \in matches(shuffled)
    <3>1. PICK i \in DOMAIN ranges : Covers(ranges[i], kind, subtype) /\ m = View(ranges[i])
      OBVIOUS
    <3>2. PICK s \in DOMAIN ranges : p[s] = i
      BY <1>1
    <3> QED
      BY <1>2, <3>1, <3>2
  <2> QED
    BY <2>1, <2>2
<1>4. \A s : CandidateQuality(s, kind, subtype) =
        IF matches(s) = {} THEN NoMatch
        ELSE CHOOSE m \in matches(s) : \A other \in matches(s) : Outranks(m, other)
  BY DEF CandidateQuality, View
<1> HIDE DEF matches, shuffled
<1>5. CandidateQuality(shuffled, kind, subtype) = CandidateQuality(ranges, kind, subtype)
  BY <1>3, <1>4
<1> QED
  BY <1>5 DEF shuffled

LEMMA AnswerFollowsHeader ==
  ASSUME NEW ranges \in Seq(MediaRanges)
  PROVE  NegotiationRightFor(ranges)
<1> DEFINE J == Deciding(ranges, "application", "json")
           H == Deciding(ranges, "text", "html")
           json == CandidateQuality(ranges, "application", "json")
           html == CandidateQuality(ranges, "text", "html")
           Wanted(i) == \A j \in H :
             \/ ranges[i].quality > ranges[j].quality
             \/ /\ ranges[i].quality = ranges[j].quality
                /\ Specificity(ranges[i]) > Specificity(ranges[j])
<1>1. \A i \in DOMAIN ranges : ranges[i].quality \in Nat /\ Specificity(ranges[i]) \in 0..2
  <2>1. \A i \in DOMAIN ranges : ranges[i] \in MediaRanges
    OBVIOUS
  <2> QED
    BY <2>1 DEF MediaRanges, Specificity
<1>2. J \subseteq DOMAIN ranges /\ H \subseteq DOMAIN ranges
  BY DEF Deciding
<1>3. \/ J = {} /\ json = NoMatch
      \/ \E i \in J : /\ json = View(ranges[i])
                      /\ \A j \in J : /\ ranges[j].quality <= ranges[i].quality
                                      /\ Specificity(ranges[j]) = Specificity(ranges[i])
  BY CandidateDecided DEF Decided
<1>4. \/ H = {} /\ html = NoMatch
      \/ \E i \in H : /\ html = View(ranges[i])
                      /\ \A j \in H : /\ ranges[j].quality <= ranges[i].quality
                                      /\ Specificity(ranges[j]) = Specificity(ranges[i])
  BY CandidateDecided DEF Decided
<1>5. Answer("GET", FALSE, ranges) = "json" <=>
        /\ json.quality > 0
        /\ \/ html = NoMatch
           \/ json.quality > html.quality
           \/ json.quality = html.quality /\ json.specificity > html.specificity
  BY DEF Answer, PrefersJson
<1> HIDE DEF J, H, json, html
<1>6. Answer("GET", FALSE, ranges) = "json"
        <=> (\E i \in J : ranges[i].quality > 0) /\ \E i \in J : Wanted(i)
  <2>1. CASE J = {} /\ json = NoMatch
    <3>1. json.quality = -1
      BY <2>1 DEF NoMatch
    <3>2. ~(json.quality > 0)
      BY <3>1
    <3> QED
      BY <1>5, <2>1, <3>2
  <2>2. ASSUME NEW i \in J, json = View(ranges[i]),
               \A j \in J : /\ ranges[j].quality <= ranges[i].quality
                            /\ Specificity(ranges[j]) = Specificity(ranges[i])
        PROVE  Answer("GET", FALSE, ranges) = "json"
                 <=> (\E k \in J : ranges[k].quality > 0) /\ \E k \in J : Wanted(k)
    <3>1. json.quality = ranges[i].quality /\ json.specificity = Specificity(ranges[i])
      BY <2>2 DEF View
    <3>2. (\E k \in J : ranges[k].quality > 0) <=> json.quality > 0
      BY <1>1, <1>2, <2>2, <3>1
    <3>3. (\E k \in J : Wanted(k)) <=> Wanted(i)
      BY <1>1, <1>2, <2>2
    <3>4. CASE H = {} /\ html = NoMatch
      BY <1>5, <3>2, <3>3, <3>4
    <3>5. ASSUME NEW h \in H, html = View(ranges[h]),
                 \A j \in H : /\ ranges[j].quality <= ranges[h].quality
                              /\ Specificity(ranges[j]) = Specificity(ranges[h])
          PROVE  Answer("GET", FALSE, ranges) = "json"
                   <=> (\E k \in J : ranges[k].quality > 0) /\ \E k \in J : Wanted(k)
      <4>1. html.quality = ranges[h].quality /\ html.specificity = Specificity(ranges[h])
        BY <3>5 DEF View
      <4>2. html # NoMatch
        BY <1>1, <1>2, <4>1 DEF NoMatch
      <4>3. Wanted(i) <=>
              \/ ranges[i].quality > ranges[h].quality
              \/ /\ ranges[i].quality = ranges[h].quality
                 /\ Specificity(ranges[i]) > Specificity(ranges[h])
        BY <1>1, <1>2, <3>5
      <4> QED
        BY <1>5, <3>1, <3>2, <3>3, <4>1, <4>2, <4>3
    <3> QED
      BY <1>4, <3>4, <3>5
  <2> QED
    BY <1>3, <2>1, <2>2
<1>7. ASSUME NEW p \in Bijection(DOMAIN ranges, DOMAIN ranges)
      PROVE  Answer("GET", FALSE, [k \in DOMAIN ranges |-> ranges[p[k]]])
               = Answer("GET", FALSE, ranges)
  BY OrderIsNothing DEF Answer, PrefersJson
<1> QED
  BY <1>6, <1>7 DEF NegotiationRightFor, J, H

-----------------------------------------------------------------------------
(***************************************************************************)
(* Folds over sequences.  FoldLeft is a recursive function on the sets of  *)
(* indices that takes the largest index off; there is one such function,   *)
(* and on the first k indices it is what the first k elements fold to.     *)
(***************************************************************************)

\* The recursion, for a step that is typed.
Unfolds(h, n, S, base, step) ==
  /\ h[{}] = base
  /\ \A s \in SUBSET (1..n) :
       s # {} /\ h[s \ {Max(s)}] \in S => h[s] = step[<<Max(s), h[s \ {Max(s)}]>>]

LEMMA MaxOfFirst ==
  ASSUME NEW k \in Nat, NEW s \in SUBSET (1..k), k \in s
  PROVE  Max(s) = k
<1>1. \A y \in s : y \in Nat /\ k >= y
  OBVIOUS
<1>2. \A x \in s : (\A y \in s : x >= y) => x = k
  BY <1>1
<1>3. Max(s) \in s /\ \A y \in s : Max(s) >= y
  BY <1>1 DEF Max
<1> QED
  BY <1>2, <1>3

LEMMA MaxIs ==
  ASSUME NEW n \in Nat, NEW s \in SUBSET (1..n), s # {}
  PROVE  Max(s) \in s
<1> DEFINE T == {k \in Nat : \A x \in s : x <= k}
<1>1. T \in SUBSET Nat /\ T # {}
  BY DEF T
<1>2. PICK k \in T : \A m \in T : k <= m
  <2> HIDE DEF T
  <2> QED
    BY <1>1, LeastNumber
<1>3. k \in s
  <2>1. SUFFICES ASSUME k \notin s PROVE FALSE
    OBVIOUS
  <2>2. \A x \in s : x \in 1..n /\ x # k /\ x <= k
    BY <2>1
  <2>3. k \in Nat /\ \A x \in s : x \in Nat /\ x <= k - 1 /\ x >= 1
    BY <2>2
  <2>4. k - 1 \in Nat
    <3>1. PICK x \in s : TRUE
      OBVIOUS
    <3>2. x >= 1 /\ x <= k - 1 /\ x \in Nat
      BY <2>3
    <3> QED
      BY <2>3, <3>2
  <2>5. k - 1 \in T /\ ~(k <= k - 1)
    BY <2>3, <2>4
  <2> QED
    BY <1>2, <2>5
<1>4. \A y \in s : k >= y
  OBVIOUS
<1> QED
  BY <1>3, <1>4 DEF Max

\* There is a function that unfolds so.
LEMMA FoldExists ==
  ASSUME NEW n \in Nat, NEW S, NEW base \in S, NEW step \in [(1..n) \X S -> S]
  PROVE  \E h \in [SUBSET (1..n) -> S] : Unfolds(h, n, S, base, step)
<1> DEFINE Known(k) == \E h \in [SUBSET (1..k) -> S] : Unfolds(h, k, S, base, step)
           T == {k \in 0..n : Known(k)}
<1>1. Known(0)
  <2> DEFINE h == [s \in SUBSET (1..0) |-> base]
  <2>1. h \in [SUBSET (1..0) -> S] /\ \A s \in SUBSET (1..0) : s = {}
    OBVIOUS
  <2>2. Unfolds(h, 0, S, base, step)
    BY <2>1 DEF Unfolds
  <2> QED
    BY <2>1, <2>2
<1>2. ASSUME NEW k \in 1..n, Known(k - 1) PROVE Known(k)
  <2>1. PICK h \in [SUBSET (1..(k - 1)) -> S] : Unfolds(h, k - 1, S, base, step)
    BY <1>2
  <2> DEFINE g == [s \in SUBSET (1..k) |->
                     IF k \in s THEN step[<<k, h[s \ {k}]>>] ELSE h[s]]
  <2>2. \A s \in SUBSET (1..k) : s \ {k} \in SUBSET (1..(k - 1))
    OBVIOUS
  <2>3. \A s \in SUBSET (1..k) : k \notin s => s \in SUBSET (1..(k - 1))
    OBVIOUS
  <2>4. \A s \in SUBSET (1..k) : h[s \ {k}] \in S /\ <<k, h[s \ {k}]>> \in (1..n) \X S
    BY <2>2
  <2>5. g \in [SUBSET (1..k) -> S]
    BY <2>3, <2>4
  <2>6. \A s \in SUBSET (1..(k - 1)) : s \in SUBSET (1..k) /\ k \notin s
    OBVIOUS
  <2>7. \A s \in SUBSET (1..(k - 1)) : g[s] = h[s]
    BY <2>6
  <2>8. ASSUME NEW s \in SUBSET (1..k), s # {}
        PROVE  g[s] = step[<<Max(s), g[s \ {Max(s)}]>>]
    <3>1. CASE k \in s
      <4>1. Max(s) = k
        BY <3>1, MaxOfFirst
      <4>2. g[s \ {k}] = h[s \ {k}]
        BY <2>2, <2>7
      <4> QED
        BY <3>1, <4>1, <4>2
    <3>2. CASE k \notin s
      <4>1. s \in SUBSET (1..(k - 1))
        BY <2>3, <3>2
      <4>2. s \ {Max(s)} \in SUBSET (1..(k - 1))
        BY <4>1
      <4>3. h[s \ {Max(s)}] \in S
        BY <4>2
      <4>4. h[s] = step[<<Max(s), h[s \ {Max(s)}]>>]
        BY <2>1, <2>8, <4>1, <4>3 DEF Unfolds
      <4>5. g[s] = h[s] /\ g[s \ {Max(s)}] = h[s \ {Max(s)}]
        BY <2>7, <4>1, <4>2
      <4> QED
        BY <4>4, <4>5
    <3> QED
      BY <3>1, <3>2
  <2>9. g[{}] = base
    BY <2>1, <2>7 DEF Unfolds
  <2> HIDE DEF g
  <2>10. Unfolds(g, k, S, base, step)
    BY <2>8, <2>9 DEF Unfolds
  <2> QED
    BY <2>5, <2>10
<1>3. 0 \in T /\ \A k \in 1..n : k - 1 \in T => k \in T
  <2> HIDE DEF Known
  <2>1. 0 \in T
    BY <1>1
  <2>2. ASSUME NEW k \in 1..n, k - 1 \in T PROVE k \in T
    BY <1>2, <2>2
  <2> QED
    BY <2>1, <2>2
<1>4. \A k \in 0..n : k \in T
  <2> HIDE DEF T
  <2> QED
    BY <1>3, Upward
<1>5. n \in 0..n
  OBVIOUS
<1> HIDE DEF Known
<1>6. Known(n)
  BY <1>4, <1>5
<1> QED
  BY <1>6 DEF Known

\* What a function that unfolds so is at the first k indices.
Folded(h, n, S, base, step) ==
  /\ h[1..0] = base
  /\ \A k \in 1..n : /\ h[1..(k - 1)] \in S
                     /\ h[1..k] = step[<<k, h[1..(k - 1)]>>]
  /\ h[1..n] \in S

LEMMA FoldUnfolds ==
  ASSUME NEW n \in Nat, NEW S, NEW base \in S, NEW step \in [(1..n) \X S -> S],
         NEW h, Unfolds(h, n, S, base, step)
  PROVE  Folded(h, n, S, base, step)
<1>1. h[1..0] = base
  <2>1. 1..0 = {}
    OBVIOUS
  <2> QED
    BY <2>1 DEF Unfolds
<1>2. ASSUME NEW k \in 1..n, h[1..(k - 1)] \in S
      PROVE  h[1..k] = step[<<k, h[1..(k - 1)]>>] /\ h[1..k] \in S
  <2>1. 1..k \in SUBSET (1..k) /\ k \in 1..k /\ k \in Nat /\ 1..k \in SUBSET (1..n)
    OBVIOUS
  <2>2. Max(1..k) = k
    BY <2>1, MaxOfFirst
  <2>3. (1..k) \ {k} = 1..(k - 1)
    OBVIOUS
  <2>4. h[1..k] = step[<<k, h[1..(k - 1)]>>]
    BY <1>2, <2>1, <2>2, <2>3 DEF Unfolds
  <2> QED
    BY <1>2, <2>4
<1> DEFINE T == {k \in 0..n : h[1..k] \in S}
<1>3. 0 \in T /\ \A k \in 1..n : k - 1 \in T => k \in T
  <2>1. 0 \in T
    BY <1>1
  <2>2. ASSUME NEW k \in 1..n, k - 1 \in T PROVE k \in T
    <3>1. h[1..(k - 1)] \in S /\ k \in 0..n
      BY <2>2
    <3>2. h[1..k] \in S
      BY <1>2, <3>1
    <3> QED
      BY <3>1, <3>2
  <2> QED
    BY <2>1, <2>2
<1>4. \A k \in 0..n : h[1..k] \in S
  <2>1. \A k \in 0..n : k \in T
    <3> HIDE DEF T
    <3> QED
      BY <1>3, Upward
  <2> QED
    BY <2>1
<1>5. \A k \in 1..n : k - 1 \in 0..n
  OBVIOUS
<1>6. n \in 0..n
  OBVIOUS
<1> QED
  BY <1>1, <1>2, <1>4, <1>5, <1>6 DEF Folded

\* The same recursion over numbers.
Recurs(g, n, base, step) ==
  g[0] = base /\ \A k \in 1..n : g[k] = step[<<k, g[k - 1]>>]

LEMMA RecursionExists ==
  ASSUME NEW n \in Nat, NEW S, NEW base \in S, NEW step \in [(1..n) \X S -> S]
  PROVE  \E g \in [0..n -> S] : Recurs(g, n, base, step)
<1>1. PICK h \in [SUBSET (1..n) -> S] : Unfolds(h, n, S, base, step)
  BY FoldExists
<1>2. Folded(h, n, S, base, step)
  BY <1>1, FoldUnfolds
<1> DEFINE g == [k \in 0..n |-> h[1..k]]
<1>3. \A k \in 0..n : 1..k \in SUBSET (1..n)
  OBVIOUS
<1>4. g \in [0..n -> S] /\ g[0] = base
  BY <1>2, <1>3 DEF Folded
<1>5. ASSUME NEW k \in 1..n PROVE g[k] = step[<<k, g[k - 1]>>]
  <2>1. k \in 0..n /\ k - 1 \in 0..n
    OBVIOUS
  <2> QED
    BY <1>2, <2>1 DEF Folded
<1> HIDE DEF g
<1> QED
  BY <1>4, <1>5 DEF Recurs

-----------------------------------------------------------------------------
(* The length of a path.                                                   *)

IsWritten(g, q) ==
  g = [s \in SUBSET DOMAIN q |->
         IF s = {} THEN 0 ELSE g[s \ {Max(s)}] + 1 + q[Max(s)].length]

LEMMA WrittenIs ==
  ASSUME NEW q
  PROVE  Written(q) = (CHOOSE g : IsWritten(g, q))[DOMAIN q]
BY DEF Written, IsWritten, FoldLeft, MapThenFoldSet

\* How far a path comes with its next segment.
Adds(q) == [z \in (1..Len(q)) \X Nat |-> z[2] + 1 + q[z[1]].length]

LEMMA WrittenFolds ==
  ASSUME NEW q \in Seq(Segments)
  PROVE  \E h : Written(q) = h[1..Len(q)] /\ Folded(h, Len(q), Nat, 0, Adds(q))
<1> DEFINE n == Len(q)
           W == CHOOSE g : IsWritten(g, q)
<1>1. n \in Nat /\ DOMAIN q = 1..n /\ \A k \in 1..n : q[k].length \in Nat
  <2>1. \A k \in 1..n : q[k] \in Segments
    OBVIOUS
  <2> QED
    BY <2>1 DEF Segments
<1>2. Adds(q) \in [(1..n) \X Nat -> Nat]
  BY <1>1 DEF Adds
<1>3. \A k \in 1..n, m \in Nat : Adds(q)[<<k, m>>] = m + 1 + q[k].length
  BY DEF Adds
<1>4. PICK h \in [SUBSET (1..n) -> Nat] : Unfolds(h, n, Nat, 0, Adds(q))
  BY <1>1, <1>2, FoldExists
<1>5. \A s \in SUBSET (1..n) : s # {} => Max(s) \in s /\ s \ {Max(s)} \in SUBSET (1..n)
  BY <1>1, MaxIs
<1>6. IsWritten(h, q)
  <2> DEFINE g == [s \in SUBSET DOMAIN q |->
                     IF s = {} THEN 0 ELSE h[s \ {Max(s)}] + 1 + q[Max(s)].length]
  <2>1. ASSUME NEW s \in SUBSET (1..n) PROVE h[s] = g[s]
    <3>1. CASE s = {}
      BY <1>1, <1>4, <3>1 DEF Unfolds
    <3>2. CASE s # {}
      <4>1. h[s \ {Max(s)}] \in Nat /\ Max(s) \in 1..n
        BY <1>5, <3>2
      <4>2. h[s] = Adds(q)[<<Max(s), h[s \ {Max(s)}]>>]
        BY <1>4, <3>2, <4>1 DEF Unfolds
      <4>3. g[s] = h[s \ {Max(s)}] + 1 + q[Max(s)].length
        BY <1>1, <3>2
      <4> QED
        BY <1>3, <4>1, <4>2, <4>3
    <3> QED
      BY <3>1, <3>2
  <2>2. h = g
    BY <1>1, <2>1
  <2> QED
    BY <2>2 DEF IsWritten
<1>7. IsWritten(W, q)
  BY <1>6
<1>8. Unfolds(W, n, Nat, 0, Adds(q))
  <2>1. W = [s \in SUBSET DOMAIN q |->
               IF s = {} THEN 0 ELSE W[s \ {Max(s)}] + 1 + q[Max(s)].length]
    BY <1>7 DEF IsWritten
  <2> HIDE DEF W
  <2>2. W[{}] = 0
    BY <2>1
  <2>3. ASSUME NEW s \in SUBSET (1..n), s # {}, W[s \ {Max(s)}] \in Nat
        PROVE  W[s] = Adds(q)[<<Max(s), W[s \ {Max(s)}]>>]
    <3>1. W[s] = W[s \ {Max(s)}] + 1 + q[Max(s)].length
      BY <1>1, <2>1, <2>3
    <3>2. Max(s) \in 1..n
      BY <1>5, <2>3
    <3> QED
      BY <1>3, <2>3, <3>1, <3>2
  <2> QED
    BY <2>2, <2>3 DEF Unfolds
<1>9. Written(q) = W[1..n]
  BY <1>1, WrittenIs
<1> HIDE DEF W
<1>10. Folded(W, n, Nat, 0, Adds(q))
  BY <1>1, <1>2, <1>8, FoldUnfolds
<1> QED
  BY <1>9, <1>10

LEMMA WrittenAppend ==
  ASSUME NEW q \in Seq(Segments), NEW x \in Segments
  PROVE  /\ Written(q) \in Nat
         /\ Written(Append(q, x)) = Written(q) + 1 + x.length
<1> DEFINE n == Len(q)
           p == Append(q, x)
<1>1. n \in Nat /\ p \in Seq(Segments) /\ Len(p) = n + 1 /\ p[n + 1] = x
  OBVIOUS
<1>2. \A k \in 1..n : p[k] = q[k] /\ q[k] \in Segments
  OBVIOUS
<1> HIDE DEF p
<1>3. PICK h : Written(q) = h[1..n] /\ Folded(h, n, Nat, 0, Adds(q))
  BY WrittenFolds
<1>4. PICK g : Written(p) = g[1..(n + 1)] /\ Folded(g, n + 1, Nat, 0, Adds(p))
  BY <1>1, WrittenFolds
<1>5. \A k \in 1..n : h[1..(k - 1)] \in Nat /\ h[1..k] = h[1..(k - 1)] + 1 + q[k].length
  BY <1>3 DEF Folded, Adds
<1>6. \A k \in 1..(n + 1) : g[1..(k - 1)] \in Nat /\ g[1..k] = g[1..(k - 1)] + 1 + p[k].length
  BY <1>1, <1>4 DEF Folded, Adds
<1> DEFINE T == {k \in 0..n : h[1..k] = g[1..k]}
<1>7. \A k \in 0..n : k \in T
  <2>1. 0 \in T
    BY <1>1, <1>3, <1>4 DEF Folded
  <2>2. ASSUME NEW k \in 1..n, k - 1 \in T PROVE k \in T
    <3>1. k \in 0..n /\ k \in 1..(n + 1) /\ h[1..(k - 1)] = g[1..(k - 1)]
      BY <1>1, <2>2
    <3> QED
      BY <1>2, <1>5, <1>6, <3>1
  <2> HIDE DEF T
  <2> QED
    BY <1>1, <2>1, <2>2, Upward
<1>8. h[1..n] = g[1..n]
  <2>1. n \in 0..n
    BY <1>1
  <2> QED
    BY <1>7, <2>1
<1>9. g[1..(n + 1)] = g[1..n] + 1 + x.length
  <2>1. n + 1 \in 1..(n + 1) /\ (n + 1) - 1 = n
    BY <1>1
  <2> QED
    BY <1>1, <1>6, <2>1
<1>10. h[1..n] \in Nat
  BY <1>3 DEF Folded
<1> QED
  BY <1>3, <1>4, <1>8, <1>9, <1>10 DEF p

\* Paths that keep the bound.
Paths == {p \in Seq(Segments) : Written(p) <= MaxPath}

LEMMA PrefixCuts ==
  ASSUME NEW s \in Segments, NEW n \in Nat
  PROVE  Prefix(s, n) \in Segments /\ Prefix(s, n).length <= n
<1>1. s = [head |-> s.head, length |-> s.length, alike |-> s.alike]
  BY DEF Segments
<1>2. s.head \in Heads /\ s.length \in Nat /\ s.alike \in BOOLEAN
  BY DEF Segments
<1>3. CASE s.length <= n
  BY <1>3 DEF Prefix
<1>4. CASE ~(s.length <= n)
  <2>1. Prefix(s, n) = [head |-> s.head, length |-> n, alike |-> TRUE]
    BY <1>1, <1>4 DEF Prefix
  <2> QED
    BY <1>2, <2>1 DEF Segments
<1> QED
  BY <1>3, <1>4

LEMMA WrittenNothing == Written(<<>>) = 0
<1>1. <<>> \in Seq(Segments) /\ Len(<<>>) = 0
  OBVIOUS
<1>2. PICK h : Written(<<>>) = h[1..0] /\ Folded(h, 0, Nat, 0, Adds(<<>>))
  BY <1>1, WrittenFolds
<1> QED
  BY <1>2 DEF Folded

\* The segment that passes the bound is cut to what is left.
LEMMA AddSegmentBounded ==
  ASSUME NEW p \in Paths, NEW s \in Segments
  PROVE  AddSegment(p, s) \in Paths
<1> DEFINE normal == IF LooksLikeId(s) \/ IsRouteParam(s) THEN Id ELSE Prefix(s, MaxSegment)
           cut == Prefix(normal, MaxPath - Written(p) - 1)
<1>1. p \in Seq(Segments) /\ Written(p) \in Nat /\ Written(p) <= MaxPath /\ MaxPath \in Nat
  BY KeysAssumption, WrittenAppend DEF Paths
<1>2. CASE Written(p) >= MaxPath
  BY <1>2 DEF AddSegment
<1>3. CASE ~(Written(p) >= MaxPath)
  <2>1. AddSegment(p, s) = Append(p, cut)
    BY <1>3 DEF AddSegment
  <2>2. normal \in Segments
    <3>1. Id \in Segments
      BY DEF Segments, Heads, Id
    <3>2. Prefix(s, MaxSegment) \in Segments
      BY PrefixCuts, KeysAssumption
    <3> QED
      BY <3>1, <3>2
  <2>3. MaxPath - Written(p) - 1 \in Nat
    BY <1>1, <1>3
  <2> HIDE DEF normal
  <2>4. cut \in Segments /\ cut.length <= MaxPath - Written(p) - 1
    BY <2>2, <2>3, PrefixCuts
  <2>5. cut.length \in Nat
    BY <2>4 DEF Segments
  <2> HIDE DEF cut
  <2>6. Written(Append(p, cut)) = Written(p) + 1 + cut.length
    BY <1>1, <2>4, WrittenAppend
  <2>7. Append(p, cut) \in Seq(Segments)
    BY <1>1, <2>4
  <2> QED
    BY <1>1, <2>1, <2>4, <2>5, <2>6, <2>7 DEF Paths
<1> QED
  BY <1>2, <1>3

IsNormalized(g, q) ==
  g = [s \in SUBSET DOMAIN q |->
         IF s = {} THEN <<>> ELSE AddSegment(g[s \ {Max(s)}], q[Max(s)])]

LEMMA NormalizedIs ==
  ASSUME NEW q
  PROVE  NormalizedPath(q) = (CHOOSE g : IsNormalized(g, q))[DOMAIN q]
BY DEF NormalizedPath, IsNormalized, FoldLeft, MapThenFoldSet

\* Whatever the path of a request, its normalized path keeps the bound.
LEMMA NormalizedBounded ==
  ASSUME NEW q \in Seq(Segments)
  PROVE  NormalizedPath(q) \in Paths
<1> DEFINE n == Len(q)
           N == CHOOSE g : IsNormalized(g, q)
           step == [z \in (1..n) \X Paths |-> AddSegment(z[2], q[z[1]])]
<1>1. n \in Nat /\ DOMAIN q = 1..n /\ \A k \in 1..n : q[k] \in Segments
  OBVIOUS
<1>2. <<>> \in Paths
  BY WrittenNothing, KeysAssumption DEF Paths
<1>3. \A k \in 1..n, p \in Paths : step[<<k, p>>] = AddSegment(p, q[k])
  OBVIOUS
<1>4. step \in [(1..n) \X Paths -> Paths]
  BY <1>1, AddSegmentBounded
<1> HIDE DEF step
<1>5. PICK h \in [SUBSET (1..n) -> Paths] : Unfolds(h, n, Paths, <<>>, step)
  BY <1>1, <1>2, <1>4, FoldExists
<1>6. \A s \in SUBSET (1..n) : s # {} => Max(s) \in s /\ s \ {Max(s)} \in SUBSET (1..n)
  BY <1>1, MaxIs
<1>7. IsNormalized(h, q)
  <2> DEFINE g == [s \in SUBSET DOMAIN q |->
                     IF s = {} THEN <<>> ELSE AddSegment(h[s \ {Max(s)}], q[Max(s)])]
  <2>1. ASSUME NEW s \in SUBSET (1..n) PROVE h[s] = g[s]
    <3>1. CASE s = {}
      BY <1>1, <1>5, <3>1 DEF Unfolds
    <3>2. CASE s # {}
      <4>1. h[s \ {Max(s)}] \in Paths /\ Max(s) \in 1..n
        BY <1>6, <3>2
      <4>2. h[s] = step[<<Max(s), h[s \ {Max(s)}]>>]
        BY <1>5, <3>2, <4>1 DEF Unfolds
      <4>3. g[s] = AddSegment(h[s \ {Max(s)}], q[Max(s)])
        BY <1>1, <3>2
      <4> QED
        BY <1>3, <4>1, <4>2, <4>3
    <3> QED
      BY <3>1, <3>2
  <2>2. h = g
    BY <1>1, <2>1
  <2> QED
    BY <2>2 DEF IsNormalized
<1>8. IsNormalized(N, q)
  BY <1>7
<1>9. Unfolds(N, n, Paths, <<>>, step)
  <2>1. N = [s \in SUBSET DOMAIN q |->
               IF s = {} THEN <<>> ELSE AddSegment(N[s \ {Max(s)}], q[Max(s)])]
    BY <1>8 DEF IsNormalized
  <2> HIDE DEF N
  <2>2. N[{}] = <<>>
    BY <2>1
  <2>3. ASSUME NEW s \in SUBSET (1..n), s # {}, N[s \ {Max(s)}] \in Paths
        PROVE  N[s] = step[<<Max(s), N[s \ {Max(s)}]>>]
    <3>1. N[s] = AddSegment(N[s \ {Max(s)}], q[Max(s)])
      BY <1>1, <2>1, <2>3
    <3>2. Max(s) \in 1..n
      BY <1>6, <2>3
    <3> QED
      BY <1>3, <2>3, <3>1, <3>2
  <2> QED
    BY <2>2, <2>3 DEF Unfolds
<1>10. NormalizedPath(q) = N[1..n]
  BY <1>1, NormalizedIs
<1> HIDE DEF N
<1>11. Folded(N, n, Paths, <<>>, step)
  BY <1>1, <1>2, <1>4, <1>9, FoldUnfolds
<1> QED
  BY <1>10, <1>11 DEF Folded

\* A raw key says all that a normalized key is made of, and no raw key is a
\* normalized one: their separators differ.
LEMMA KeysAreSound ==
  ASSUME NEW r, NEW s, r.path \in Seq(Segments)
  PROVE  KeysSoundFor(r, s)
<1>1. LookupKey(r) = LookupKey(s) => NormalizedKey(r) = NormalizedKey(s)
  BY DEF LookupKey, NormalizedKey, Separator, RawSeparator
<1>2. Written(NormalizedPath(r.path)) <= MaxPath
  BY NormalizedBounded DEF Paths
<1> QED
  BY <1>1, <1>2 DEF KeysSoundFor

-----------------------------------------------------------------------------
(* Powers of two and division.                                             *)

IsPower(g, n) == g = [k \in 0..n |-> IF k = 0 THEN 1 ELSE 2 * g[k - 1]]

LEMMA PowerIs == IsPower(Power, MaxLog)
<1> DEFINE step == [z \in (1..MaxLog) \X Nat |-> 2 * z[2]]
<1>1. MaxLog \in Nat /\ 1 \in Nat /\ step \in [(1..MaxLog) \X Nat -> Nat]
  BY BucketsAssumption
<1>2. \A k \in 1..MaxLog, m \in Nat : step[<<k, m>>] = 2 * m
  OBVIOUS
<1> HIDE DEF step
<1>3. PICK g \in [0..MaxLog -> Nat] : Recurs(g, MaxLog, 1, step)
  BY <1>1, RecursionExists
<1>4. \A k \in 0..MaxLog : g[k] = IF k = 0 THEN 1 ELSE 2 * g[k - 1]
  <2>1. ASSUME NEW k \in 1..MaxLog PROVE g[k] = 2 * g[k - 1]
    <3>1. k - 1 \in 0..MaxLog
      BY <1>1
    <3> QED
      BY <1>2, <1>3, <3>1 DEF Recurs
  <2> QED
    BY <1>1, <1>3, <2>1 DEF Recurs
<1>5. g = [k \in 0..MaxLog |-> g[k]]
  OBVIOUS
<1>6. IsPower(g, MaxLog)
  BY <1>4, <1>5 DEF IsPower
<1>7. Power = CHOOSE h : IsPower(h, MaxLog)
  BY DEF Power, IsPower
<1> QED
  BY <1>6, <1>7

LEMMA PowerSteps ==
  /\ Power[0] = 1
  /\ \A k \in 1..MaxLog : Power[k] = 2 * Power[k - 1]
BY PowerIs, BucketsAssumption DEF IsPower

LEMMA PowerTyped == \A k \in 0..MaxLog : Power[k] \in Nat /\ Power[k] > 0
<1> DEFINE S == {k \in 0..MaxLog : Power[k] \in Nat /\ Power[k] > 0}
<1>1. MaxLog \in Nat /\ 0 \in S
  BY PowerSteps, BucketsAssumption
<1>2. ASSUME NEW k \in 1..MaxLog, k - 1 \in S PROVE k \in S
  BY <1>2, PowerSteps
<1>3. \A k \in 0..MaxLog : k \in S
  <2> HIDE DEF S
  <2> QED
    BY <1>1, <1>2, Upward
<1> QED
  BY <1>3

LEMMA PowerSplit ==
  ASSUME NEW a \in 0..MaxLog, NEW b \in 0..(MaxLog - a)
  PROVE  Power[a + b] = Power[a] * Power[b]
<1> DEFINE n == MaxLog - a
           S == {k \in 0..n : Power[a + k] = Power[a] * Power[k]}
<1>1. MaxLog \in Nat /\ n \in Nat /\ Power[a] \in Nat
  BY PowerTyped, BucketsAssumption
<1>2. 0 \in S
  BY <1>1, PowerSteps
<1>3. ASSUME NEW k \in 1..n, k - 1 \in S PROVE k \in S
  <2>1. k \in 1..MaxLog /\ a + k \in 1..MaxLog /\ (a + k) - 1 = a + (k - 1)
    BY <1>1
  <2>2. Power[a + k] = 2 * (Power[a] * Power[k - 1])
    BY <1>3, <2>1, PowerSteps
  <2>3. Power[k] = 2 * Power[k - 1] /\ Power[k - 1] \in Nat
    BY <1>1, <2>1, PowerSteps, PowerTyped
  <2>4. Power[a + k] = Power[a] * Power[k]
    BY <1>1, <2>2, <2>3
  <2> QED
    BY <2>4
<1>4. \A k \in 0..n : k \in S
  <2> HIDE DEF S, n
  <2> QED
    BY <1>1, <1>2, <1>3, Upward
<1> QED
  BY <1>4

LEMMA PowerGrows ==
  ASSUME NEW i \in 0..MaxLog, NEW j \in 0..MaxLog, i <= j
  PROVE  Power[i] <= Power[j]
<1>1. j - i \in 0..(MaxLog - i) /\ j - i \in 0..MaxLog /\ i + (j - i) = j
  BY BucketsAssumption
<1>2. Power[j] = Power[i] * Power[j - i]
  BY <1>1, PowerSplit
<1>3. Power[i] \in Nat /\ Power[j - i] \in Nat /\ Power[j - i] > 0
  BY <1>1, PowerTyped
<1> QED
  BY <1>2, <1>3

LEMMA LogIs ==
  ASSUME NEW k \in 0..(MaxLog - 1), NEW v \in Nat, Power[k] <= v, v < Power[k + 1]
  PROVE  ILog2(v) = k
<1>1. MaxLog \in Nat /\ k \in 0..MaxLog /\ k + 1 \in 0..MaxLog
  BY BucketsAssumption
<1>2. ASSUME NEW j \in 0..(MaxLog - 1), Power[j] <= v, v < Power[j + 1]
      PROVE  j = k
  <2>1. j \in 0..MaxLog /\ j + 1 \in 0..MaxLog
    BY <1>1
  <2>2. /\ Power[j] \in Nat /\ Power[j + 1] \in Nat
        /\ Power[k] \in Nat /\ Power[k + 1] \in Nat
    BY <1>1, <2>1, PowerTyped
  <2>3. CASE j < k
    <3>1. Power[j + 1] <= Power[k]
      BY <1>1, <2>1, <2>3, PowerGrows
    <3> QED
      BY <1>2, <2>2, <3>1
  <2>4. CASE k < j
    <3>1. Power[k + 1] <= Power[j]
      BY <1>1, <2>1, <2>4, PowerGrows
    <3> QED
      BY <1>2, <2>2, <3>1
  <2> QED
    BY <1>1, <2>1, <2>3, <2>4
<1>3. \E j \in 0..(MaxLog - 1) : Power[j] <= v /\ v < Power[j + 1]
  OBVIOUS
<1> QED
  BY <1>2, <1>3 DEF ILog2

\* Every latency that is not below SUB has a logarithm.
LEMMA LogExists ==
  ASSUME NEW v \in Nat, v >= 1, v <= MaxLatency
  PROVE  \E k \in 0..(MaxLog - 1) : Power[k] <= v /\ v < Power[k + 1]
<1> DEFINE S == {k \in 0..MaxLog : Power[k] <= v}
<1>1. MaxLog \in Nat /\ MaxLog > 0 /\ MaxLatency < Power[MaxLog] /\ Power[MaxLog] \in Nat
      /\ MaxLatency \in Nat
  BY BucketsAssumption, PowerTyped
<1>2. SUFFICES ASSUME ~ \E k \in 0..(MaxLog - 1) : Power[k] <= v /\ v < Power[k + 1]
               PROVE  FALSE
  OBVIOUS
<1>3. 0 \in S
  BY <1>1, PowerSteps
<1>4. ASSUME NEW k \in 1..MaxLog, k - 1 \in S PROVE k \in S
  <2>1. k - 1 \in 0..(MaxLog - 1) /\ (k - 1) + 1 = k /\ Power[k - 1] <= v
    BY <1>1, <1>4
  <2>2. Power[k] \in Nat
    BY PowerTyped
  <2> QED
    BY <1>2, <2>1, <2>2
<1>5. \A k \in 0..MaxLog : k \in S
  <2> HIDE DEF S
  <2> QED
    BY <1>1, <1>3, <1>4, Upward
<1>6. Power[MaxLog] <= v
  BY <1>1, <1>5
<1> QED
  BY <1>1, <1>6

LEMMA DivIs ==
  ASSUME NEW v \in Nat, NEW q \in Nat, NEW s \in Nat, s * q <= v, v < (s + 1) * q
  PROVE  v \div q = s
OBVIOUS

LEMMA DivBounds ==
  ASSUME NEW v \in Nat, NEW q \in Nat, q > 0
  PROVE  v \div q \in Nat /\ (v \div q) * q <= v /\ v < ((v \div q) + 1) * q
OBVIOUS

LEMMA DivSum ==
  ASSUME NEW n \in Nat, NEW a \in Nat, NEW b \in 0..(n - 1)
  PROVE  (a * n + b) \div n = a /\ (a * n + b) % n = b
OBVIOUS

-----------------------------------------------------------------------------
(***************************************************************************)
(* Latency buckets.  A latency that is not below SUB is given by its power *)
(* of two and by its significant bits, and this is what bucket_of and      *)
(* bucket_upper_ns convert to an index and back.                           *)
(***************************************************************************)

InBucket(v, shift, significant) ==
  /\ v \in Nat /\ shift \in 0..(MaxLog - SubBits - 1)
  /\ significant \in Sub..(2 * Sub - 1)
  /\ significant * Power[shift] <= v
  /\ v < (significant + 1) * Power[shift]

Index(shift, significant) == Sub + shift * Sub + (significant - Sub)

LEMMA SubTyped ==
  /\ SubBits \in Nat /\ MaxLog \in Nat /\ SubBits < MaxLog /\ MaxLatency \in Nat
  /\ Sub \in Nat /\ Sub > 0
  /\ \A k \in 0..(MaxLog - SubBits) : /\ Power[k] \in Nat /\ Power[k] > 0
                                      /\ Power[SubBits + k] = Sub * Power[k]
                                      /\ k \in 0..MaxLog /\ SubBits + k \in 0..MaxLog
<1>1. SubBits \in Nat /\ MaxLog \in Nat /\ SubBits < MaxLog /\ MaxLatency \in Nat
  BY BucketsAssumption
<1>2. SubBits \in 0..MaxLog /\ \A k \in 0..(MaxLog - SubBits) :
        k \in 0..MaxLog /\ SubBits + k \in 0..MaxLog
  BY <1>1
<1> QED
  BY <1>1, <1>2, PowerTyped, PowerSplit DEF Sub

LEMMA HasBucket ==
  ASSUME NEW v \in Nat, v >= Sub, v <= MaxLatency
  PROVE  \E shift, significant : InBucket(v, shift, significant)
<1>1. v >= 1
  BY SubTyped
<1>2. PICK log \in 0..(MaxLog - 1) : Power[log] <= v /\ v < Power[log + 1]
  BY <1>1, LogExists
<1>3. log >= SubBits
  <2>1. SUFFICES ASSUME log < SubBits PROVE FALSE
    BY SubTyped
  <2>2. log + 1 \in 0..MaxLog /\ SubBits \in 0..MaxLog /\ log + 1 <= SubBits
    BY <2>1, SubTyped
  <2>3. Power[log + 1] <= Sub /\ Power[log + 1] \in Nat
    BY <2>2, PowerGrows, PowerTyped DEF Sub
  <2> QED
    BY <1>2, <2>3, SubTyped
<1> DEFINE shift == log - SubBits
           q == Power[shift]
<1>4. /\ shift \in 0..(MaxLog - SubBits - 1)
      /\ shift \in 0..(MaxLog - SubBits) /\ shift + 1 \in 0..(MaxLog - SubBits)
      /\ SubBits + shift = log /\ SubBits + (shift + 1) = log + 1
  BY <1>3, SubTyped
<1>5. q \in Nat /\ q > 0 /\ Power[log] = Sub * q
  BY <1>4, SubTyped
<1>6. Power[log + 1] = 2 * Power[log]
  <2>1. log + 1 \in 1..MaxLog /\ (log + 1) - 1 = log
    BY SubTyped
  <2> QED
    BY <2>1, PowerSteps
<1> HIDE DEF q
<1>7. /\ v \div q \in Nat /\ (v \div q) * q <= v /\ v < ((v \div q) + 1) * q
  BY <1>5, DivBounds
<1>8. Sub * q <= v /\ v < (2 * Sub) * q
  BY <1>2, <1>5, <1>6, SubTyped
<1>9. v \div q \in Sub..(2 * Sub - 1)
  <2>1. Sub * q < ((v \div q) + 1) * q /\ (v \div q) * q < (2 * Sub) * q
    BY <1>5, <1>7, <1>8, SubTyped
  <2>2. \A a, b \in Nat : a * q < b * q => a < b
    BY <1>5
  <2>3. Sub < (v \div q) + 1 /\ v \div q < 2 * Sub
    BY <1>7, <2>1, <2>2, SubTyped
  <2> QED
    BY <1>7, <2>3, SubTyped
<1> QED
  BY <1>4, <1>7, <1>9 DEF InBucket, q

\* bucket_of, for a latency that is not below SUB.
LEMMA BucketIs ==
  ASSUME NEW v, NEW shift, NEW significant, InBucket(v, shift, significant),
         v <= MaxLatency
  PROVE  /\ v >= Sub
         /\ BucketOf(v) = Index(shift, significant)
         /\ Index(shift, significant) \in AllBuckets
<1> DEFINE q == Power[shift]
           log == SubBits + shift
<1>1. /\ v \in Nat /\ shift \in Nat /\ significant \in Nat
      /\ shift \in 0..(MaxLog - SubBits) /\ shift + 1 \in 0..(MaxLog - SubBits)
      /\ log \in 0..(MaxLog - 1) /\ log + 1 = SubBits + (shift + 1)
      /\ log + 1 \in 1..MaxLog
      /\ significant >= Sub /\ significant <= 2 * Sub - 1
  BY SubTyped DEF InBucket
<1>2. q \in Nat /\ q > 0 /\ Power[log] = Sub * q /\ Power[log + 1] = 2 * Power[log]
  BY <1>1, SubTyped, PowerSteps
<1>3. significant * q <= v /\ v < (significant + 1) * q
  BY DEF InBucket
<1> HIDE DEF q
<1>4. Power[log] <= v /\ v < Power[log + 1]
  <2>1. Sub * q <= significant * q /\ (significant + 1) * q <= (2 * Sub) * q
    BY <1>1, <1>2, SubTyped
  <2>2. (2 * Sub) * q = 2 * (Sub * q)
    BY <1>2, SubTyped
  <2> QED
    BY <1>1, <1>2, <1>3, <2>1, <2>2, SubTyped
<1>5. ILog2(v) = log
  BY <1>1, <1>4, LogIs
<1>6. v \div q = significant
  BY <1>1, <1>2, <1>3, DivIs
<1>7. v >= Sub
  BY <1>1, <1>2, <1>4, SubTyped
<1>8. Clamped(v) = v
  BY <1>1, <1>7, SubTyped DEF Clamped, Greatest, Least
<1>9. Index(shift, significant) \in 0..(Buckets - 1)
  <2>1. shift * Sub <= (MaxLog - SubBits - 1) * Sub
    BY <1>1, SubTyped
  <2>2. Buckets = Sub + (MaxLog - SubBits - 1) * Sub + Sub
    BY SubTyped DEF Buckets
  <2>3. shift * Sub \in Nat /\ (MaxLog - SubBits - 1) * Sub \in Nat
    BY <1>1, SubTyped
  <2> QED
    BY <1>1, <2>1, <2>2, <2>3, SubTyped DEF Index
<1>10. BucketOf(v) = Least(Buckets - 1, Index(shift, significant))
  <2>1. log - SubBits = shift
    BY <1>1, SubTyped
  <2>2. v \div Power[log - SubBits] = significant
    BY <1>6, <2>1 DEF q
  <2>3. ~(v < Sub)
    BY <1>1, <1>7, SubTyped
  <2> HIDE DEF log
  <2> QED
    BY <1>5, <1>8, <2>1, <2>2, <2>3 DEF BucketOf, Index
<1>11. Buckets \in Nat
  BY SubTyped DEF Buckets
<1> QED
  BY <1>7, <1>9, <1>10, <1>11 DEF Least, AllBuckets

\* bucket_upper_ns takes the index apart again.
LEMMA UpperIs ==
  ASSUME NEW shift \in 0..(MaxLog - SubBits - 1), NEW significant \in Sub..(2 * Sub - 1)
  PROVE  UpperOf(Index(shift, significant)) =
           Least(MaxLatency, (significant + 1) * Power[shift] - 1)
<1>1. shift \in Nat /\ significant \in Nat /\ significant - Sub \in 0..(Sub - 1)
  BY SubTyped
<1>2. Index(shift, significant) - Sub = shift * Sub + (significant - Sub)
  <2>1. shift * Sub \in Nat
    BY <1>1, SubTyped
  <2> QED
    BY <1>1, <2>1, SubTyped DEF Index
<1>3. /\ (shift * Sub + (significant - Sub)) \div Sub = shift
      /\ (shift * Sub + (significant - Sub)) % Sub = significant - Sub
  BY <1>1, SubTyped, DivSum
<1>4. ~(Index(shift, significant) < Sub)
  <2>1. shift * Sub \in Nat
    BY <1>1, SubTyped
  <2> QED
    BY <1>1, <2>1, SubTyped DEF Index
<1>5. Sub + (significant - Sub) = significant
  BY <1>1, SubTyped
<1> QED
  BY <1>2, <1>3, <1>4, <1>5 DEF UpperOf

\* What the two conversions say of a latency and of its bound.
LEMMA BucketHolds ==
  ASSUME NEW v \in Nat, v >= 1, v <= MaxLatency
  PROVE  LET bound == UpperOf(BucketOf(v))
         IN /\ BucketOf(v) \in AllBuckets
            /\ bound \in Nat /\ v <= bound /\ bound <= MaxLatency
            /\ BucketOf(bound) = BucketOf(v)
            /\ bound < MaxLatency => BucketOf(bound + 1) = BucketOf(bound) + 1
            /\ Sub * (bound - v) <= v
<1> DEFINE bound == UpperOf(BucketOf(v))
<1>1. \A n \in Nat : n >= 1 /\ n <= MaxLatency => Clamped(n) = n
  BY SubTyped DEF Clamped, Greatest, Least
<1>2. Buckets \in Nat /\ Buckets >= 2 * Sub
  <2>1. (MaxLog - SubBits) * Sub >= Sub /\ (MaxLog - SubBits) * Sub \in Nat
    BY SubTyped
  <2> QED
    BY <2>1, SubTyped DEF Buckets
<1>3. CASE v < Sub
  <2>1. \A n \in Nat : n >= 1 /\ n <= MaxLatency /\ n < Sub => BucketOf(n) = n
    BY <1>1 DEF BucketOf
  <2>2. BucketOf(v) = v /\ bound = v
    BY <1>3, <2>1 DEF UpperOf
  <2>3. v \in AllBuckets
    BY <1>2, <1>3, SubTyped DEF AllBuckets
  <2>4. ASSUME v < MaxLatency PROVE BucketOf(v + 1) = v + 1
    <3>1. CASE v + 1 < Sub
      BY <2>1, <2>4, <3>1, SubTyped
    <3>2. CASE v + 1 = Sub
      <4>1. 0 \in 0..(MaxLog - SubBits - 1) /\ Power[0] = 1
        BY SubTyped, PowerSteps
      <4>2. InBucket(v + 1, 0, Sub)
        BY <3>2, <4>1, SubTyped DEF InBucket
      <4>3. BucketOf(v + 1) = Index(0, Sub)
        BY <2>4, <4>2, SubTyped, BucketIs
      <4> QED
        BY <3>2, <4>3, SubTyped DEF Index
    <3> QED
      BY <1>3, <3>1, <3>2, SubTyped
  <2>5. Sub * (bound - v) = 0
    BY <2>2, SubTyped
  <2> QED
    BY <2>2, <2>3, <2>4, <2>5
<1>4. CASE ~(v < Sub)
  <2>1. PICK shift, significant : InBucket(v, shift, significant)
    BY <1>4, HasBucket, SubTyped
  <2> DEFINE q == Power[shift]
             top == (significant + 1) * q - 1
  <2>2. /\ shift \in 0..(MaxLog - SubBits - 1) /\ shift \in Nat
        /\ shift \in 0..(MaxLog - SubBits)
        /\ significant \in Sub..(2 * Sub - 1) /\ significant \in Nat
        /\ q \in Nat /\ q > 0
    BY <2>1, SubTyped DEF InBucket
  <2>3. significant * q <= v /\ v < (significant + 1) * q
    BY <2>1 DEF InBucket
  <2>4. BucketOf(v) = Index(shift, significant) /\ BucketOf(v) \in AllBuckets
    BY <2>1, BucketIs
  <2>5. bound = Least(MaxLatency, top)
    BY <2>2, <2>4, UpperIs
  <2> HIDE DEF q, bound
  <2>6. (significant + 1) * q \in Nat /\ significant * q \in Nat
    BY <2>2
  <2>7. /\ bound \in Nat /\ v <= bound /\ bound <= MaxLatency
        /\ bound < (significant + 1) * q
    BY <2>3, <2>5, <2>6, SubTyped DEF Least
  <2>8. InBucket(bound, shift, significant)
    BY <2>2, <2>3, <2>6, <2>7 DEF InBucket, q
  <2>9. BucketOf(bound) = Index(shift, significant)
    BY <2>7, <2>8, BucketIs
  <2>10. ASSUME bound < MaxLatency
         PROVE  BucketOf(bound + 1) = Index(shift, significant) + 1
    <3>1. bound + 1 = (significant + 1) * q /\ bound + 1 \in Nat /\ bound + 1 <= MaxLatency
      BY <2>5, <2>6, <2>7, <2>10, SubTyped DEF Least
    <3>2. CASE significant + 1 <= 2 * Sub - 1
      <4>1. (significant + 1) * q < ((significant + 1) + 1) * q
        BY <2>2
      <4>2. InBucket(bound + 1, shift, significant + 1)
        BY <2>2, <3>1, <3>2, <4>1, SubTyped DEF InBucket, q
      <4>3. BucketOf(bound + 1) = Index(shift, significant + 1)
        BY <3>1, <4>2, BucketIs
      <4>4. shift * Sub \in Nat
        BY <2>2, SubTyped
      <4> QED
        BY <2>2, <4>3, <4>4, SubTyped DEF Index
    <3>3. CASE significant + 1 = 2 * Sub
      <4>1. shift + 1 \in 0..(MaxLog - SubBits) /\ (shift + 1) - 1 = shift
            /\ shift + 1 \in 1..MaxLog
        BY <2>2, SubTyped
      <4>2. Power[shift + 1] = 2 * q
        BY <4>1, PowerSteps DEF q
      <4>3. bound + 1 = Sub * (2 * q)
        BY <2>2, <3>1, <3>3, SubTyped
      <4>4. shift + 1 <= MaxLog - SubBits - 1
        <5>1. SUFFICES ASSUME shift + 1 = MaxLog - SubBits PROVE FALSE
          BY <4>1, SubTyped
        <5>2. Power[SubBits + (shift + 1)] = Sub * (2 * q)
          BY <4>1, <4>2, SubTyped
        <5>3. Power[MaxLog] = bound + 1
          BY <4>3, <5>1, <5>2, SubTyped
        <5> QED
          BY <3>1, <5>3, BucketsAssumption
      <4>5. Sub * (2 * q) < (Sub + 1) * (2 * q)
        BY <2>2, SubTyped
      <4>6. InBucket(bound + 1, shift + 1, Sub)
        BY <2>2, <3>1, <4>2, <4>3, <4>4, <4>5, SubTyped DEF InBucket
      <4>7. BucketOf(bound + 1) = Index(shift + 1, Sub)
        BY <3>1, <4>6, BucketIs
      <4>8. shift * Sub \in Nat /\ (shift + 1) * Sub = shift * Sub + Sub
        BY <2>2, SubTyped
      <4> QED
        BY <2>2, <3>3, <4>7, <4>8, SubTyped DEF Index
    <3> QED
      BY <2>2, <3>2, <3>3, SubTyped
  <2>11. Sub * (bound - v) <= v
    <3>1. bound - v \in Nat /\ bound - v <= q
      <4>1. (significant + 1) * q = significant * q + q
        BY <2>2
      <4> QED
        BY <2>2, <2>3, <2>6, <2>7, <4>1
    <3>2. Sub * (bound - v) <= Sub * q
      BY <2>2, <3>1, SubTyped
    <3>3. Sub * q <= significant * q
      BY <2>2, SubTyped
    <3>4. Sub * (bound - v) \in Nat /\ Sub * q \in Nat
      BY <2>2, <3>1, SubTyped
    <3> QED
      BY <2>3, <2>6, <3>2, <3>3, <3>4
  <2> QED
    BY <2>4, <2>7, <2>9, <2>10, <2>11 DEF bound
<1> QED
  BY <1>3, <1>4, SubTyped

LEMMA BucketIsRight ==
  ASSUME NEW ns \in Nat
  PROVE  BucketRight(ns)
<1> DEFINE v == Clamped(ns)
<1>1. MaxLatency >= 1
  <2>1. MaxLog - 1 \in 0..MaxLog
    BY SubTyped
  <2>2. Power[MaxLog - 1] \in Nat /\ Power[MaxLog - 1] > 0
    BY <2>1, PowerTyped
  <2> QED
    BY <2>2, BucketsAssumption
<1>2. v \in Nat /\ v >= 1 /\ v <= MaxLatency
  BY <1>1, SubTyped DEF Clamped, Greatest, Least
<1>3. Clamped(v) = v
  BY <1>2, SubTyped DEF Clamped, Greatest, Least
<1>4. BucketOf(v) = BucketOf(ns)
  BY <1>3 DEF BucketOf
<1> HIDE DEF v
<1>5. LET bound == UpperOf(BucketOf(v))
      IN /\ BucketOf(v) \in AllBuckets
         /\ bound \in Nat /\ v <= bound /\ bound <= MaxLatency
         /\ BucketOf(bound) = BucketOf(v)
         /\ bound < MaxLatency => BucketOf(bound + 1) = BucketOf(bound) + 1
         /\ Sub * (bound - v) <= v
  BY <1>2, BucketHolds
<1> QED
  BY <1>4, <1>5 DEF BucketRight, v

-----------------------------------------------------------------------------
(* Sums over the buckets.                                                  *)

LEMMA BucketsTyped == Buckets \in Nat /\ Buckets > 0 /\ AllBuckets = 0..(Buckets - 1)
<1>1. (MaxLog - SubBits) * Sub \in Nat
  BY SubTyped
<1> QED
  BY <1>1, SubTyped DEF Buckets, AllBuckets

IsCounted(g, hist) ==
  g = [k \in 0..Buckets |-> IF k = 0 THEN 0 ELSE g[k - 1] + hist[k - 1]]

\* The samples in the first k buckets.
Counted(hist) == CHOOSE g : IsCounted(g, hist)

LEMMA SamplesIs ==
  ASSUME NEW hist
  PROVE  Samples(hist) = Counted(hist)[Buckets]
BY DEF Samples, Counted, IsCounted

\* Of histograms with a number of samples in each bucket.
LEMMA CountedSteps ==
  ASSUME NEW hist \in [AllBuckets -> Nat]
  PROVE  /\ Counted(hist)[0] = 0
         /\ \A k \in 0..Buckets : Counted(hist)[k] \in Nat
         /\ \A k \in 0..(Buckets - 1) :
              /\ hist[k] \in Nat
              /\ Counted(hist)[k + 1] = Counted(hist)[k] + hist[k]
<1> DEFINE step == [z \in (1..Buckets) \X Nat |-> z[2] + hist[z[1] - 1]]
           c == Counted(hist)
<1>1. \A k \in 1..Buckets : k - 1 \in AllBuckets /\ hist[k - 1] \in Nat
  BY BucketsTyped
<1>2. step \in [(1..Buckets) \X Nat -> Nat]
  BY <1>1
<1>3. \A k \in 1..Buckets, m \in Nat : step[<<k, m>>] = m + hist[k - 1]
  OBVIOUS
<1> HIDE DEF step
<1>4. PICK g \in [0..Buckets -> Nat] : Recurs(g, Buckets, 0, step)
  BY <1>2, BucketsTyped, RecursionExists
<1>5. ASSUME NEW k \in 1..Buckets PROVE g[k] = g[k - 1] + hist[k - 1]
  <2>1. k - 1 \in 0..Buckets
    BY BucketsTyped
  <2> QED
    BY <1>3, <1>4, <2>1 DEF Recurs
<1>6. \A k \in 0..Buckets : g[k] = IF k = 0 THEN 0 ELSE g[k - 1] + hist[k - 1]
  BY <1>4, <1>5, BucketsTyped DEF Recurs
<1>7. g = [k \in 0..Buckets |-> g[k]]
  OBVIOUS
<1>8. IsCounted(g, hist)
  BY <1>6, <1>7 DEF IsCounted
<1>9. IsCounted(c, hist)
  BY <1>8 DEF Counted
<1> HIDE DEF c
<1>10. c[0] = 0 /\ \A k \in 1..Buckets : c[k] = c[k - 1] + hist[k - 1]
  BY <1>9, BucketsTyped DEF IsCounted
<1> DEFINE S == {k \in 0..Buckets : c[k] \in Nat}
<1>11. \A k \in 0..Buckets : c[k] \in Nat
  <2>1. 0 \in S
    BY <1>10, BucketsTyped
  <2>2. ASSUME NEW k \in 1..Buckets, k - 1 \in S PROVE k \in S
    BY <1>1, <1>10, <2>2, BucketsTyped
  <2>3. \A k \in 0..Buckets : k \in S
    <3> HIDE DEF S
    <3> QED
      BY <2>1, <2>2, BucketsTyped, Upward
  <2> QED
    BY <2>3
<1>12. ASSUME NEW k \in 0..(Buckets - 1)
       PROVE  hist[k] \in Nat /\ c[k + 1] = c[k] + hist[k]
  <2>1. k \in AllBuckets /\ k + 1 \in 1..Buckets /\ (k + 1) - 1 = k
    BY BucketsTyped
  <2> QED
    BY <1>10, <2>1
<1> QED
  BY <1>10, <1>11, <1>12 DEF c

LEMMA CountedGrows ==
  ASSUME NEW hist \in [AllBuckets -> Nat],
         NEW i \in 0..Buckets, NEW j \in 0..Buckets, i <= j
  PROVE  Counted(hist)[i] <= Counted(hist)[j]
<1> DEFINE c == Counted(hist)
           n == Buckets - i
           S == {k \in 0..n : c[i] <= c[i + k]}
<1>1. n \in Nat /\ j - i \in 0..n /\ i + (j - i) = j /\ c[i] \in Nat
  BY BucketsTyped, CountedSteps
<1>2. 0 \in S
  BY <1>1, BucketsTyped
<1>3. ASSUME NEW k \in 1..n, k - 1 \in S PROVE k \in S
  <2>1. i + (k - 1) \in 0..(Buckets - 1) /\ (i + (k - 1)) + 1 = i + k
        /\ i + (k - 1) \in 0..Buckets
    BY BucketsTyped
  <2>2. c[i + k] = c[i + (k - 1)] + hist[i + (k - 1)] /\ hist[i + (k - 1)] \in Nat
        /\ c[i + (k - 1)] \in Nat
    BY <2>1, CountedSteps
  <2> QED
    BY <1>1, <1>3, <2>2
<1>4. \A k \in 0..n : k \in S
  <2> HIDE DEF S, n
  <2> QED
    BY <1>1, <1>2, <1>3, Upward
<1> QED
  BY <1>1, <1>4

\* Fewer samples in each of the first buckets are fewer samples.
LEMMA CountedLess ==
  ASSUME NEW f \in [AllBuckets -> Nat], NEW g \in [AllBuckets -> Nat],
         NEW n \in 0..Buckets, \A b \in 0..(n - 1) : f[b] <= g[b]
  PROVE  Counted(f)[n] <= Counted(g)[n]
<1> DEFINE S == {k \in 0..n : Counted(f)[k] <= Counted(g)[k]}
<1>1. 0 \in S /\ n \in Nat
  <2>1. Counted(f)[0] = 0 /\ Counted(g)[0] = 0
    BY CountedSteps
  <2> QED
    BY <2>1, BucketsTyped
<1>2. ASSUME NEW k \in 1..n, k - 1 \in S PROVE k \in S
  <2>1. k - 1 \in 0..(Buckets - 1) /\ k - 1 \in 0..Buckets /\ k - 1 \in 0..(n - 1)
        /\ (k - 1) + 1 = k
    BY BucketsTyped
  <2>2. /\ Counted(f)[k] = Counted(f)[k - 1] + f[k - 1]
        /\ Counted(g)[k] = Counted(g)[k - 1] + g[k - 1]
        /\ Counted(f)[k - 1] \in Nat /\ Counted(g)[k - 1] \in Nat
        /\ f[k - 1] \in Nat /\ g[k - 1] \in Nat
    BY <2>1, CountedSteps
  <2> QED
    BY <1>2, <2>1, <2>2
<1>3. \A k \in 0..n : k \in S
  <2> HIDE DEF S
  <2> QED
    BY <1>1, <1>2, Upward
<1> QED
  BY <1>1, <1>3

\* Buckets without samples add none.
LEMMA CountedEnds ==
  ASSUME NEW f \in [AllBuckets -> Nat], NEW n \in 0..Buckets,
         \A b \in n..(Buckets - 1) : f[b] = 0
  PROVE  Counted(f)[Buckets] = Counted(f)[n]
<1> DEFINE c == Counted(f)
           m == Buckets - n
           S == {k \in 0..m : c[n + k] = c[n]}
<1>1. m \in Nat /\ m \in 0..m /\ n + m = Buckets /\ 0 \in S
  BY BucketsTyped
<1>2. ASSUME NEW k \in 1..m, k - 1 \in S PROVE k \in S
  <2>1. n + (k - 1) \in 0..(Buckets - 1) /\ n + (k - 1) \in n..(Buckets - 1)
        /\ (n + (k - 1)) + 1 = n + k /\ n + (k - 1) \in 0..Buckets
    BY BucketsTyped
  <2>2. c[n + k] = c[n + (k - 1)] + f[n + (k - 1)] /\ c[n + (k - 1)] \in Nat
    BY <2>1, CountedSteps
  <2> QED
    BY <1>2, <2>1, <2>2
<1>3. \A k \in 0..m : k \in S
  <2> HIDE DEF S, m
  <2> QED
    BY <1>1, <1>2, Upward
<1> QED
  BY <1>1, <1>3

-----------------------------------------------------------------------------
(* The bounds of the buckets grow, and so do the ranks of the percentiles. *)

LEMMA UpperSteps ==
  ASSUME NEW b \in 0..(Buckets - 2)
  PROVE  UpperOf(b) \in Nat /\ UpperOf(b + 1) \in Nat /\ UpperOf(b) <= UpperOf(b + 1)
<1>1. b \in Nat /\ MaxLatency >= Sub
  <2>1. MaxLog - 1 \in 0..MaxLog /\ SubBits \in 0..MaxLog /\ SubBits <= MaxLog - 1
    BY SubTyped
  <2>2. Sub <= Power[MaxLog - 1] /\ Power[MaxLog - 1] \in Nat
    BY <2>1, PowerGrows, PowerTyped DEF Sub
  <2>3. Power[MaxLog - 1] <= MaxLatency
    BY BucketsAssumption
  <2> QED
    BY <2>2, <2>3, SubTyped, BucketsTyped
<1>2. CASE b + 1 < Sub
  BY <1>1, <1>2, SubTyped DEF UpperOf
<1>3. CASE b + 1 = Sub
  <2>1. UpperOf(b) = b
    BY <1>1, <1>3, SubTyped DEF UpperOf
  <2>2. 0 \in 0..(MaxLog - SubBits - 1) /\ Sub \in Sub..(2 * Sub - 1) /\ Power[0] = 1
    BY SubTyped, PowerSteps
  <2>3. UpperOf(Index(0, Sub)) = Least(MaxLatency, (Sub + 1) * 1 - 1)
    BY <2>2, UpperIs
  <2>4. Index(0, Sub) = b + 1
    BY <1>3, SubTyped DEF Index
  <2> QED
    BY <1>1, <1>3, <2>1, <2>3, <2>4, SubTyped DEF Least
<1>4. CASE b >= Sub
  <2> DEFINE x == b - Sub
             shift == x \div Sub
             significant == Sub + (x % Sub)
             q == Power[shift]
  <2>1. x \in Nat /\ shift \in Nat /\ x = Sub * shift + (x % Sub) /\ x % Sub \in 0..(Sub - 1)
    BY <1>1, <1>4, SubTyped
  <2>2. significant \in Sub..(2 * Sub - 1) /\ significant \in Nat
    BY <2>1, SubTyped
  <2>3. shift \in 0..(MaxLog - SubBits - 1)
    <3>1. Sub * shift < (MaxLog - SubBits) * Sub
      <4>1. x < (MaxLog - SubBits) * Sub
        <5>1. (MaxLog - SubBits) * Sub \in Nat
          BY SubTyped
        <5> QED
          BY <1>1, <5>1, SubTyped, BucketsTyped DEF Buckets
      <4>2. Sub * shift \in Nat /\ (MaxLog - SubBits) * Sub \in Nat
        BY <2>1, SubTyped
      <4> QED
        BY <2>1, <4>1, <4>2
    <3>2. \A n, m \in Nat : Sub * n < m * Sub => n < m
      BY SubTyped
    <3>3. MaxLog - SubBits \in Nat
      BY SubTyped
    <3>4. shift < MaxLog - SubBits
      BY <2>1, <3>1, <3>2, <3>3
    <3> QED
      BY <2>1, <3>4, SubTyped
  <2> HIDE DEF shift, significant
  <2>4. b = Index(shift, significant)
    <3>1. Sub * shift = shift * Sub /\ shift * Sub \in Nat
      BY <2>1, SubTyped
    <3> QED
      BY <1>1, <2>1, <2>2, <3>1, SubTyped DEF Index, significant
  <2>5. UpperOf(b) = Least(MaxLatency, (significant + 1) * q - 1)
    BY <2>2, <2>3, <2>4, UpperIs
  <2>6. q \in Nat /\ q > 0 /\ shift \in 0..(MaxLog - SubBits)
    BY <2>3, SubTyped
  <2>7. (significant + 1) * q \in Nat /\ (significant + 1) * q > 0
    BY <2>2, <2>6
  <2>8. CASE significant + 1 <= 2 * Sub - 1
    <3>1. significant + 1 \in Sub..(2 * Sub - 1)
      BY <2>2, <2>8, SubTyped
    <3>2. b + 1 = Index(shift, significant + 1)
      <4>1. shift * Sub \in Nat
        BY <2>1, SubTyped
      <4> QED
        BY <2>2, <2>4, <4>1, SubTyped DEF Index
    <3>3. UpperOf(b + 1) = Least(MaxLatency, ((significant + 1) + 1) * q - 1)
      BY <2>3, <3>1, <3>2, UpperIs
    <3>4. ((significant + 1) + 1) * q = (significant + 1) * q + q
      <4> HIDE DEF q
      <4> QED
        BY <2>2, <2>6
    <3> HIDE DEF q
    <3> QED
      BY <2>5, <2>6, <2>7, <3>3, <3>4, SubTyped DEF Least
  <2>9. CASE significant + 1 = 2 * Sub
    <3>1. b + 1 = Index(shift + 1, Sub)
      <4>1. shift * Sub \in Nat /\ (shift + 1) * Sub = shift * Sub + Sub
        BY <2>1, SubTyped
      <4> QED
        BY <2>2, <2>4, <2>9, <4>1, SubTyped DEF Index
    <3>2. shift + 1 \in 0..(MaxLog - SubBits - 1)
      <4>1. SUFFICES ASSUME shift + 1 = MaxLog - SubBits PROVE FALSE
        BY <2>3, SubTyped
      <4>2. b + 1 = Sub + (MaxLog - SubBits) * Sub
        BY <3>1, <4>1, SubTyped DEF Index
      <4>3. (MaxLog - SubBits) * Sub \in Nat
        BY SubTyped
      <4> QED
        BY <1>1, <4>2, <4>3, SubTyped, BucketsTyped DEF Buckets
    <3>3. Power[shift + 1] = 2 * q
      <4>1. shift + 1 \in 1..MaxLog /\ (shift + 1) - 1 = shift
        BY <2>3, SubTyped
      <4> QED
        BY <4>1, PowerSteps
    <3>4. UpperOf(b + 1) = Least(MaxLatency, (Sub + 1) * (2 * q) - 1)
      <4>1. Sub \in Sub..(2 * Sub - 1)
        BY SubTyped
      <4> QED
        BY <3>1, <3>2, <3>3, <4>1, UpperIs
    <3>5. (Sub + 1) * (2 * q) = (significant + 1) * q + 2 * q
      BY <2>2, <2>6, <2>9, SubTyped
    <3> HIDE DEF q
    <3> QED
      BY <2>5, <2>6, <2>7, <3>4, <3>5, SubTyped DEF Least
  <2> QED
    BY <2>2, <2>8, <2>9, SubTyped
<1> QED
  BY <1>1, <1>2, <1>3, <1>4, SubTyped

LEMMA UpperGrows ==
  ASSUME NEW a \in AllBuckets, NEW b \in AllBuckets, a <= b
  PROVE  UpperOf(a) \in Nat /\ UpperOf(b) \in Nat /\ UpperOf(a) <= UpperOf(b)
<1> DEFINE n == (Buckets - 1) - a
           S == {k \in 0..n : UpperOf(a + k) \in Nat /\ UpperOf(a) <= UpperOf(a + k)}
<1>1. n \in Nat /\ b - a \in 0..n /\ a + (b - a) = b
  BY BucketsTyped
<1>2. Buckets >= 2
  <2>1. (MaxLog - SubBits) * Sub >= Sub /\ (MaxLog - SubBits) * Sub \in Nat
    BY SubTyped
  <2> QED
    BY <2>1, SubTyped DEF Buckets
<1>3. UpperOf(a) \in Nat
  <2>1. CASE a \in 0..(Buckets - 2)
    BY <2>1, UpperSteps
  <2>2. CASE a = Buckets - 1
    <3>1. a - 1 \in 0..(Buckets - 2) /\ (a - 1) + 1 = a
      BY <1>2, <2>2, BucketsTyped
    <3> QED
      BY <3>1, UpperSteps
  <2> QED
    BY <2>1, <2>2, BucketsTyped
<1>4. 0 \in S
  BY <1>1, <1>3, BucketsTyped
<1>5. ASSUME NEW k \in 1..n, k - 1 \in S PROVE k \in S
  <2>1. a + (k - 1) \in 0..(Buckets - 2) /\ (a + (k - 1)) + 1 = a + k
    BY <1>1, BucketsTyped
  <2>2. UpperOf(a + k) \in Nat /\ UpperOf(a + (k - 1)) <= UpperOf(a + k)
        /\ UpperOf(a + (k - 1)) \in Nat
    BY <2>1, UpperSteps
  <2> QED
    BY <1>3, <1>5, <2>2
<1>6. \A k \in 0..n : k \in S
  <2> HIDE DEF S, n
  <2> QED
    BY <1>1, <1>4, <1>5, Upward
<1> QED
  BY <1>1, <1>3, <1>6

LEMMA PermillesAre ==
  /\ DOMAIN Permilles = 1..4
  /\ Permilles[1] = 500 /\ Permilles[2] = 950 /\ Permilles[3] = 990 /\ Permilles[4] = 999
BY DEF Permilles

\* The rank of a percentile is the least number of samples that is enough.
LeastEnough(r, total, p) ==
  r \in 1..total /\ \A m \in Nat : m >= r <=> 1000 * m >= p * total

LEMMA RankIs ==
  ASSUME NEW total \in Nat, total > 0, NEW p \in Nat, p > 0, p <= 1000
  PROVE  LeastEnough(Rank(total, p), total, p)
<1> DEFINE x == total * p
           r == (x + 999) \div 1000
<1>1. x \in Nat /\ x > 0 /\ x <= 1000 * total /\ x = p * total
  OBVIOUS
<1> HIDE DEF x
<1>2. r \in Nat /\ r >= 1 /\ r <= total /\ \A m \in Nat : m >= r <=> 1000 * m >= x
  BY <1>1
<1>3. Rank(total, p) = r
  BY <1>2 DEF Rank, Greatest, x
<1> QED
  BY <1>1, <1>2, <1>3 DEF LeastEnough

LEMMA RanksAscend ==
  ASSUME NEW total \in Nat, total > 0
  PROVE  /\ DOMAIN Ranks(total) = 1..4
         /\ \A k \in 1..4 : Ranks(total)[k] = Rank(total, Permilles[k])
         /\ \A k \in 1..4 : Ranks(total)[k] \in 1..total
         /\ Ranks(total)[1] <= Ranks(total)[2]
         /\ Ranks(total)[2] <= Ranks(total)[3]
         /\ Ranks(total)[3] <= Ranks(total)[4]
<1>1. /\ DOMAIN Ranks(total) = 1..4
      /\ \A k \in 1..4 : Ranks(total)[k] = Rank(total, Permilles[k])
  BY PermillesAre DEF Ranks
<1>2. \A k \in 1..4 : Permilles[k] \in Nat /\ Permilles[k] > 0 /\ Permilles[k] <= 1000
  BY PermillesAre
<1>3. ASSUME NEW k \in 1..4 PROVE Ranks(total)[k] \in 1..total
  <2>1. LeastEnough(Rank(total, Permilles[k]), total, Permilles[k])
    <3> DEFINE p == Permilles[k]
    <3>1. p \in Nat /\ p > 0 /\ p <= 1000
      BY <1>2
    <3> HIDE DEF p
    <3>2. LeastEnough(Rank(total, p), total, p)
      BY <3>1, RankIs
    <3> QED
      BY <3>2 DEF p
  <2> QED
    BY <1>1, <2>1 DEF LeastEnough
<1>4. ASSUME NEW p \in Nat, NEW q \in Nat, p > 0, p <= q, q <= 1000
      PROVE  Rank(total, p) <= Rank(total, q)
  <2>1. LeastEnough(Rank(total, p), total, p) /\ LeastEnough(Rank(total, q), total, q)
    BY <1>4, RankIs
  <2>2. q * total >= p * total /\ q * total \in Nat /\ p * total \in Nat
    BY <1>4
  <2>3. Rank(total, q) \in Nat /\ 1000 * Rank(total, q) >= q * total
    BY <2>1 DEF LeastEnough
  <2>4. 1000 * Rank(total, q) >= p * total
    BY <2>2, <2>3
  <2>5. Rank(total, q) >= Rank(total, p) /\ Rank(total, p) \in Nat
    BY <2>1, <2>3, <2>4 DEF LeastEnough
  <2> QED
    BY <2>3, <2>5
<1>5. \A k \in 1..3 : Ranks(total)[k] <= Ranks(total)[k + 1]
  <2>1. \A k \in 1..3 : k \in 1..4 /\ k + 1 \in 1..4 /\ Permilles[k] <= Permilles[k + 1]
    BY PermillesAre
  <2> QED
    BY <1>1, <1>2, <1>4, <2>1
<1> QED
  BY <1>1, <1>3, <1>5

-----------------------------------------------------------------------------
(***************************************************************************)
(* The walk that serves the percentiles.  After j buckets it has served    *)
(* those whose rank the samples in these buckets reach, each with the      *)
(* bound of the bucket in which they reached it.                           *)
(***************************************************************************)

Walks == [cumulative : Nat, next : Nat, values : [1..4 -> Nat]]

RanksOK(ranks) ==
  /\ ranks \in [1..4 -> Nat]
  /\ \A k \in 1..4 : ranks[k] > 0
  /\ ranks[1] <= ranks[2] /\ ranks[2] <= ranks[3] /\ ranks[3] <= ranks[4]

\* The bucket in which the samples reach a rank.
ReachedIn(hist, rank, b) ==
  Counted(hist)[b] < rank /\ rank <= Counted(hist)[b + 1]

ServedSoFar(walk, hist, ranks, j) ==
  /\ walk.cumulative = Counted(hist)[j]
  /\ walk.next \in 1..5
  /\ \A k \in 1..4 : k < walk.next <=> ranks[k] <= Counted(hist)[j]
  /\ \A k \in 1..4 : k < walk.next =>
       \E b \in 0..(j - 1) : walk.values[k] = UpperOf(b) /\ ReachedIn(hist, ranks[k], b)

\* The percentiles a number of samples serves are the first ones.
LEMMA FirstServed ==
  ASSUME NEW ranks, RanksOK(ranks), NEW c \in Nat
  PROVE  \E m \in 1..5 : \A k \in 1..4 : k < m <=> ranks[k] <= c
<1>1. /\ ranks[1] \in Nat /\ ranks[2] \in Nat /\ ranks[3] \in Nat /\ ranks[4] \in Nat
      /\ ranks[1] <= ranks[2] /\ ranks[2] <= ranks[3] /\ ranks[3] <= ranks[4]
  BY DEF RanksOK
<1>2. \A k \in 1..4 : k = 1 \/ k = 2 \/ k = 3 \/ k = 4
  OBVIOUS
<1>3. CASE ~(ranks[1] <= c)
  <2>1. \A k \in 1..4 : k < 1 <=> ranks[k] <= c
    BY <1>1, <1>2, <1>3
  <2> QED
    BY <2>1
<1>4. CASE ranks[1] <= c /\ ~(ranks[2] <= c)
  <2>1. \A k \in 1..4 : k < 2 <=> ranks[k] <= c
    BY <1>1, <1>2, <1>4
  <2> QED
    BY <2>1
<1>5. CASE ranks[2] <= c /\ ~(ranks[3] <= c)
  <2>1. \A k \in 1..4 : k < 3 <=> ranks[k] <= c
    BY <1>1, <1>2, <1>5
  <2> QED
    BY <2>1
<1>6. CASE ranks[3] <= c /\ ~(ranks[4] <= c)
  <2>1. \A k \in 1..4 : k < 4 <=> ranks[k] <= c
    BY <1>1, <1>2, <1>6
  <2> QED
    BY <2>1
<1>7. CASE ranks[4] <= c
  <2>1. \A k \in 1..4 : k < 5 <=> ranks[k] <= c
    BY <1>1, <1>2, <1>7
  <2> QED
    BY <2>1
<1> QED
  BY <1>3, <1>4, <1>5, <1>6, <1>7

LEMMA UpperTyped == \A b \in AllBuckets : UpperOf(b) \in Nat
<1> SUFFICES ASSUME NEW b \in AllBuckets PROVE UpperOf(b) \in Nat
  OBVIOUS
<1>1. b <= b
  BY BucketsTyped
<1> QED
  BY <1>1, UpperGrows

LEMMA VisitTyped ==
  ASSUME NEW hist \in [AllBuckets -> Nat], NEW ranks \in [1..4 -> Nat],
         NEW walk \in Walks, NEW b \in AllBuckets
  PROVE  Visit(hist, ranks, walk, b) \in Walks
<1> DEFINE cumulative == walk.cumulative + hist[b]
           served == {k \in DOMAIN ranks : k >= walk.next /\ ranks[k] <= cumulative}
<1>1. IsFiniteSet(served) /\ Cardinality(served) \in Nat
  <2>1. IsFiniteSet(1..4)
    <3>1. 1 \in Int /\ 4 \in Int
      OBVIOUS
    <3> QED
      BY <3>1, FS_Interval
  <2>2. served \subseteq 1..4
    OBVIOUS
  <2> HIDE DEF served
  <2>3. IsFiniteSet(served)
    BY <2>1, <2>2, FS_Subset
  <2> QED
    BY <2>3, FS_CardinalityType
<1>2. walk.cumulative \in Nat /\ walk.next \in Nat /\ walk.values \in [1..4 -> Nat]
  BY DEF Walks
<1>3. cumulative \in Nat /\ walk.next + Cardinality(served) \in Nat
  BY <1>1, <1>2
<1>4. [k \in DOMAIN ranks |-> IF k \in served THEN UpperOf(b) ELSE walk.values[k]]
        \in [1..4 -> Nat]
  BY <1>2, UpperTyped
<1> HIDE DEF served, cumulative
<1> QED
  BY <1>3, <1>4 DEF Visit, Walks, served, cumulative

LEMMA VisitServes ==
  ASSUME NEW hist \in [AllBuckets -> Nat], NEW ranks, RanksOK(ranks),
         NEW walk \in Walks, NEW j \in 0..(Buckets - 1),
         ServedSoFar(walk, hist, ranks, j)
  PROVE  ServedSoFar(Visit(hist, ranks, walk, j), hist, ranks, j + 1)
<1> DEFINE c == Counted(hist)
           cumulative == walk.cumulative + hist[j]
           served == {k \in DOMAIN ranks : k >= walk.next /\ ranks[k] <= cumulative}
           after == Visit(hist, ranks, walk, j)
<1>1. /\ c[j] \in Nat /\ c[j + 1] \in Nat /\ c[j] <= c[j + 1]
      /\ cumulative = c[j + 1] /\ j \in Nat
  <2>1. j \in 0..Buckets /\ j + 1 \in 0..Buckets
    BY BucketsTyped
  <2>2. hist[j] \in Nat /\ c[j + 1] = c[j] + hist[j] /\ c[j] \in Nat /\ c[j + 1] \in Nat
    BY <2>1, CountedSteps
  <2> QED
    BY <2>2, BucketsTyped DEF ServedSoFar
<1>2. PICK m \in 1..5 : \A k \in 1..4 : k < m <=> ranks[k] <= c[j + 1]
  BY <1>1, FirstServed
<1>3. /\ walk.next \in 1..5 /\ DOMAIN ranks = 1..4
      /\ \A k \in 1..4 : ranks[k] \in Nat
      /\ \A k \in 1..4 : k < walk.next <=> ranks[k] <= c[j]
  BY DEF ServedSoFar, RanksOK
<1>4. walk.next <= m
  <2>1. SUFFICES ASSUME m < walk.next PROVE FALSE
    BY <1>2, <1>3
  <2>2. m \in 1..4
    BY <1>2, <1>3, <2>1
  <2>3. ranks[m] <= c[j] /\ ~(ranks[m] <= c[j + 1])
    BY <1>2, <1>3, <2>1, <2>2
  <2> QED
    BY <1>1, <1>3, <2>2, <2>3
<1>5. served = walk.next..(m - 1)
  <2>1. ASSUME NEW k \in served PROVE k \in walk.next..(m - 1)
    BY <1>1, <1>2, <1>3
  <2>2. ASSUME NEW k \in walk.next..(m - 1) PROVE k \in served
    <3>1. k \in 1..4 /\ k < m /\ k >= walk.next
      BY <1>2, <1>3
    <3> QED
      BY <1>1, <1>2, <1>3, <3>1
  <2> QED
    BY <2>1, <2>2
<1>6. walk.next + Cardinality(served) = m
  <2>1. walk.next \in Int /\ m - 1 \in Int
    BY <1>2, <1>3
  <2>2. Cardinality(walk.next..(m - 1)) =
          IF walk.next > m - 1 THEN 0 ELSE (m - 1) - walk.next + 1
    BY <2>1, FS_Interval
  <2> HIDE DEF served
  <2>3. Cardinality(served) = m - walk.next
    BY <1>2, <1>3, <1>4, <1>5, <2>2
  <2> QED
    BY <1>2, <1>3, <2>3
<1>7. /\ after.cumulative = cumulative
      /\ after.next = walk.next + Cardinality(served)
      /\ \A k \in 1..4 : after.values[k] = IF k \in served THEN UpperOf(j) ELSE walk.values[k]
  BY <1>3 DEF Visit
<1> HIDE DEF served, cumulative, after, c
<1>8. ASSUME NEW k \in 1..4, k < m
      PROVE  \E b \in 0..((j + 1) - 1) :
               after.values[k] = UpperOf(b) /\ ReachedIn(hist, ranks[k], b)
  <2>1. CASE k \in served
    <3>1. after.values[k] = UpperOf(j)
      BY <1>7, <2>1
    <3>2. ~(k < walk.next)
      BY <1>2, <1>3, <1>5, <2>1
    <3>3. ReachedIn(hist, ranks[k], j)
      BY <1>1, <1>2, <1>3, <1>8, <3>2 DEF ReachedIn, c
    <3>4. j \in 0..((j + 1) - 1)
      BY <1>1
    <3> QED
      BY <3>1, <3>3, <3>4
  <2>2. CASE k \notin served
    <3>1. k < walk.next
      BY <1>2, <1>3, <1>5, <1>8, <2>2
    <3>2. PICK b \in 0..(j - 1) :
            walk.values[k] = UpperOf(b) /\ ReachedIn(hist, ranks[k], b)
      BY <3>1 DEF ServedSoFar
    <3>3. b \in 0..((j + 1) - 1)
      BY <1>1
    <3> QED
      BY <1>7, <2>2, <3>2, <3>3
  <2> QED
    BY <2>1, <2>2
<1>9. /\ after.cumulative = Counted(hist)[j + 1] /\ after.next = m
  BY <1>1, <1>6, <1>7 DEF c
<1>10. \A k \in 1..4 : k < m <=> ranks[k] <= Counted(hist)[j + 1]
  BY <1>2 DEF c
<1>11. ServedSoFar(after, hist, ranks, j + 1)
  BY <1>2, <1>8, <1>9, <1>10 DEF ServedSoFar
<1> QED
  BY <1>11 DEF after

IsWalk(g, hist, ranks, begun, q) ==
  g = [s \in SUBSET DOMAIN q |->
         IF s = {} THEN begun ELSE Visit(hist, ranks, g[s \ {Max(s)}], q[Max(s)])]

Begun == [cumulative |-> 0, next |-> 1, values |-> [k \in 1..4 |-> MaxLatency]]

WalkOrder == [i \in 1..Buckets |-> i - 1]

LEMMA WalkIs ==
  ASSUME NEW hist, NEW ranks, DOMAIN ranks = 1..4
  PROVE  Walk(hist, ranks)
           = (CHOOSE g : IsWalk(g, hist, ranks, Begun, WalkOrder))[DOMAIN WalkOrder]
BY DEF Walk, Begun, WalkOrder, IsWalk, FoldLeft, MapThenFoldSet

\* The walk visits one bucket after the other.
Visits(g, hist, ranks) ==
  /\ g[0] = Begun
  /\ \A k \in 1..Buckets : g[k - 1] \in Walks /\ g[k] = Visit(hist, ranks, g[k - 1], k - 1)

LEMMA WalkVisits ==
  ASSUME NEW hist \in [AllBuckets -> Nat], NEW ranks \in [1..4 -> Nat]
  PROVE  \E g : /\ Visits(g, hist, ranks)
                /\ Walk(hist, ranks) = g[Buckets]
<1> DEFINE n == Buckets
           W == CHOOSE g : IsWalk(g, hist, ranks, Begun, WalkOrder)
           step == [z \in (1..n) \X Walks |-> Visit(hist, ranks, z[2], z[1] - 1)]
<1>1. n \in Nat /\ DOMAIN WalkOrder = 1..n /\ \A k \in 1..n : WalkOrder[k] = k - 1
  BY BucketsTyped DEF WalkOrder
<1>2. Begun \in Walks
  BY SubTyped DEF Begun, Walks
<1>3. \A k \in 1..n, w \in Walks : step[<<k, w>>] = Visit(hist, ranks, w, k - 1)
  OBVIOUS
<1>4. step \in [(1..n) \X Walks -> Walks]
  <2>1. \A k \in 1..n, w \in Walks : Visit(hist, ranks, w, k - 1) \in Walks
    <3> SUFFICES ASSUME NEW k \in 1..n, NEW w \in Walks
                 PROVE  Visit(hist, ranks, w, k - 1) \in Walks
      OBVIOUS
    <3>1. k - 1 \in AllBuckets
      BY BucketsTyped
    <3> QED
      BY <3>1, VisitTyped
  <2> QED
    BY <2>1
<1> HIDE DEF step
<1>5. PICK h \in [SUBSET (1..n) -> Walks] : Unfolds(h, n, Walks, Begun, step)
  BY <1>1, <1>2, <1>4, FoldExists
<1>6. \A s \in SUBSET (1..n) : s # {} => Max(s) \in s /\ s \ {Max(s)} \in SUBSET (1..n)
  BY <1>1, MaxIs
<1>7. IsWalk(h, hist, ranks, Begun, WalkOrder)
  <2> DEFINE g == [s \in SUBSET DOMAIN WalkOrder |->
                     IF s = {} THEN Begun
                     ELSE Visit(hist, ranks, h[s \ {Max(s)}], WalkOrder[Max(s)])]
  <2>1. ASSUME NEW s \in SUBSET (1..n) PROVE h[s] = g[s]
    <3>1. CASE s = {}
      BY <1>1, <1>5, <3>1 DEF Unfolds
    <3>2. CASE s # {}
      <4>1. h[s \ {Max(s)}] \in Walks /\ Max(s) \in 1..n
        BY <1>6, <3>2
      <4>2. h[s] = step[<<Max(s), h[s \ {Max(s)}]>>]
        BY <1>5, <3>2, <4>1 DEF Unfolds
      <4>3. g[s] = Visit(hist, ranks, h[s \ {Max(s)}], Max(s) - 1)
        BY <1>1, <3>2, <4>1
      <4> QED
        BY <1>3, <4>1, <4>2, <4>3
    <3> QED
      BY <3>1, <3>2
  <2>2. h = g
    BY <1>1, <2>1
  <2> QED
    BY <2>2 DEF IsWalk
<1>8. IsWalk(W, hist, ranks, Begun, WalkOrder)
  BY <1>7
<1>9. Unfolds(W, n, Walks, Begun, step)
  <2>1. W = [s \in SUBSET DOMAIN WalkOrder |->
               IF s = {} THEN Begun
               ELSE Visit(hist, ranks, W[s \ {Max(s)}], WalkOrder[Max(s)])]
    BY <1>8 DEF IsWalk
  <2> HIDE DEF W
  <2>2. W[{}] = Begun
    BY <2>1
  <2>3. ASSUME NEW s \in SUBSET (1..n), s # {}, W[s \ {Max(s)}] \in Walks
        PROVE  W[s] = step[<<Max(s), W[s \ {Max(s)}]>>]
    <3>1. Max(s) \in 1..n
      BY <1>6, <2>3
    <3>2. W[s] = Visit(hist, ranks, W[s \ {Max(s)}], Max(s) - 1)
      BY <1>1, <2>1, <2>3, <3>1
    <3> QED
      BY <1>3, <2>3, <3>1, <3>2
  <2> QED
    BY <2>2, <2>3 DEF Unfolds
<1>10. Walk(hist, ranks) = W[1..n]
  BY <1>1, WalkIs
<1> HIDE DEF W
<1>11. Folded(W, n, Walks, Begun, step)
  BY <1>1, <1>2, <1>4, <1>9, FoldUnfolds
<1> DEFINE g == [k \in 0..n |-> W[1..k]]
<1>12. g[0] = Begun /\ g[Buckets] = W[1..n]
  BY <1>1, <1>11 DEF Folded
<1>13. ASSUME NEW k \in 1..n
       PROVE  g[k - 1] \in Walks /\ g[k] = Visit(hist, ranks, g[k - 1], k - 1)
  <2>1. k \in 0..n /\ k - 1 \in 0..n
    BY <1>1
  <2>2. g[k] = W[1..k] /\ g[k - 1] = W[1..(k - 1)]
    BY <2>1
  <2>3. W[1..(k - 1)] \in Walks /\ W[1..k] = step[<<k, W[1..(k - 1)]>>]
    BY <1>11 DEF Folded
  <2> HIDE DEF g
  <2> QED
    BY <1>3, <2>2, <2>3
<1> HIDE DEF g
<1>14. Visits(g, hist, ranks)
  BY <1>12, <1>13 DEF Visits
<1> QED
  BY <1>10, <1>12, <1>14

\* All percentiles are served in the end.
LEMMA WalkServes ==
  ASSUME NEW hist \in [AllBuckets -> Nat], NEW ranks, RanksOK(ranks),
         NEW g, Visits(g, hist, ranks)
  PROVE  ServedSoFar(g[Buckets], hist, ranks, Buckets)
<1> DEFINE S == {j \in 0..Buckets : ServedSoFar(g[j], hist, ranks, j)}
<1>1. 0 \in S
  <2>1. Counted(hist)[0] = 0 /\ g[0] = Begun
    BY CountedSteps DEF Visits
  <2>2. \A k \in 1..4 : ranks[k] \in Nat /\ ranks[k] > 0
    BY DEF RanksOK
  <2>3. \A k \in 1..4 : ~(k < 1) /\ ~(ranks[k] <= 0)
    BY <2>2
  <2>4. Begun.cumulative = 0 /\ Begun.next = 1
    BY DEF Begun
  <2>5. ServedSoFar(g[0], hist, ranks, 0)
    BY <2>1, <2>3, <2>4 DEF ServedSoFar
  <2> QED
    BY <2>5, BucketsTyped
<1>2. ASSUME NEW j \in 1..Buckets, j - 1 \in S PROVE j \in S
  <2>1. j - 1 \in 0..(Buckets - 1) /\ (j - 1) + 1 = j /\ j \in 0..Buckets
    BY BucketsTyped
  <2>2. g[j - 1] \in Walks /\ g[j] = Visit(hist, ranks, g[j - 1], j - 1)
    BY DEF Visits
  <2>3. ServedSoFar(g[j - 1], hist, ranks, j - 1)
    BY <1>2
  <2>4. ServedSoFar(Visit(hist, ranks, g[j - 1], j - 1), hist, ranks, (j - 1) + 1)
    BY <2>1, <2>2, <2>3, VisitServes
  <2> QED
    BY <2>1, <2>2, <2>4
<1>3. \A j \in 0..Buckets : j \in S
  <2> HIDE DEF S
  <2> QED
    BY <1>1, <1>2, BucketsTyped, Upward
<1> QED
  BY <1>3, BucketsTyped

\* The samples up to a bound.
UpToBound(hist, bound) ==
  [b \in AllBuckets |-> IF UpperOf(b) <= bound THEN hist[b] ELSE 0]

\* The samples in the buckets up to b are those up to the bound of b.
LEMMA UpToReaches ==
  ASSUME NEW hist \in [AllBuckets -> Nat], NEW b \in AllBuckets
  PROVE  Samples(UpToBound(hist, UpperOf(b))) >= Counted(hist)[b + 1]
<1> DEFINE f == UpToBound(hist, UpperOf(b))
<1>1. f \in [AllBuckets -> Nat]
  BY DEF UpToBound
<1>2. b + 1 \in 0..Buckets /\ Buckets \in 0..Buckets /\ b + 1 <= Buckets
  BY BucketsTyped
<1>3. ASSUME NEW x \in 0..((b + 1) - 1) PROVE hist[x] <= f[x]
  <2>1. x \in AllBuckets /\ x <= b
    BY BucketsTyped
  <2>2. UpperOf(x) <= UpperOf(b)
    BY <2>1, UpperGrows
  <2>3. f[x] = hist[x] /\ hist[x] \in Nat
    BY <2>1, <2>2 DEF UpToBound
  <2> QED
    BY <2>3
<1> HIDE DEF f
<1>4. Counted(hist)[b + 1] <= Counted(f)[b + 1]
  BY <1>1, <1>2, <1>3, CountedLess
<1>5. Counted(f)[b + 1] <= Counted(f)[Buckets]
  BY <1>1, <1>2, CountedGrows
<1>6. /\ Counted(hist)[b + 1] \in Nat /\ Counted(f)[b + 1] \in Nat
      /\ Counted(f)[Buckets] \in Nat
  BY <1>1, <1>2, CountedSteps
<1>7. Samples(f) = Counted(f)[Buckets]
  BY SamplesIs
<1>8. Samples(f) >= Counted(hist)[b + 1]
  BY <1>4, <1>5, <1>6, <1>7
<1> QED
  BY <1>8 DEF f

\* Below the bound of b are at most the samples in the buckets before b.
LEMMA UpToFallsShort ==
  ASSUME NEW hist \in [AllBuckets -> Nat], NEW b \in AllBuckets, NEW bound \in Nat,
         bound < UpperOf(b)
  PROVE  /\ Samples(UpToBound(hist, bound)) \in Nat
         /\ Samples(UpToBound(hist, bound)) <= Counted(hist)[b]
<1> DEFINE f == UpToBound(hist, bound)
<1>1. f \in [AllBuckets -> Nat]
  BY DEF UpToBound
<1>2. b \in 0..Buckets /\ Buckets \in 0..Buckets
  BY BucketsTyped
<1>3. ASSUME NEW x \in 0..(b - 1) PROVE f[x] <= hist[x]
  <2>1. x \in AllBuckets
    BY BucketsTyped
  <2>2. hist[x] \in Nat
    BY <2>1
  <2> QED
    BY <2>1, <2>2 DEF UpToBound
<1>4. ASSUME NEW x \in b..(Buckets - 1) PROVE f[x] = 0
  <2>1. x \in AllBuckets /\ b <= x
    BY BucketsTyped
  <2>2. UpperOf(b) \in Nat /\ UpperOf(x) \in Nat /\ UpperOf(b) <= UpperOf(x)
    BY <2>1, UpperGrows
  <2>3. ~(UpperOf(x) <= bound)
    BY <2>2
  <2> QED
    BY <2>1, <2>3 DEF UpToBound
<1> HIDE DEF f
<1>5. Counted(f)[b] <= Counted(hist)[b]
  BY <1>1, <1>2, <1>3, CountedLess
<1>6. Counted(f)[Buckets] = Counted(f)[b]
  BY <1>1, <1>2, <1>4, CountedEnds
<1>7. Samples(f) = Counted(f)[Buckets]
  BY SamplesIs
<1>8. Counted(f)[b] \in Nat
  BY <1>1, <1>2, CountedSteps
<1>9. Samples(f) \in Nat /\ Samples(f) <= Counted(hist)[b]
  BY <1>5, <1>6, <1>7, <1>8
<1> QED
  BY <1>9 DEF f

LEMMA PercentilesAreRight ==
  ASSUME NEW hist \in [AllBuckets -> Nat]
  PROVE  PercentilesRightFor(hist)
<1> DEFINE total == Samples(hist)
           ranks == Ranks(total)
           values == Percentiles(hist)
           Suffices(bound, permille) ==
             1000 * Samples(UpToBound(hist, bound)) >= permille * total
<1>1. total = Counted(hist)[Buckets] /\ total \in Nat
  <2>1. Buckets \in 0..Buckets
    BY BucketsTyped
  <2> QED
    BY <2>1, SamplesIs, CountedSteps
<1>2. CASE total = 0
  <2>1. \A k \in DOMAIN Permilles : values[k] = None
    BY <1>2 DEF Percentiles
  <2> QED
    BY <1>2, <2>1 DEF PercentilesRightFor
<1>3. CASE total # 0
  <2> HIDE DEF total
  <2>1. total > 0
    BY <1>1, <1>3
  <2>2. /\ DOMAIN ranks = 1..4
        /\ \A k \in 1..4 : ranks[k] = Rank(total, Permilles[k]) /\ ranks[k] \in 1..total
        /\ ranks[1] <= ranks[2] /\ ranks[2] <= ranks[3] /\ ranks[3] <= ranks[4]
    BY <1>1, <2>1, RanksAscend
  <2>3. ranks = [k \in 1..4 |-> ranks[k]]
    BY <2>2 DEF Ranks
  <2> HIDE DEF ranks
  <2>4. RanksOK(ranks)
    BY <1>1, <2>2, <2>3 DEF RanksOK
  <2>5. PICK g : Visits(g, hist, ranks) /\ Walk(hist, ranks) = g[Buckets]
    <3>1. ranks \in [1..4 -> Nat]
      BY <2>4 DEF RanksOK
    <3> QED
      BY <3>1, WalkVisits
  <2>6. ServedSoFar(Walk(hist, ranks), hist, ranks, Buckets)
    BY <2>4, <2>5, WalkServes
  <2>7. values = Walk(hist, ranks).values
    BY <1>3 DEF Percentiles, total, ranks
  <2> HIDE DEF values
  <2>8. ASSUME NEW k \in 1..4
        PROVE  /\ \E b \in AllBuckets : values[k] = UpperOf(b)
               /\ Suffices(values[k], Permilles[k])
               /\ \A b \in AllBuckets :
                    UpperOf(b) < values[k] => ~Suffices(UpperOf(b), Permilles[k])
    <3>1. k < Walk(hist, ranks).next
      <4>1. ranks[k] <= Counted(hist)[Buckets]
        BY <1>1, <2>2
      <4> QED
        BY <2>6, <4>1 DEF ServedSoFar
    <3>2. PICK b \in 0..(Buckets - 1) :
            values[k] = UpperOf(b) /\ ReachedIn(hist, ranks[k], b)
      BY <2>6, <2>7, <3>1 DEF ServedSoFar
    <3>3. b \in AllBuckets /\ b \in 0..Buckets /\ b + 1 \in 0..Buckets
      BY BucketsTyped
    <3>4. /\ Counted(hist)[b] \in Nat /\ Counted(hist)[b + 1] \in Nat
          /\ Counted(hist)[b] < ranks[k] /\ ranks[k] <= Counted(hist)[b + 1]
      BY <3>2, <3>3, CountedSteps DEF ReachedIn
    <3> DEFINE p == Permilles[k]
    <3>5. p \in Nat /\ p > 0 /\ p <= 1000
      BY PermillesAre
    <3> HIDE DEF p
    <3>6. LeastEnough(Rank(total, p), total, p)
      BY <1>1, <2>1, <3>5, RankIs
    <3>7. ranks[k] \in Nat /\ \A m \in Nat : m >= ranks[k] <=> 1000 * m >= p * total
      BY <2>2, <3>6 DEF LeastEnough, p
    <3>8. Suffices(values[k], p)
      <4>1. Samples(UpToBound(hist, UpperOf(b))) >= Counted(hist)[b + 1]
        BY <3>3, UpToReaches
      <4>2. Samples(UpToBound(hist, UpperOf(b))) \in Nat
        <5>1. UpToBound(hist, UpperOf(b)) \in [AllBuckets -> Nat] /\ Buckets \in 0..Buckets
          BY BucketsTyped DEF UpToBound
        <5> QED
          BY <5>1, SamplesIs, CountedSteps
      <4>3. Samples(UpToBound(hist, UpperOf(b))) >= ranks[k]
        BY <3>4, <3>7, <4>1, <4>2
      <4> QED
        BY <3>2, <3>7, <4>2, <4>3
    <3>9. ASSUME NEW a \in AllBuckets, UpperOf(a) < values[k]
          PROVE  ~Suffices(UpperOf(a), p)
      <4>1. UpperOf(a) \in Nat
        BY UpperTyped
      <4>2. /\ Samples(UpToBound(hist, UpperOf(a))) \in Nat
            /\ Samples(UpToBound(hist, UpperOf(a))) <= Counted(hist)[b]
        BY <3>2, <3>3, <3>9, <4>1, UpToFallsShort
      <4>3. ~(Samples(UpToBound(hist, UpperOf(a))) >= ranks[k])
        BY <3>4, <3>7, <4>2
      <4> QED
        BY <3>7, <4>2, <4>3
    <3> QED
      BY <3>2, <3>3, <3>8, <3>9 DEF p
  <2>9. DOMAIN Permilles = 1..4
    BY PermillesAre
  <2> QED
    BY <1>3, <2>8, <2>9 DEF PercentilesRightFor, UpToBound, total, values
<1> QED
  BY <1>2, <1>3

-----------------------------------------------------------------------------
(* The theorems.                                                           *)

InputTyped ==
  /\ input.of = "latency" => input.ns \in Latencies
  /\ input.of = "histogram" => input.hist \in Histograms
  /\ input.of = "requests" => input.one \in Requests /\ input.other \in Requests
  /\ input.of = "header" => input.ranges \in Headers

LEMMA InputAlways == Spec => []InputTyped
<1>1. Init => InputTyped
  BY DEF Init, InputTyped
<1>2. InputTyped /\ [Take]_input => InputTyped'
  BY DEF InputTyped, Take
<1> QED
  BY <1>1, <1>2, PTL DEF Spec

\* Whatever the latency and the size of the histogram: a latency is in the
\* bucket whose bounds enclose it, the buckets follow on each other, and a bound
\* is off by no more than the share of a sub-bucket, up to the clamp.
THEOREM BucketsAlwaysRight == Spec => []BucketsRight
<1>1. InputTyped => BucketsRight
  BY BucketIsRight, InputsAssumption DEF InputTyped, BucketsRight
<1> QED
  BY <1>1, InputAlways, PTL

\* Whatever the histogram: the one walk over the buckets gives each percentile
\* the least bound that its rank of samples does not exceed.
THEOREM PercentilesAlwaysRight == Spec => []PercentilesRight
<1>1. InputTyped => PercentilesRight
  BY PercentilesAreRight, InputsAssumption DEF InputTyped, PercentilesRight
<1> QED
  BY <1>1, InputAlways, PTL

\* Whatever the requests and the bounds, two requests that share an entry of a
\* thread's cache are on the same row, and no row has a name longer than
\* MAX_PATH_CHARS.
THEOREM KeysAlwaysSound == Spec => []KeysSound
<1>1. InputTyped => KeysSound
  <2> SUFFICES ASSUME InputTyped, input.of = "requests"
               PROVE  KeysSoundFor(input.one, input.other)
    BY DEF KeysSound
  <2>1. input.one.path \in Seq(Segments)
    BY InputsAssumption DEF InputTyped
  <2> QED
    BY <2>1, KeysAreSound
<1> QED
  BY <1>1, InputAlways, PTL

\* For headers of any length: JSON is answered where the header accepts it and
\* wants it more, and the order of its ranges has no part in it.
THEOREM NegotiationAlwaysRight == Spec => []NegotiationRight
<1>1. InputTyped => NegotiationRight
  BY AnswerFollowsHeader, InputsAssumption DEF InputTyped, NegotiationRight
<1> QED
  BY <1>1, InputAlways, PTL
=============================================================================
