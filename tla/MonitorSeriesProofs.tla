------------------------- MODULE MonitorSeriesProofs -------------------------
(* Proofs about the series a range query answers, for steps and ranges of  *)
(* every length.                                                           *)
EXTENDS MonitorSeries, WellFoundedInduction, TLAPS

(* A set of numbers has a least element.                                   *)
LEMMA LeastSample ==
    ASSUME NEW T, T \subseteq Nat, T # {}
    PROVE  Min(T) \in T /\ \A t \in T : Min(T) <= t
<1> DEFINE R == {ss \in Nat \X Nat : ss[1] < ss[2]}
<1>1. IsWellFoundedOn(R, Nat)
  BY NatLessThanWellFounded DEF OpToRel
<1>. HIDE DEF R
<1>2. PICK x \in T : \A y \in T : <<y, x>> \notin R
  BY <1>1, WFMin
<1>3. ASSUME NEW y \in T, y < x PROVE FALSE
  <2>1. <<y, x>> \in R
    BY <1>3 DEF R
  <2>. QED
    BY <2>1, <1>2
<1>4. \A y \in T : x <= y
  BY <1>3
<1>. QED
  BY <1>4 DEF Min

(* Division with a remainder.                                              *)
LEMMA Quotient ==
    ASSUME NEW a \in Int, NEW s \in Nat, s > 0
    PROVE  /\ a \div s \in Int /\ a % s \in Int
           /\ a = (a \div s) * s + (a % s)
           /\ a % s >= 0 /\ a % s < s
<1>1. a \div s \in Int /\ a % s \in Int
  OBVIOUS
<1>2. a = (a \div s) * s + (a % s)
  OBVIOUS
<1>3. a % s >= 0 /\ a % s < s
  OBVIOUS
<1>. QED
  BY <1>1, <1>2, <1>3

(* The remainder is determined by its range.                               *)
LEMMA Remainder ==
    ASSUME NEW q \in Int, NEW s \in Nat, s > 0, NEW r \in Int, r >= 0, r < s
    PROVE  (q * s + r) % s = r
OBVIOUS

(* A multiple is a number of times the divisor.                            *)
LEMMA Multiple ==
    ASSUME NEW a \in Int, NEW s \in Nat, s > 0, a % s = 0
    PROVE  \E k \in Int : a = k * s
<1>1. PICK k \in Int : a = k * s + (a % s)
  BY Quotient
<1>2. k * s \in Int
  OBVIOUS
<1>. QED
  BY <1>1, <1>2

(* Instants a number of steps apart: from each other, and at least one if  *)
(* they differ.                                                            *)
LEMMA StepsApart ==
    ASSUME NEW a \in Int, NEW b \in Int, NEW c \in Int, NEW s \in Nat, s > 0,
           (a - c) % s = 0, (b - c) % s = 0
    PROVE  /\ (a - b) % s = 0
           /\ a < b => a + s <= b
<1>1. a - c \in Int /\ b - c \in Int
  OBVIOUS
<1>2. PICK k \in Int : a - c = k * s
  BY <1>1, Multiple
<1>3. PICK l \in Int : b - c = l * s
  BY <1>1, Multiple
<1>4. a - b = (k - l) * s + 0
  BY <1>2, <1>3
<1>5. (a - b) % s = 0
  <2>1. k - l \in Int /\ 0 \in Int /\ 0 >= 0 /\ 0 < s
    OBVIOUS
  <2>2. ((k - l) * s + 0) % s = 0
    BY <2>1, Remainder
  <2>. QED
    BY <2>2, <1>4
<1>6. ASSUME a < b PROVE a + s <= b
  <2>1. ASSUME NEW d \in Int, d >= 0 PROVE d * s >= 0
    BY <2>1
  <2>2. k < l
    BY <2>1, <1>4, <1>6
  <2>3. (l - k - 1) * s >= 0
    BY <2>1, <2>2
  <2>4. (l - k - 1) * s = b - a - s
    BY <1>2, <1>3
  <2>. QED
    BY <2>3, <2>4
<1>. QED
  BY <1>5, <1>6

(* Steps add up.                                                           *)
LEMMA StepsOn ==
    ASSUME NEW a \in Int, NEW b \in Int, NEW c \in Int, NEW s \in Nat, s > 0,
           (a - b) % s = 0, (b - c) % s = 0
    PROVE  (a - c) % s = 0
<1>1. a - b \in Int /\ b - c \in Int
  OBVIOUS
<1>2. PICK k \in Int : a - b = k * s
  BY <1>1, Multiple
<1>3. PICK l \in Int : b - c = l * s
  BY <1>1, Multiple
<1>4. a - c = (k + l) * s + 0
  BY <1>2, <1>3
<1>5. k + l \in Int /\ 0 \in Int /\ 0 >= 0 /\ 0 < s
  OBVIOUS
<1>6. ((k + l) * s + 0) % s = 0
  BY <1>5, Remainder
<1>. QED
  BY <1>4, <1>6

(* Where the series begins, the data source's samples being a number of    *)
(* steps from its first instant, which is less than a step before start.   *)
LEMMA Beginning ==
    ASSUME NEW start \in Nat, NEW step \in Nat, step > 0,
           NEW first \in Nat, first <= start, start < first + step,
           NEW values, values \subseteq Nat, values # {},
           \A t \in values : t >= first /\ (t - first) % step = 0,
           NEW min, min = Min(values),
           NEW from, from = SamplePointStart(start, step, values)
    PROVE  /\ min \in values /\ \A t \in values : min <= t
           /\ from \in Int /\ first <= from /\ from <= min
           /\ (from - first) % step = 0
           /\ from < start + step \/ (from = min /\ min = start + step)
<1>1. min \in values /\ \A t \in values : min <= t
  BY LeastSample
<1>2. min \in Nat /\ min >= first /\ (min - first) % step = 0
  BY <1>1
<1>3. CASE min = start
  <2>1. from = start
    BY <1>3 DEF SamplePointStart
  <2>. QED
    BY <2>1, <1>1, <1>2, <1>3
<1>4. CASE min # start /\ min - start \in -step .. step
  <2>1. from = min
    BY <1>4 DEF SamplePointStart
  <2>2. min <= start + step
    BY <1>2, <1>4
  <2>. QED
    BY <2>1, <2>2, <1>1, <1>2
<1>5. CASE min # start /\ min - start \notin -step .. step
  <2> DEFINE q == (min - start) \div step
             r == (min - start) % step
  <2>1. from = min - q * step
    BY <1>5 DEF SamplePointStart
  <2>2. min > start + step
    BY <1>2, <1>5
  <2>3. min - start \in Int
    BY <1>2
  <2>4. q \in Int /\ r \in Int /\ min - start = q * step + r /\ r >= 0 /\ r < step
    BY <2>3, Quotient
  <2>. HIDE DEF q, r
  <2>5. q * step \in Int
    BY <2>4
  <2>6. from \in Int /\ from = start + r /\ from >= start /\ from < start + step
    BY <2>1, <2>4, <2>5, <1>2
  <2>7. (from - first) % step = 0
    <3>1. PICK k \in Int : min - first = k * step
      <4>1. min - first \in Int
        BY <1>2
      <4>. QED
        BY <4>1, <1>2, Multiple
    <3>2. from - first = (k - q) * step + 0
      BY <2>1, <2>4, <2>5, <3>1, <1>2
    <3>3. k - q \in Int /\ 0 \in Int /\ 0 >= 0 /\ 0 < step
      BY <2>4
    <3>4. ((k - q) * step + 0) % step = 0
      BY <3>3, Remainder
    <3>. QED
      BY <3>2, <3>4
  <2>8. from <= min
    BY <2>2, <2>6, <1>2
  <2>. QED
    BY <2>2, <2>6, <2>7, <2>8, <1>1, <1>2
<1>. QED
  BY <1>3, <1>4, <1>5

(* A series loses no sample of the range, has no instant at which the data *)
(* source has none, and leaves none out but the start, when the first      *)
(* sample is exactly one step later.                                       *)
THEOREM NoHoles == SeriesSpec => []SeriesExact
<1>1. Unasked => SeriesExact
  BY DEF Unasked, SeriesExact
<1>2. ASSUME SeriesExact, [QueryRange]_<<query, samples, series>> PROVE SeriesExact'
  <2>1. CASE UNCHANGED <<query, samples, series>>
    BY <1>2, <2>1 DEF SeriesExact, Evaluated
  <2>2. CASE QueryRange
    <3>1. PICK q \in Queries : query' = q
      BY <2>2 DEF QueryRange
    <3>2. PICK first \in Nat, step \in Nat :
              /\ first = Start - q.early /\ first <= Start /\ Start < first + step
              /\ step = q.step /\ step > 0
      <4>1. /\ q.step \in 1 .. MaxStep /\ q.early \in 0 .. MaxStep - 1 /\ q.early < q.step
        BY DEF Queries
      <4>2. Start - q.early \in Nat /\ q.step \in Nat
        BY <4>1, SeriesAssumption DEF Start
      <4>. QED
        BY <4>1, <4>2, SeriesAssumption DEF Start
    <3>3. /\ Evaluated(q) = {t \in first .. (q.end + q.early) : (t - first) % step = 0}
          /\ Start \in Nat /\ q.end \in Nat /\ q.early \in Nat
      <4>1. q.end \in Start .. Start + MaxStep * MaxSteps /\ q.early \in 0 .. MaxStep - 1
        BY DEF Queries
      <4>2. MaxStep * MaxSteps \in Nat
        BY SeriesAssumption
      <4>. QED
        BY <4>1, <4>2, <3>2, SeriesAssumption DEF Evaluated, Start
    <3>4. SUFFICES ASSUME samples' # {}
                   PROVE  /\ {t \in samples' : t <= q.end} \subseteq series'
                          /\ series' \subseteq Evaluated(q)
                          /\ {t \in Evaluated(q) : t \in Start .. q.end} \ series' \subseteq
                               IF Min(samples') = Start + step THEN {Start} ELSE {}
      BY <3>1, <3>2 DEF SeriesExact, Evaluated, Start
    <3>5. samples' \subseteq Evaluated(q)
      BY <2>2, <3>1 DEF QueryRange
    <3>6. PICK from : from = SamplePointStart(Start, step, samples')
      OBVIOUS
    <3>7. series' = {t \in from .. q.end : (t - from) % step = 0}
      BY <2>2, <3>1, <3>2, <3>6 DEF QueryRange, FillLessSamplePoint
    <3>8. \A t \in samples' : t \in Nat /\ t >= first /\ (t - first) % step = 0
      BY <3>3, <3>5
    <3>9. PICK min : min = Min(samples')
      OBVIOUS
    <3>10. /\ min \in samples' /\ \A t \in samples' : min <= t
           /\ from \in Int /\ first <= from /\ from <= min
           /\ (from - first) % step = 0
           /\ from < Start + step \/ (from = min /\ min = Start + step)
      <4>1. samples' \subseteq Nat
        BY <3>8
      <4>2. \A t \in samples' : t >= first /\ (t - first) % step = 0
        BY <3>8
      <4>3. Start \in Nat /\ step > 0 /\ first <= Start /\ Start < first + step
        BY <3>2, <3>3
      <4>4. min \in samples' /\ \A t \in samples' : min <= t
        BY <4>1, <3>4, <3>9, LeastSample
      <4>5. from \in Int /\ first <= from /\ from <= min
        BY <4>1, <4>2, <4>3, <3>4, <3>6, <3>9, Beginning, ZenonT(30)
      <4>6. (from - first) % step = 0
        BY <4>1, <4>2, <4>3, <3>4, <3>6, <3>9, Beginning, ZenonT(30)
      <4>7. from < Start + step \/ (from = min /\ min = Start + step)
        BY <4>1, <4>2, <4>3, <3>4, <3>6, <3>9, Beginning, ZenonT(30)
      <4>. QED
        BY <4>4, <4>5, <4>6, <4>7
    <3>11. ASSUME NEW t \in samples', t <= q.end PROVE t \in series'
      <4>1. t \in Nat /\ (t - first) % step = 0 /\ from <= t
        BY <3>2, <3>8, <3>10, <3>11
      <4>2. (t - from) % step = 0
        <5>1. t \in Int /\ from \in Int /\ first \in Int
          BY <4>1, <3>10
        <5>. QED
          BY <5>1, <4>1, <3>2, <3>10, StepsApart, Zenon
      <4>. QED
        BY <4>1, <4>2, <3>3, <3>7, <3>10, <3>11
    <3>12. ASSUME NEW t \in series' PROVE t \in Evaluated(q)
      <4>1. t \in Int /\ from <= t /\ t <= q.end /\ (t - from) % step = 0
        BY <3>3, <3>7, <3>10
      <4>2. (t - first) % step = 0
        <5>1. t \in Int /\ from \in Int /\ first \in Int
          BY <4>1, <3>10
        <5>. QED
          BY <5>1, <4>1, <3>2, <3>10, StepsOn, Zenon
      <4>. QED
        BY <4>1, <4>2, <3>3, <3>10
    <3>13. ASSUME NEW t \in Evaluated(q), t \in Start .. q.end, t \notin series'
           PROVE  t = Start /\ min = Start + step
      <4>1. t \in Int /\ (t - first) % step = 0 /\ Start <= t /\ t <= q.end
        BY <3>2, <3>3, <3>13
      <4>2. (t - from) % step = 0 /\ (t < from => t + step <= from)
        <5>1. t \in Int /\ from \in Int /\ first \in Int
          BY <4>1, <3>10
        <5>. QED
          BY <5>1, <4>1, <3>2, <3>10, StepsApart, Zenon
      <4>3. t < from
        BY <4>1, <4>2, <3>3, <3>7, <3>10, <3>13
      <4>. QED
        BY <4>1, <4>2, <4>3, <3>2, <3>3, <3>10
    <3>. QED
      BY <3>9, <3>11, <3>12, <3>13
  <2>. QED
    BY <1>2, <2>1, <2>2
<1>. QED
  BY <1>1, <1>2, PTL DEF SeriesSpec

=============================================================================
