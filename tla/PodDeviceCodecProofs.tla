------------------------ MODULE PodDeviceCodecProofs ------------------------
(* Proofs about the decoding of device annotations, for every set of       *)
(* devices and every bound on containers, segments and items.              *)
EXTENDS PodDeviceCodec, FiniteSetTheorems, SequenceTheorems, WellFoundedInduction, TLAPS

(* A set of numbers has a least element.                                   *)
LEMMA Least ==
    ASSUME NEW T, T \subseteq Nat, T # {}
    PROVE  \E x \in T : \A y \in T : x <= y
<1> DEFINE R == {ss \in Nat \X Nat : ss[1] < ss[2]}
<1>1. IsWellFoundedOn(R, Nat)
  BY NatLessThanWellFounded DEF OpToRel
<1>. HIDE DEF R
<1>2. PICK x \in T : \A y \in T : <<y, x>> \notin R
  BY <1>1, WFMin
<1>3. ASSUME NEW y \in T, y < x PROVE FALSE
  <2>1. <<y, x>> \in R
    BY <1>3 DEF R
  <2>. QED
    BY <2>1, <1>2
<1>. QED
  BY <1>3

(* There is an n-th element for every n up to the number of elements: the  *)
(* first up to which there are n.                                          *)
LEMMA NthElement ==
    ASSUME NEW m \in Nat, NEW K, K \subseteq 1..m, NEW n \in 1..Cardinality(K)
    PROVE  Nth(n, K) \in K
<1> DEFINE UpTo(k) == {j \in K : j <= k}
           T == {k \in Nat : Cardinality(UpTo(k)) >= n}
<1>1. \A j \in K : j \in Nat /\ j >= 1 /\ j <= m
  OBVIOUS
<1>2. IsFiniteSet(K)
  <2>1. IsFiniteSet(1..m)
    BY FS_Interval
  <2>. QED
    BY <2>1, FS_Subset
<1>3. Cardinality(K) \in Nat /\ n \in Nat /\ n >= 1
  BY <1>2, FS_CardinalityType
<1>4. ASSUME NEW k PROVE IsFiniteSet(UpTo(k)) /\ Cardinality(UpTo(k)) \in Nat
  BY <1>2, FS_Subset, FS_CardinalityType
<1>5. UpTo(m) = K
  BY <1>1
<1>6. UpTo(0) = {}
  <2>1. ASSUME NEW j \in K, j <= 0 PROVE FALSE
    BY <2>1, <1>1
  <2>. QED
    BY <2>1, Zenon
<1>7. m \in T
  <2>1. Cardinality(K) >= n
    BY <1>3
  <2>. QED
    BY <2>1, <1>5
<1>8. PICK k \in T : \A l \in T : k <= l
  <2>1. T \subseteq Nat /\ T # {}
    BY <1>7
  <2>. HIDE DEF T
  <2>. QED
    BY <2>1, Least
<1>9. k \in Nat /\ Cardinality(UpTo(k)) >= n
  OBVIOUS
<1>10. k # 0
  BY <1>3, <1>6, <1>9, FS_EmptySet
<1>11. k - 1 \in Nat
  BY <1>9, <1>10
<1>12. Cardinality(UpTo(k - 1)) < n
  <2>1. k - 1 \notin T
    <3>. HIDE DEF T
    <3>. QED
      BY <1>8, <1>9
  <2>. HIDE DEF UpTo
  <2>. QED
    BY <2>1, <1>3, <1>4, <1>11
<1>13. k \in K
  <2>1. SUFFICES ASSUME k \notin K PROVE FALSE
    OBVIOUS
  <2>2. ASSUME NEW j \in K PROVE j <= k <=> j <= k - 1
    BY <2>1, <1>1, <1>9
  <2>3. UpTo(k) = UpTo(k - 1)
    BY <2>2, Zenon
  <2>. QED
    BY <2>3, <1>3, <1>4, <1>9, <1>12
<1>14. Cardinality(UpTo(k)) = n
  <2>1. UpTo(k) = UpTo(k - 1) \cup {k}
    <3>1. ASSUME NEW j \in K PROVE j <= k <=> j <= k - 1 \/ j = k
      BY <1>1, <1>9
    <3>2. k <= k
      BY <1>9
    <3>. QED
      BY <3>1, <3>2, <1>13, Zenon
  <2>2. k \notin UpTo(k - 1)
    BY <1>9
  <2>. HIDE DEF UpTo
  <2>3. Cardinality(UpTo(k)) = Cardinality(UpTo(k - 1)) + 1
    BY <2>1, <2>2, <1>4, FS_AddElement
  <2>. QED
    BY <2>3, <1>3, <1>4, <1>9, <1>12
<1>. QED
  BY <1>13, <1>14 DEF Nth

(* What the devices of a segment are.                                      *)
LEMMA DevicesType ==
    /\ Devices(<<>>) = <<>>
    /\ \A s \in Segment : Devices(s) \in Seq(Device \cup {Blank})
<1>1. Devices(<<>>) = <<>>
  <2>1. Listed(<<>>) = {}
    BY DEF Listed
  <2>2. Cardinality({}) = 0
    BY FS_EmptySet
  <2>3. Devices(<<>>) = [n \in 1..0 |-> <<>>[Nth(n, {})].uuid]
    BY <2>1, <2>2 DEF Devices
  <2>. QED
    BY <2>3
<1>2. ASSUME NEW s \in Segment PROVE Devices(s) \in Seq(Device \cup {Blank})
  <2>1. PICK m \in 0..MaxItems : s \in [1..m -> Item]
    BY DEF Segment, BoundedSeq, SeqOf
  <2>2. m \in Nat
    BY CodecAssumption
  <2> DEFINE K == Listed(s)
             c == Cardinality(K)
  <2>3. K \subseteq 1..m
    BY <2>1 DEF Listed
  <2>4. c \in Nat
    <3>1. IsFiniteSet(1..m)
      BY <2>2, FS_Interval
    <3>2. IsFiniteSet(K)
      BY <3>1, <2>3, FS_Subset
    <3>. QED
      BY <3>2, FS_CardinalityType
  <2>5. \A n \in 1..c : Nth(n, K) \in 1..m
    BY <2>2, <2>3, NthElement
  <2>6. \A k \in 1..m : s[k].uuid \in Device \cup {Blank}
    BY <2>1 DEF Item
  <2>7. Devices(s) = [n \in 1..c |-> s[Nth(n, K)].uuid]
    BY DEF Devices
  <2>. HIDE DEF K, c
  <2>. QED
    BY <2>4, <2>5, <2>6, <2>7
<1>. QED
  BY <1>1, <1>2

-----------------------------------------------------------------------------
(* How far the loops are, step by step.                                    *)
LEMMA Typed == Spec => [](TypeOK /\ Progress)
<1> DEFINE Shown == Seq(Device \cup {Blank})
<1>1. Init => TypeOK /\ Progress
  <2>1. SUFFICES ASSUME Init PROVE TypeOK /\ Progress
    OBVIOUS
  <2>2. MaxCtrs \in Nat /\ MaxSegs \in Nat /\ MaxItems \in Nat /\ MaxFields \in Nat
    BY CodecAssumption
  <2>3. ctrCount \in 1..MaxCtrs /\ i = 1 /\ 1 \in 1..(MaxSegs + MaxCtrs + 1)
    BY <2>1, <2>2 DEF Init
  <2>4. /\ annotation \in Seq(Segment) /\ mluFields \in 0..MaxFields
        /\ vendor = "mlu" => Len(annotation) = 1
        /\ vendor # "mlu" => Len(annotation) <= MaxSegs
    <3>1. CASE vendor = "mlu"
      <4>1. <<>> \in [1..0 -> Item]
        OBVIOUS
      <4>2. <<>> \in Segment
        BY <4>1, <2>2 DEF Segment, BoundedSeq, SeqOf
      <4>. QED
        BY <3>1, <4>2, <2>1, <2>2 DEF Init
    <3>2. CASE vendor # "mlu"
      <4>1. PICK n \in 0..MaxSegs : annotation \in [1..n -> Segment]
        BY <3>2, <2>1 DEF Init, BoundedSeq, SeqOf
      <4>. QED
        BY <3>2, <4>1, <2>1, <2>2 DEF Init
    <3>. QED
      BY <3>1, <3>2
  <2>5. entries = <<>> /\ ctrs = <<>> /\ Len(<<>>) = 0 /\ <<>> \in Seq(Shown)
    BY <2>1 DEF Init
  <2>6. vendor \in Vendor /\ pc = "decode"
    BY <2>1 DEF Init
  <2>7. TypeOK
    BY <2>2, <2>3, <2>4, <2>5, <2>6 DEF TypeOK
  <2>8. Progress
    BY <2>2, <2>3, <2>4, <2>5, <2>6 DEF Progress
  <2>. QED
    BY <2>7, <2>8
<1>2. TypeOK /\ Progress /\ [Next]_vars => (TypeOK /\ Progress)'
  <2>1. SUFFICES ASSUME TypeOK, Progress, [Next]_vars PROVE TypeOK' /\ Progress'
    OBVIOUS
  <2>2. MaxCtrs \in Nat /\ MaxSegs \in Nat /\ ctrCount \in 1..MaxCtrs /\ ctrCount \in Nat
    BY <2>1, CodecAssumption DEF TypeOK
  <2>3. /\ i \in Nat /\ i >= 1
        /\ entries \in Seq(Shown) /\ ctrs \in Seq(Shown) /\ annotation \in Seq(Segment)
        /\ Len(entries) \in Nat /\ Len(ctrs) \in Nat /\ Len(annotation) \in Nat
    BY <2>1, <2>2 DEF TypeOK
  <2>4. <<>> \in Seq(Shown) /\ Len(<<>>) = 0
    OBVIOUS
  <2>5. CASE UNCHANGED vars
    BY <2>1, <2>5 DEF TypeOK, Progress, vars, input
  <2>6. ASSUME pc = "decode", UNCHANGED input, GiveUp PROVE TypeOK' /\ Progress'
    BY <2>1, <2>4, <2>6 DEF TypeOK, Progress, GiveUp, input
  <2>7. ASSUME UNCHANGED input, Crash PROVE TypeOK' /\ Progress'
    BY <2>1, <2>7 DEF TypeOK, Progress, Crash, input
  <2>8. CASE DecodeSegment
    <3>1. pc = "decode" /\ vendor # "mlu" /\ UNCHANGED input
      BY <2>8 DEF DecodeSegment
    <3>2. i \in 1..Len(annotation) /\ (vendor \in PerContainer => i <= ctrCount)
      BY <2>3, <2>8 DEF DecodeSegment, InLoop
    <3>3. CASE GiveUp
      BY <3>1, <3>3, <2>6
    <3>4. CASE Crash
      BY <3>1, <3>4, <2>7
    <3>5. CASE /\ entries' = IF Keeps(annotation[i])
                               THEN Append(entries, Devices(annotation[i])) ELSE entries
               /\ i' = i + 1
               /\ UNCHANGED <<pc, ctrs>>
      <4>1. Devices(annotation[i]) \in Shown
        BY <3>2, <2>3, DevicesType
      <4>2. entries' \in Seq(Shown) /\ Len(entries') <= Len(entries) + 1
        BY <4>1, <3>5, <2>3
      <4>3. i + 1 <= Len(annotation) + 1 /\ Len(annotation) <= MaxSegs
        BY <3>1, <3>2, <2>1, <2>3 DEF Progress
      <4>4. i + 1 \in 1..(MaxSegs + MaxCtrs + 1)
        BY <4>3, <2>2, <2>3
      <4>5. TypeOK'
        BY <3>1, <3>5, <4>2, <4>4, <2>1 DEF TypeOK, input
      <4>6. Len(entries') \in Nat /\ Len(entries) < i
        BY <4>2, <3>1, <2>1 DEF Progress
      <4>7. Progress'
        BY <3>1, <3>2, <3>5, <4>2, <4>3, <4>6, <2>1, <2>2, <2>3 DEF Progress, input
      <4>. QED
        BY <4>5, <4>7
    <3>. QED
      BY <2>8, <3>3, <3>4, <3>5 DEF DecodeSegment
  <2>9. CASE DecodeMLU
    <3>1. pc = "decode" /\ vendor = "mlu" /\ i = 1 /\ UNCHANGED input
      BY <2>9 DEF DecodeMLU
    <3>2. CASE GiveUp
      BY <3>1, <3>2, <2>6
    <3>3. CASE Crash
      BY <3>1, <3>3, <2>7
    <3>4. ASSUME NEW d \in Device, entries' = <<<<d>>>>, i' = i + 1, UNCHANGED <<pc, ctrs>>
          PROVE  TypeOK' /\ Progress'
      <4>1. <<<<d>>>> \in Seq(Shown) /\ Len(<<<<d>>>>) = 1
        OBVIOUS
      <4>2. 2 \in 1..(MaxSegs + MaxCtrs + 1) /\ i' = 2
        BY <3>1, <3>4, <2>2
      <4>3. TypeOK'
        BY <3>1, <3>4, <4>1, <4>2, <2>1 DEF TypeOK, input
      <4>4. vendor \notin PerContainer
        BY <3>1 DEF PerContainer
      <4>5. Progress'
        BY <3>1, <3>4, <4>1, <4>2, <4>4, <2>1 DEF Progress, input
      <4>. QED
        BY <4>3, <4>5
    <3>. QED
      BY <2>9, <3>2, <3>3, <3>4 DEF DecodeMLU
  <2>10. CASE EndDecode
    <3>1. /\ pc = "decode" /\ pc' \in {"done", "build"} /\ i' = 1
          /\ UNCHANGED input /\ UNCHANGED <<entries, ctrs>>
      BY <2>10 DEF EndDecode
    <3>2. 1 \in 1..(MaxSegs + MaxCtrs + 1)
      BY <2>2
    <3>3. TypeOK'
      BY <3>1, <3>2, <2>1 DEF TypeOK, input
    <3>4. ctrs = <<>>
      BY <3>1, <2>1 DEF Progress
    <3>5. Progress'
      BY <3>1, <3>4, <2>1, <2>2 DEF Progress, input
    <3>. QED
      BY <3>3, <3>5
  <2>11. CASE BuildContainer
    <3>1. pc = "build" /\ i <= ctrCount /\ UNCHANGED input
      BY <2>11 DEF BuildContainer, BuildsMore
    <3>2. CASE Crash
      BY <3>1, <3>2, <2>7
    <3>3. CASE i <= Len(entries)
      <4>1. /\ ctrs' = Append(ctrs, entries[i]) /\ i' = i + 1
            /\ UNCHANGED <<pc, entries>>
        BY <3>3, <2>11 DEF BuildContainer
      <4>2. entries[i] \in Shown
        BY <3>3, <2>3
      <4>3. ctrs' \in Seq(Shown) /\ Len(ctrs') = Len(ctrs) + 1
        BY <4>1, <4>2, <2>3
      <4>4. Len(ctrs) = i - 1
        BY <3>1, <2>1 DEF Progress
      <4>5. Len(ctrs') <= ctrCount /\ Len(ctrs') = i' - 1 /\ i' <= ctrCount + 1
        BY <3>1, <4>1, <4>3, <4>4, <2>2, <2>3
      <4>6. i + 1 \in 1..(MaxSegs + MaxCtrs + 1)
        BY <3>1, <2>2, <2>3
      <4>7. TypeOK'
        BY <3>1, <4>1, <4>3, <4>5, <4>6, <2>1 DEF TypeOK, input
      <4>8. Progress'
        BY <3>1, <4>1, <4>5, <2>1 DEF Progress, input
      <4>. QED
        BY <4>7, <4>8
    <3>. QED
      BY <2>11, <3>2, <3>3 DEF BuildContainer
  <2>12. CASE EndBuild
    BY <2>1, <2>2, <2>3, <2>12 DEF TypeOK, Progress, EndBuild, BuildsMore, input
  <2>. QED
    BY <2>1, <2>5, <2>8, <2>9, <2>10, <2>11, <2>12 DEF Next, Decided
<1>. QED
  BY <1>1, <1>2, PTL DEF Spec

(* The state of a decoding has its type.                                   *)
THEOREM TypeCorrect == Spec => []TypeOK
BY Typed, PTL

(* The containers built have the entries of their numbers.                 *)
LEMMA EntriesCopied == Spec => []Copied
<1>1. Init => Copied
  BY DEF Init, Copied
<1>2. TypeOK /\ Progress /\ Copied /\ [Next]_vars => Copied'
  <2>1. SUFFICES ASSUME TypeOK, Progress, Copied, [Next]_vars PROVE Copied'
    OBVIOUS
  <2>2. CASE ctrs' = ctrs /\ entries' = entries
    BY <2>1, <2>2 DEF Copied
  <2>3. CASE pc = "decode" /\ ctrs' = ctrs
    <3>1. ctrs' = <<>>
      BY <2>1, <2>3 DEF Progress
    <3>. QED
      BY <3>1 DEF Copied
  <2>4. CASE BuildContainer /\ i <= Len(entries)
    <3>1. pc = "build" /\ ctrs' = Append(ctrs, entries[i]) /\ entries' = entries
      BY <2>4 DEF BuildContainer
    <3>2. Len(ctrs) = i - 1 /\ ctrs \in Seq(Seq(Device \cup {Blank})) /\ i \in Nat
      BY <3>1, <2>1, CodecAssumption DEF Progress, TypeOK
    <3>3. ASSUME NEW k \in DOMAIN ctrs'
          PROVE  \/ k = i /\ ctrs'[k] = entries[i]
                 \/ k \in DOMAIN ctrs /\ ctrs'[k] = ctrs[k]
      <4>1. k \in 1..i /\ Len(ctrs) \in Nat /\ DOMAIN ctrs = 1..Len(ctrs)
        <5>1. Len(ctrs') = Len(ctrs) + 1 /\ DOMAIN ctrs' = 1..Len(ctrs')
          BY <3>1, <3>2
        <5>2. Len(ctrs') = i
          BY <5>1, <3>2
        <5>. QED
          BY <5>1, <5>2, <3>2
      <4>2. CASE k = i
        BY <4>2, <3>1, <3>2
      <4>3. CASE k # i
        <5>1. k \in 1..Len(ctrs)
          BY <4>1, <4>3, <3>2
        <5>. QED
          BY <5>1, <4>1, <3>1, <3>2
      <4>. QED
        BY <4>2, <4>3
    <3>. QED
      BY <3>1, <3>3, <2>1, <2>4 DEF Copied
  <2>5. CASE BuildContainer /\ ~(i <= Len(entries))
    BY <2>2, <2>5 DEF BuildContainer, Crash
  <2>. QED
    BY <2>1, <2>2, <2>3, <2>4, <2>5
       DEF Next, DecodeSegment, DecodeMLU, GiveUp, Crash, EndDecode, EndBuild, Decided, vars
<1>. QED
  BY <1>1, <1>2, Typed, PTL DEF Spec

(* Entries go with the segments of the same number if there is one for     *)
(* every container reached.                                                *)
LEMMA EntriesNumbered == Spec => []Numbered
<1>1. Init => Numbered
  <2>1. SUFFICES ASSUME Init, vendor # "mlu"
                 PROVE  Len(entries) = 0 /\ Reached = 0 /\ Len(annotation) \in Nat
    BY DEF Numbered, Init
  <2>2. ctrCount \in 1..MaxCtrs /\ MaxCtrs \in Nat /\ MaxSegs \in Nat
    BY <2>1, CodecAssumption DEF Init
  <2>3. PICK n \in 0..MaxSegs : annotation \in [1..n -> Segment]
    BY <2>1 DEF Init, BoundedSeq, SeqOf
  <2>. QED
    BY <2>1, <2>2, <2>3 DEF Init, Reached
<1>2. TypeOK /\ Progress /\ Numbered /\ [Next]_vars => Numbered'
  <2>1. SUFFICES ASSUME TypeOK, Progress, Numbered, [Next]_vars,
                        vendor' # "mlu", NothingPast'
                 PROVE  Numbered'
    BY DEF Numbered
  <2>2. /\ ctrCount \in Nat /\ ctrCount >= 1 /\ i \in Nat /\ i >= 1
        /\ entries \in Seq(Seq(Device \cup {Blank})) /\ annotation \in Seq(Segment)
        /\ Len(entries) \in Nat /\ Len(annotation) \in Nat
    BY <2>1, CodecAssumption DEF TypeOK
  <2>3. UNCHANGED input /\ vendor # "mlu" /\ NothingPast
    BY <2>1 DEF Next, DecodeSegment, DecodeMLU, EndDecode, BuildContainer, EndBuild,
                Decided, vars, input, NothingPast
  <2>4. UNCHANGED <<vendor, ctrCount, annotation>>
    BY <2>3 DEF input
  <2>5. /\ Len(entries) <= Reached /\ Len(entries) <= Len(annotation)
        /\ Len(entries) = Reached =>
              \A k \in DOMAIN entries : entries[k] = Devices(annotation[k])
    BY <2>1, <2>3 DEF Numbered
  <2>6. CASE Reached' = Reached /\ entries' = entries
    BY <2>4, <2>5, <2>6 DEF Numbered
  <2>7. CASE GiveUp
    <3>1. Reached' = ctrCount
      BY <2>4, <2>7 DEF Reached, GiveUp
    <3>. QED
      BY <2>2, <2>4, <2>7, <3>1 DEF Numbered, GiveUp
  <2>8. CASE Crash /\ pc = "decode"
    <3>1. Reached' >= Reached /\ Reached' = ctrCount
      BY <2>2, <2>4, <2>8 DEF Reached, Crash
    <3>2. CASE Reached = ctrCount
      BY <3>1, <3>2, <2>6, <2>8 DEF Crash
    <3>3. CASE Reached # ctrCount
      <4>1. Reached < ctrCount
        BY <3>3, <2>2 DEF Reached
      <4>. QED
        BY <4>1, <3>1, <2>2, <2>4, <2>5, <2>8 DEF Numbered, Crash, Reached
    <3>. QED
      BY <3>2, <3>3
  <2>9. CASE DecodeSegment /\ ~GiveUp /\ ~Crash
    <3> DEFINE segment == annotation[i]
    <3>1. /\ pc = "decode" /\ i \in 1..Len(annotation) /\ (vendor \in PerContainer => i <= ctrCount)
          /\ entries' = IF Keeps(segment) THEN Append(entries, Devices(segment)) ELSE entries
          /\ pc' = pc /\ i' = i + 1
      BY <2>2, <2>9 DEF DecodeSegment, InLoop
    <3>2. CASE i > ctrCount
      <4>1. Reached' = Reached
        BY <3>1, <3>2, <2>2, <2>4 DEF Reached
      <4>2. vendor = "ascend" /\ vendor \notin PerContainer
        BY <3>1, <3>2, <2>1, <2>2, <2>3 DEF TypeOK, Vendor
      <4>3. Devices(segment) = <<>>
        BY <4>2, <3>1, <3>2, <2>2, <2>3 DEF NothingPast
      <4>4. entries' = entries
        BY <4>2, <4>3, <3>1 DEF Keeps
      <4>. QED
        BY <4>1, <4>4, <2>6
    <3>3. CASE i <= ctrCount
      <4>1. Reached = i - 1 /\ Reached' = i
        BY <3>1, <3>3, <2>2, <2>4 DEF Reached
      <4>2. CASE entries' = entries
        BY <4>1, <4>2, <2>2, <2>4, <2>5 DEF Numbered
      <4>3. CASE entries' = Append(entries, Devices(segment))
        <5>1. Len(entries') = Len(entries) + 1 /\ DOMAIN entries' = 1..(Len(entries) + 1)
          BY <4>3, <2>2
        <5>2. \A k \in 1..Len(entries) : entries'[k] = entries[k]
          BY <4>3, <2>2
        <5>3. entries'[Len(entries) + 1] = Devices(segment)
          BY <4>3, <2>2
        <5>4. ASSUME Len(entries') = Reached', NEW k \in DOMAIN entries'
              PROVE  entries'[k] = Devices(annotation[k])
          <6>1. Len(entries) = i - 1
            BY <5>1, <5>4, <4>1, <2>2
          <6>2. CASE k = Len(entries) + 1
            BY <6>1, <6>2, <5>3, <2>2
          <6>3. CASE k \in 1..Len(entries)
            BY <6>1, <6>3, <5>2, <4>1, <2>2, <2>5
          <6>. QED
            BY <6>2, <6>3, <5>1, <2>2
        <5>. QED
          BY <5>1, <5>4, <4>1, <3>1, <2>2, <2>4, <2>5 DEF Numbered
      <4>. QED
        BY <4>2, <4>3, <3>1
    <3>. QED
      BY <3>2, <3>3, <2>2
  <2>10. CASE EndDecode
    <3>1. /\ pc = "decode" /\ pc' # "decode" /\ entries' = entries
          /\ i > Len(annotation) \/ i > ctrCount
      BY <2>2, <2>3, <2>10 DEF EndDecode, InLoop
    <3>2. Reached' = ctrCount
      BY <3>1, <2>4 DEF Reached
    <3>3. CASE i > ctrCount
      BY <3>1, <3>2, <3>3, <2>2, <2>6 DEF Reached
    <3>4. CASE i <= ctrCount
      <4>1. Len(entries) < ctrCount
        BY <3>1, <3>4, <2>2, <2>5 DEF Reached
      <4>. QED
        BY <4>1, <3>1, <3>2, <2>2, <2>4, <2>5 DEF Numbered
    <3>. QED
      BY <3>3, <3>4, <2>2
  <2>11. CASE BuildContainer \/ EndBuild \/ Decided \/ UNCHANGED vars
    BY <2>4, <2>6, <2>11 DEF BuildContainer, Crash, EndBuild, Decided, vars, Reached
  <2>. QED
    BY <2>1, <2>3, <2>7, <2>8, <2>9, <2>10, <2>11 DEF Next, DecodeSegment, DecodeMLU
<1>. QED
  BY <1>1, <1>2, Typed, PTL DEF Spec

(* A device is never shown on the wrong container: a pod that is shown at  *)
(* all has on every container the devices of that container's segment.     *)
THEOREM NeverOnAnother == Spec => []NeverMisattributed
<1>1. TypeOK /\ Progress /\ Copied /\ Numbered => NeverMisattributed
  <2>1. SUFFICES ASSUME TypeOK, Progress, Copied, Numbered,
                        pc = "done", ctrs # <<>>, vendor # "mlu", NothingPast
                 PROVE  /\ Len(ctrs) = ctrCount
                        /\ \A k \in 1..ctrCount : k <= Len(annotation)
                                                  /\ ctrs[k] = Devices(annotation[k])
    BY DEF NeverMisattributed
  <2>2. /\ ctrCount \in Nat /\ ctrCount >= 1 /\ Len(ctrs) = ctrCount /\ DOMAIN ctrs = 1..ctrCount
        /\ Len(entries) \in Nat /\ DOMAIN entries = 1..Len(entries)
        /\ Len(annotation) \in Nat
    BY <2>1, CodecAssumption DEF TypeOK, Progress
  <2>3. ctrCount <= Len(entries)
    BY <2>1, <2>2 DEF Copied
  <2>4. Reached = ctrCount
    BY <2>1 DEF Reached
  <2>5. /\ Len(entries) = ctrCount /\ Len(entries) <= Len(annotation)
        /\ \A k \in 1..ctrCount : entries[k] = Devices(annotation[k])
    <3>1. /\ Len(entries) <= ctrCount /\ Len(entries) <= Len(annotation)
          /\ Len(entries) = ctrCount =>
                \A k \in DOMAIN entries : entries[k] = Devices(annotation[k])
      BY <2>1, <2>4 DEF Numbered
    <3>2. Len(entries) = ctrCount
      <4>1. Len(entries) <= ctrCount /\ ctrCount <= Len(entries)
        BY <3>1, <2>3
      <4>2. Len(entries) \in Nat /\ ctrCount \in Nat
        BY <2>2
      <4>. QED
        BY <4>1, <4>2
    <3>3. 1..ctrCount = DOMAIN entries
      BY <3>2, <2>2
    <3>4. \A k \in DOMAIN entries : entries[k] = Devices(annotation[k])
      BY <3>1, <3>2
    <3>5. \A k \in 1..ctrCount : entries[k] = Devices(annotation[k])
      BY <3>3, <3>4, Zenon
    <3>. QED
      BY <3>1, <3>2, <3>5
  <2>6. \A k \in 1..ctrCount : ctrs[k] = entries[k]
    BY <2>1, <2>2 DEF Copied
  <2>. QED
    BY <2>2, <2>5, <2>6
<1>. QED
  BY <1>1, Typed, EntriesCopied, EntriesNumbered, PTL

-----------------------------------------------------------------------------
(* The pods the scheduler annotates.  No decoder gives up on them.         *)
LEMMA NoTrouble ==
    ASSUME TypeOK, WellFormed, NEW k \in DOMAIN annotation
    PROVE  /\ ~DecodeFails(annotation[k]) /\ ~DecodePanics(annotation[k])
           /\ k \in 1..(ctrCount + 1)
           /\ k = ctrCount + 1 => annotation[k] = <<>>
<1>1. ctrCount \in Nat /\ annotation \in Seq(Segment) /\ k \in 1..(ctrCount + 1)
  BY CodecAssumption DEF TypeOK, WellFormed
<1>2. k = ctrCount + 1 => annotation[k] = <<>>
  BY DEF WellFormed
<1>3. ASSUME NEW j \in DOMAIN annotation[k]
      PROVE  ~TooShort(annotation[k][j]) /\ ~Undashed(annotation[k][j])
  <2>1. k \in 1..ctrCount
    BY <1>1, <1>2, <1>3
  <2>2. annotation[k][j].fields = 1 \/ annotation[k][j].uuid # Blank
    BY <2>1, <1>3 DEF WellFormed
  <2>3. annotation[k][j] \in Item
    <3>1. annotation[k] \in Segment
      BY <1>1
    <3>2. PICK n \in 0..MaxItems : annotation[k] \in [1..n -> Item]
      BY <3>1 DEF Segment, BoundedSeq, SeqOf
    <3>. QED
      BY <3>2, <1>3
  <2>4. annotation[k][j].fields \in {1, 3, 4} /\ (annotation[k][j].fields = 3 => annotation[k][j].uuid = Blank)
    BY <2>3 DEF Item
  <2>. QED
    BY <2>2, <2>4 DEF TooShort, Undashed
<1>. QED
  BY <1>1, <1>2, <1>3 DEF DecodeFails, DecodePanics, Trouble

(* The decoders find an entry for every container they reach, Ascend's for *)
(* those with devices.                                                     *)
LEMMA EntriesTallied == Spec => []Tallied
<1> DEFINE Full(n)  == \A k \in 1..n : annotation[k] # <<>>
           Empty(n) == \A k \in 1..n : annotation[k] = <<>>
           Tally(n) ==
             /\ Len(entries) <= n
             /\ Len(entries) = n <=> vendor \in PerContainer \/ Full(n)
             /\ vendor = "ascend" => (entries = <<>> <=> Empty(n))
<1>1. Init => Tallied
  <2>1. SUFFICES ASSUME Init PROVE Tallied
    OBVIOUS
  <2>2. ctrCount \in Nat /\ ctrCount >= 1 /\ pc = "decode" /\ i = 1 /\ entries = <<>>
    BY <2>1, CodecAssumption DEF Init
  <2>3. Reached = 0 /\ Len(entries) = 0
    BY <2>2 DEF Reached
  <2>. QED
    BY <2>2, <2>3 DEF Tallied
<1>2. TypeOK /\ Progress /\ Tallied /\ [Next]_vars => Tallied'
  <2>1. SUFFICES ASSUME TypeOK, Progress, Tallied, [Next]_vars,
                        vendor' # "mlu", WellFormed'
                 PROVE  Tallied'
    BY DEF Tallied
  <2>2. /\ ctrCount \in Nat /\ ctrCount >= 1 /\ i \in Nat /\ i >= 1
        /\ entries \in Seq(Seq(Device \cup {Blank})) /\ annotation \in Seq(Segment)
        /\ Len(entries) \in Nat /\ Len(annotation) \in Nat
    BY <2>1, CodecAssumption DEF TypeOK
  <2>3. /\ UNCHANGED input /\ UNCHANGED <<vendor, ctrCount, annotation>>
        /\ vendor # "mlu" /\ WellFormed
    BY <2>1 DEF Next, DecodeSegment, DecodeMLU, EndDecode, BuildContainer, EndBuild,
                Decided, vars, input, WellFormed
  <2>4. (pc \in {"decode", "build"} => Tally(Reached))
        /\ (pc = "build" => entries # <<>> /\ i <= Len(entries) + 1)
    BY <2>1, <2>3 DEF Tallied
  <2>5. Len(annotation) = ctrCount + 1 /\ (vendor = "ascend" \/ vendor \in PerContainer)
    BY <2>1, <2>3 DEF WellFormed, TypeOK, Vendor
  <2>6. vendor = "ascend" => vendor \notin PerContainer
    BY DEF PerContainer
  <2>7. CASE DecodeSegment
    <3> DEFINE segment == annotation[i]
    <3>1. pc = "decode" /\ i \in DOMAIN annotation /\ (vendor \in PerContainer => i <= ctrCount)
      BY <2>2, <2>7 DEF DecodeSegment, InLoop
    <3>2. ~DecodeFails(segment) /\ ~DecodePanics(segment) /\ i \in 1..(ctrCount + 1)
          /\ (i = ctrCount + 1 => segment = <<>>)
      BY <3>1, <2>1, <2>3, NoTrouble
    <3>3. /\ entries' = IF Keeps(segment) THEN Append(entries, Devices(segment)) ELSE entries
          /\ i' = i + 1 /\ pc' = pc
      BY <3>2, <2>7 DEF DecodeSegment
    <3>4. CASE i = ctrCount + 1
      <4>1. Reached = ctrCount /\ Reached' = ctrCount
        BY <3>1, <3>3, <3>4, <2>2, <2>3 DEF Reached
      <4>2. vendor = "ascend" /\ vendor \notin PerContainer
        BY <3>1, <3>4, <2>2, <2>5, <2>6
      <4>3. entries' = entries
        BY <4>2, <3>2, <3>3, <3>4, DevicesType DEF Keeps
      <4>. QED
        BY <4>1, <4>3, <3>1, <3>3, <2>3, <2>4 DEF Tallied
    <3>5. CASE i <= ctrCount
      <4>1. Reached = i - 1 /\ Reached' = i
        BY <3>1, <3>3, <3>5, <2>2, <2>3 DEF Reached
      <4>2. Keeps(segment) <=> vendor \in PerContainer \/ segment # <<>>
        <5>1. segment # <<>> => Devices(segment) # <<>>
          BY <3>5, <2>2, <2>3 DEF WellFormed
        <5>. QED
          BY <5>1, DevicesType DEF Keeps
      <4>3. /\ Full(i) <=> Full(i - 1) /\ segment # <<>>
            /\ Empty(i) <=> Empty(i - 1) /\ segment = <<>>
        <5>1. 1..i = (1..(i - 1)) \cup {i}
          BY <2>2
        <5>. QED
          BY <5>1
      <4>4. Tally(i - 1)
        BY <4>1, <3>1, <2>4
      <4>5. CASE Keeps(segment)
        <5>1. /\ Len(entries') = Len(entries) + 1 /\ entries' # <<>>
          BY <4>5, <3>3, <2>2
        <5>2. Len(entries') <= i /\ (Len(entries') = i <=> Len(entries) = i - 1)
          BY <5>1, <4>4, <2>2
        <5>3. Len(entries) = i - 1 <=> vendor \in PerContainer \/ Full(i)
          BY <4>2, <4>3, <4>4, <4>5
        <5>4. vendor = "ascend" => ~Empty(i)
          BY <4>2, <4>3, <4>5, <2>6
        <5>. QED
          BY <5>1, <5>2, <5>3, <5>4, <4>1, <3>1, <3>3, <2>3 DEF Tallied
      <4>6. CASE ~Keeps(segment)
        <5>1. entries' = entries /\ segment = <<>> /\ vendor \notin PerContainer
          BY <4>2, <4>6, <3>3
        <5>2. Len(entries') <= i /\ Len(entries') # i
          BY <5>1, <4>4, <2>2
        <5>3. ~Full(i) /\ (Empty(i) <=> Empty(i - 1))
          BY <5>1, <4>3
        <5>. QED
          BY <5>1, <5>2, <5>3, <4>1, <4>4, <3>1, <3>3, <2>3 DEF Tallied
      <4>. QED
        BY <4>5, <4>6
    <3>. QED
      BY <3>2, <3>4, <3>5, <2>2
  <2>8. CASE EndDecode
    <3>1. /\ pc = "decode" /\ entries' = entries /\ i' = 1 /\ i > ctrCount
          /\ pc' = IF entries = <<>> THEN "done" ELSE "build"
      BY <2>2, <2>3, <2>5, <2>8 DEF EndDecode, InLoop
    <3>2. Reached = ctrCount /\ Reached' = ctrCount
      BY <3>1, <2>2, <2>3 DEF Reached
    <3>3. Tally(ctrCount)
      BY <3>1, <3>2, <2>4
    <3>4. CASE entries = <<>>
      <4>1. vendor = "ascend" => ~Uneven
        BY <3>3, <3>4 DEF Uneven
      <4>2. ~(vendor' = "ascend" /\ Uneven')
        BY <4>1, <2>3 DEF Uneven
      <4>. QED
        BY <4>2, <3>1, <3>4 DEF Tallied
    <3>5. CASE entries # <<>>
      <4>1. 1 <= Len(entries) + 1
        BY <2>2
      <4>. QED
        BY <4>1, <3>1, <3>2, <3>3, <3>5, <2>3 DEF Tallied
    <3>. QED
      BY <3>4, <3>5
  <2>9. CASE BuildContainer
    <3>1. pc = "build" /\ i <= ctrCount /\ entries' = entries
      BY <2>9 DEF BuildContainer, BuildsMore, Crash
    <3>2. Reached = ctrCount /\ Tally(ctrCount) /\ entries # <<>>
      BY <3>1, <2>4 DEF Reached
    <3>3. CASE i <= Len(entries)
      <4>1. i' = i + 1 /\ pc' = pc /\ i' <= Len(entries') + 1
        BY <3>1, <3>3, <2>2, <2>9 DEF BuildContainer
      <4>2. Reached' = ctrCount
        BY <4>1, <3>1, <2>3 DEF Reached
      <4>. QED
        BY <4>1, <4>2, <3>1, <3>2, <2>3 DEF Tallied
    <3>4. CASE ~(i <= Len(entries))
      <4>1. pc' = "panic" /\ Len(entries) # ctrCount
        BY <3>1, <3>4, <2>2, <2>9 DEF BuildContainer, Crash
      <4>2. vendor = "ascend" /\ Uneven
        BY <4>1, <3>2, <2>5 DEF Uneven
      <4>3. vendor' = "ascend" /\ Uneven'
        BY <4>2, <2>3 DEF Uneven
      <4>. QED
        BY <4>1, <4>3 DEF Tallied
    <3>. QED
      BY <3>3, <3>4
  <2>10. CASE EndBuild
    <3>1. pc = "build" /\ pc' = "done" /\ i > ctrCount
      BY <2>2, <2>3, <2>10 DEF EndBuild, BuildsMore
    <3>2. Reached = ctrCount /\ Tally(ctrCount) /\ i <= Len(entries) + 1
      BY <3>1, <2>4 DEF Reached
    <3>3. Len(entries) = ctrCount
      <4>1. Len(entries) <= ctrCount
        BY <3>2
      <4>. QED
        BY <4>1, <3>1, <3>2, <2>2
    <3>4. ~(vendor = "ascend" /\ Uneven)
      BY <3>2, <3>3, <2>6 DEF Uneven
    <3>5. ~(vendor' = "ascend" /\ Uneven')
      BY <3>4, <2>3 DEF Uneven
    <3>. QED
      BY <3>1, <3>5 DEF Tallied
  <2>11. CASE Decided \/ UNCHANGED vars
    BY <2>1, <2>3, <2>11 DEF Decided, vars, Tallied, Reached, Uneven
  <2>. QED
    BY <2>1, <2>3, <2>7, <2>8, <2>9, <2>10, <2>11 DEF Next, DecodeMLU
<1>. QED
  BY <1>1, <1>2, Typed, PTL DEF Spec

(* The one entry of an MLU pod.                                            *)
LEMMA OneEntry == Spec => []SingleEntry
<1>1. Init => SingleEntry
  BY DEF Init, SingleEntry
<1>2. TypeOK /\ Progress /\ SingleEntry /\ [Next]_vars => SingleEntry'
  <2>1. SUFFICES ASSUME TypeOK, Progress, SingleEntry, [Next]_vars,
                        vendor' = "mlu", mluFields' >= 6
                 PROVE  SingleEntry'
    BY DEF SingleEntry
  <2>2. /\ UNCHANGED input /\ UNCHANGED <<ctrCount, vendor, mluFields>>
        /\ vendor = "mlu" /\ mluFields >= 6
    BY <2>1 DEF Next, DecodeSegment, DecodeMLU, EndDecode, BuildContainer, EndBuild,
                Decided, vars, input
  <2>3. /\ ctrCount \in Nat /\ ctrCount >= 1 /\ mluFields \in Nat /\ i \in Nat /\ i >= 1
        /\ Len(entries) \in Nat /\ Len(<<>>) = 0
    BY <2>1, CodecAssumption DEF TypeOK
  <2>4. CASE DecodeMLU
    <3>1. i = 1 /\ pc = "decode"
      BY <2>4 DEF DecodeMLU
    <3>2. PICK d \in Device : entries' = <<<<d>>>> /\ i' = i + 1 /\ pc' = pc
      BY <2>2, <2>3, <2>4 DEF DecodeMLU
    <3>3. Len(entries') = 1
      BY <3>2
    <3>. QED
      BY <3>1, <3>2, <3>3 DEF SingleEntry
  <2>5. CASE EndDecode
    <3>1. Len(entries) = i - 1 /\ i > 1 /\ pc = "decode"
      BY <2>1, <2>2, <2>5 DEF SingleEntry, EndDecode
    <3>2. i = 2 /\ entries # <<>>
      <4>1. Len(annotation) = 1 /\ i <= Len(annotation) + 1
        BY <2>1, <2>2, <3>1 DEF Progress
      <4>2. i = 2
        BY <4>1, <3>1, <2>3
      <4>. QED
        BY <4>2, <3>1, <2>3
    <3>. QED
      BY <3>1, <3>2, <2>5 DEF SingleEntry, EndDecode
  <2>6. CASE BuildContainer
    <3>1. pc = "build" /\ Len(entries) = 1 /\ i <= ctrCount
      BY <2>1, <2>2, <2>6 DEF SingleEntry, BuildContainer, BuildsMore
    <3>2. CASE i <= Len(entries)
      <4>1. pc' = "build" /\ entries' = entries /\ i' = i + 1 /\ i + 1 <= 2
        BY <3>1, <3>2, <2>3, <2>6 DEF BuildContainer
      <4>. QED
        BY <4>1, <3>1 DEF SingleEntry
    <3>3. CASE ~(i <= Len(entries))
      <4>1. ctrCount > 1
        BY <3>1, <3>3, <2>3
      <4>. QED
        BY <4>1, <3>1, <3>3, <2>2, <2>6 DEF SingleEntry, BuildContainer, Crash
    <3>. QED
      BY <3>2, <3>3
  <2>7. CASE EndBuild
    <3>1. pc = "build" /\ pc' = "done" /\ i <= 2 /\ i > ctrCount
      BY <2>1, <2>2, <2>3, <2>7 DEF SingleEntry, EndBuild, BuildsMore
    <3>2. ~(ctrCount > 1)
      BY <3>1, <2>3
    <3>. QED
      BY <3>1, <3>2, <2>2 DEF SingleEntry
  <2>8. CASE Decided \/ UNCHANGED vars
    BY <2>1, <2>2, <2>8 DEF Decided, vars, SingleEntry
  <2>. QED
    BY <2>1, <2>2, <2>4, <2>5, <2>6, <2>7, <2>8 DEF Next, DecodeSegment
<1>. QED
  BY <1>1, <1>2, Typed, PTL DEF Spec

(* The only pods whose well-formed annotation takes the process down are   *)
(* Ascend pods with a device on some containers only, and MLU pods with    *)
(* more containers than one; and those do.                                 *)
THEOREM OnlyGapsPanic == Spec => []PanicsOnGapsOnly
<1>1. Tallied /\ SingleEntry => PanicsOnGapsOnly
  BY DEF Tallied, SingleEntry, PanicsOnGapsOnly
<1>. QED
  BY <1>1, EntriesTallied, OneEntry, PTL

=============================================================================
