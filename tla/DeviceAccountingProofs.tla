----------------------- MODULE DeviceAccountingProofs -----------------------
(* Proofs about the accounting of devices, for every finite set of cards   *)
(* and containers and whatever the exporters can have reported.            *)
EXTENDS DeviceAccounting, FiniteSetTheorems, WellFoundedInduction, TLAPS

(* The parts of the names of a card.                                       *)
LEMMA NameParts ==
    ASSUME NEW c
    PROVE  /\ Plugin(c).form = "plugin"      /\ Plugin(c).node = c.node
           /\ Plugin(c).vendor = c.vendor    /\ Plugin(c).num = c.num
           /\ Exporter(c).form = "exporter"  /\ Exporter(c).node = c.node
           /\ Exporter(c).vendor = c.vendor  /\ Exporter(c).num = c.num
           /\ Numbered(c).form = "numbered"  /\ Numbered(c).node = c.node
           /\ Numbered(c).vendor = c.vendor  /\ Numbered(c).num = c.num
           /\ PluginDCU(c).form = "numbered" /\ PluginDCU(c).node = ""
           /\ PluginDCU(c).vendor = c.vendor /\ PluginDCU(c).num = c.num
           /\ Blank.form = "blank"
BY DEF Plugin, Exporter, Numbered, PluginDCU, Blank, Name

(* Cards with the same node, vendor and number are the same.               *)
LEMMA CardsDiffer ==
    ASSUME NEW c \in Card, NEW d \in Card,
           c.node = d.node, c.vendor = d.vendor, c.num = d.num
    PROVE  c = d
<1>1. ASSUME NEW x \in Card
      PROVE  x = [node |-> x.node, vendor |-> x.vendor, num |-> x.num]
  BY AccountingAssumption, Zenon
<1>2. ASSUME NEW n, NEW v, NEW i, n = c.node, n = d.node, v = c.vendor, v = d.vendor,
             i = c.num, i = d.num
      PROVE  c = d
  <2>1. c = [node |-> n, vendor |-> v, num |-> i] /\ d = [node |-> n, vendor |-> v, num |-> i]
    <3>1. c = [node |-> c.node, vendor |-> c.vendor, num |-> c.num]
      BY <1>1, Zenon
    <3>2. d = [node |-> d.node, vendor |-> d.vendor, num |-> d.num]
      BY <1>1, Zenon
    <3>. QED
      BY <1>2, <3>1, <3>2, Zenon
  <2>. QED
    BY <2>1, Zenon
<1>. QED
  BY <1>2

(* What a UUID, an Id and an alias can be.                                 *)
LEMMA NamesOfCards ==
    ASSUME NEW c \in Card, NEW b \in BOOLEAN
    PROVE  /\ UUID(c) \in {Plugin(c), Numbered(c)}
           /\ Id(c, b) \in {Plugin(c), Exporter(c), PluginDCU(c)}
           /\ Alias(c, b) \in {Plugin(c), Numbered(c), PluginDCU(c), Blank}
           /\ Alias(c, b) \in {UUID(c), PluginDCU(c), Blank}
           /\ Alias(c, b) = PluginDCU(c) => c.vendor = "hygon" /\ ~b /\ Id(c, b) = PluginDCU(c)
           /\ Alias(c, b) = Blank => UUID(c) = Id(c, b)
           /\ Alias(c, b) # PluginDCU(c) => Id(c, b) # PluginDCU(c)
           /\ UUID(c) \notin {PluginDCU(c), Blank}
           /\ c.node # ""
<1>1. c.vendor \in Vendor /\ c.node # ""
  BY AccountingAssumption
<1>2. /\ Plugin(c) # PluginDCU(c) /\ Plugin(c) # Blank /\ Numbered(c) # Blank
      /\ Numbered(c) # PluginDCU(c) /\ Exporter(c) # PluginDCU(c) /\ PluginDCU(c) # Blank
  BY <1>1, NameParts
<1>3. CASE c.vendor \in {"nvidia", "ascend"}
  BY <1>2, <1>3, <1>1 DEF UUID, Id, Alias
<1>4. CASE c.vendor = "mlu"
  BY <1>2, <1>4, <1>1 DEF UUID, Id, Alias
<1>5. CASE c.vendor = "hygon"
  BY <1>2, <1>5, <1>1 DEF UUID, Id, Alias
<1>6. CASE c.vendor = "metax"
  BY <1>2, <1>6, <1>1 DEF UUID, Id, Alias
<1>. QED
  BY <1>1, <1>3, <1>4, <1>5, <1>6 DEF Vendor

(* No two cards share a UUID, nor does one's alias equal another's UUID.   *)
LEMMA AliasOfOne ==
    ASSUME NEW c \in Card, NEW e \in Card, NEW b \in BOOLEAN, Alias(e, b) = UUID(c)
    PROVE  c = e
<1>1. /\ UUID(c) \in {Plugin(c), Numbered(c)} /\ c.node # ""
      /\ Alias(e, b) \in {Plugin(e), Numbered(e), PluginDCU(e), Blank}
  BY NamesOfCards
<1>2. ASSUME NEW x \in {c, e}
      PROVE  /\ Plugin(x).form = "plugin"      /\ Plugin(x).node = x.node
             /\ Plugin(x).vendor = x.vendor    /\ Plugin(x).num = x.num
             /\ Numbered(x).form = "numbered"  /\ Numbered(x).node = x.node
             /\ Numbered(x).vendor = x.vendor  /\ Numbered(x).num = x.num
             /\ PluginDCU(x).form = "numbered" /\ PluginDCU(x).node = ""
             /\ Blank.form = "blank"
  BY NameParts
<1>3. c.node = e.node /\ c.vendor = e.vendor /\ c.num = e.num
  BY <1>1, <1>2
<1>. QED
  BY <1>3, CardsDiffer

(* What a device of a snapshot is.                                         *)
LEMMA DeviceParts ==
    ASSUME NEW r \in AnyDevice
    PROVE  \E b \in BOOLEAN : /\ r.card \in Card
                              /\ r.id = Id(r.card, b) /\ r.alias = Alias(r.card, b)
BY DEF AnyDevice, Device

(* The alias of a device prefixes its own UUID, unless it is dark.         *)
LEMMA OwnCharge ==
    ASSUME NEW r \in AnyDevice
    PROVE  /\ ~Dark(r) => HasPrefix(UUID(r.card), r.alias)
           /\ r.alias = PluginDCU(r.card) => Dark(r) /\ r.id = PluginDCU(r.card)
<1>1. PICK b \in BOOLEAN : r.card \in Card /\ r.id = Id(r.card, b) /\ r.alias = Alias(r.card, b)
  BY DeviceParts
<1>. QED
  BY <1>1, NamesOfCards DEF HasPrefix, Dark

(* A device of a container is found on the opened card if it is that card, *)
(* and only then; no device is found on a dark one.                        *)
LEMMA FoundOnItsCard ==
    ASSUME devices \subseteq AnyDevice, OneEach, NEW r \in devices, NEW c \in Card,
           NEW id \in IF Resolved(c) = {} THEN {UUID(c)} ELSE Resolved(c)
    PROVE  HasPrefix(id, r.id) <=> c = r.card /\ ~Dark(r)
<1> DEFINE e == r.card
<1>1. PICK b \in BOOLEAN : e \in Card /\ r.id = Id(e, b) /\ r.alias = Alias(e, b)
  BY DeviceParts
<1>2. ASSUME NEW d \in devices, d.alias = UUID(c)
      PROVE  d.card = c /\ d.id \in {Plugin(c), Exporter(c)}
  <2>1. PICK a \in BOOLEAN : d.card \in Card /\ d.id = Id(d.card, a) /\ d.alias = Alias(d.card, a)
    BY DeviceParts
  <2>2. d.card = c
    BY <1>2, <2>1, AliasOfOne
  <2>. QED
    BY <1>2, <2>1, <2>2, NamesOfCards
<1>3. id \in {Plugin(c), Exporter(c), Numbered(c)}
  <2>1. CASE Resolved(c) = {}
    BY <2>1, NamesOfCards
  <2>2. CASE Resolved(c) # {}
    BY <1>2, <2>2 DEF Resolved
  <2>. QED
    BY <2>1, <2>2
<1>4. ASSUME HasPrefix(id, r.id) PROVE c = e /\ ~Dark(r)
  <2>1. r.id \in {Plugin(e), Exporter(e), PluginDCU(e)} /\ c.node # ""
    BY <1>1, NamesOfCards
  <2>2. ASSUME NEW x \in {c, e}
        PROVE  /\ Plugin(x).form = "plugin"      /\ Plugin(x).node = x.node
               /\ Plugin(x).vendor = x.vendor    /\ Plugin(x).num = x.num
               /\ Exporter(x).form = "exporter"  /\ Exporter(x).node = x.node
               /\ Exporter(x).vendor = x.vendor  /\ Exporter(x).num = x.num
               /\ Numbered(x).form = "numbered"  /\ Numbered(x).node = x.node
               /\ PluginDCU(x).form = "numbered" /\ PluginDCU(x).node = ""
               /\ Blank.form = "blank"
    BY NameParts
  <2>3. r.id # Blank
    BY <2>1, <2>2
  <2>4. r.id # PluginDCU(e)
    <3>1. SUFFICES ASSUME r.id = PluginDCU(e) PROVE FALSE
      OBVIOUS
    <3>2. r.id.form = "numbered" /\ r.id.node = ""
      BY <3>1, <2>2
    <3>3. id = r.id \/ (id.form = "numbered" /\ id.node = "")
      BY <3>2, <2>3, <1>4 DEF HasPrefix
    <3>4. id.form = "numbered" /\ id.node = ""
      BY <3>2, <3>3
    <3>. QED
      BY <3>4, <1>3, <2>1, <2>2
  <2>5. id = r.id
    <3>1. r.id.form # "numbered"
      BY <2>1, <2>2, <2>4
    <3>. QED
      BY <3>1, <2>3, <1>4 DEF HasPrefix
  <2>6. c.node = e.node /\ c.vendor = e.vendor /\ c.num = e.num
    BY <2>1, <2>2, <2>4, <2>5, <1>3
  <2>7. c = e
    BY <2>6, <1>1, CardsDiffer
  <2>8. ~Dark(r)
    BY <2>4, OwnCharge DEF Dark
  <2>. QED
    BY <2>7, <2>8
<1>5. ASSUME c = e, ~Dark(r) PROVE HasPrefix(id, r.id)
  <2>1. r.alias \in {UUID(c), Blank}
    BY <1>1, <1>5, NamesOfCards, OwnCharge
  <2>2. ASSUME NEW d \in devices, d.alias = UUID(c) PROVE d = r
    BY <1>2, <1>5, <2>2 DEF OneEach
  <2>3. CASE r.alias = UUID(c)
    <3>1. Resolved(c) = {r.id}
      BY <2>2, <2>3 DEF Resolved
    <3>. QED
      BY <3>1 DEF HasPrefix
  <2>4. CASE r.alias = Blank
    <3>1. UUID(c) = r.id /\ UUID(c) # Blank
      BY <1>1, <1>5, <2>4, NamesOfCards
    <3>2. Resolved(c) = {}
      BY <2>2, <2>4, <3>1 DEF Resolved
    <3>. QED
      BY <3>1, <3>2 DEF HasPrefix
  <2>. QED
    BY <2>1, <2>3, <2>4
<1>. QED
  BY <1>4, <1>5

-----------------------------------------------------------------------------
(* Counting.  Sets of pairs of a container and a card are finite.          *)
LEMMA FinitePairs ==
    ASSUME NEW S, S \subseteq Container \X Card
    PROVE  IsFiniteSet(S) /\ Cardinality(S) \in Nat
<1>1. IsFiniteSet(Container) /\ IsFiniteSet(Card)
  BY AccountingAssumption, Zenon
<1>2. IsFiniteSet(Container \X Card)
  BY <1>1, FS_Product
<1>. QED
  BY <1>2, FS_Subset, FS_CardinalityType

(* As are snapshots.                                                       *)
LEMMA FiniteDevices ==
    ASSUME NEW R, R \subseteq AnyDevice
    PROVE  IsFiniteSet(R)
<1> DEFINE Told(b) == {Device(c, b) : c \in Card}
<1>1. ASSUME NEW b \in BOOLEAN PROVE IsFiniteSet(Told(b))
  <2> DEFINE f == [c \in Card |-> Device(c, b)]
  <2>1. f \in Surjection(Card, Told(b))
    BY DEF Surjection
  <2>2. IsFiniteSet(Card)
    BY AccountingAssumption, Zenon
  <2>. QED
    BY <2>1, <2>2, FS_Surjection
<1>2. PICK t \in BOOLEAN, u \in BOOLEAN : t /\ ~u
  OBVIOUS
<1>3. \A b \in BOOLEAN : b = t \/ b = u
  BY <1>2
<1>4. AnyDevice = Told(t) \cup Told(u)
  BY <1>3 DEF AnyDevice
<1>5. IsFiniteSet(AnyDevice)
  BY <1>1, <1>4, FS_Union
<1>. QED
  BY <1>5, FS_Subset

(* Induction, stated with a set.                                           *)
LEMMA Counting ==
    ASSUME NEW T, 0 \in T, \A n \in Nat : n \in T => n + 1 \in T
    PROVE  Nat \subseteq T
<1> DEFINE R == {ss \in Nat \X Nat : ss[1] < ss[2]}
           U == Nat \ T
<1>1. IsWellFoundedOn(R, Nat)
  BY NatLessThanWellFounded DEF OpToRel
<1>2. SUFFICES ASSUME U # {} PROVE FALSE
  OBVIOUS
<1>. HIDE DEF R
<1>3. PICK x \in U : \A y \in U : <<y, x>> \notin R
  BY <1>1, <1>2, WFMin
<1>4. x \in Nat /\ x # 0 /\ x - 1 \in Nat /\ x - 1 < x /\ x = (x - 1) + 1
  OBVIOUS
<1>5. <<x - 1, x>> \in R
  BY <1>4 DEF R
<1>6. x - 1 \in T
  BY <1>3, <1>4, <1>5
<1>. QED
  BY <1>4, <1>6

(* VgpuUsed adds up what the devices are charged with one after the other: *)
(* its sums exist, being built from those of smaller sets.                 *)
OneOf(S) == CHOOSE x \in S : TRUE
SumOf(sum, S) == IF S = {} THEN 0 ELSE Cardinality(Charged(OneOf(S))) + sum[S \ {OneOf(S)}]

(* The sums VgpuUsed takes exist.                                          *)
LEMMA VgpuUsedAddsUp ==
    ASSUME NEW R, R \subseteq AnyDevice
    PROVE  \E sum : /\ VgpuUsed(R) = sum[R]
                    /\ \A S \in SUBSET R : sum[S] = SumOf(sum, S)
<1> DEFINE Right(sum) == sum = [S \in SUBSET R |-> SumOf(sum, S)]
           UpTo(n) == \E sum : \A S \in SUBSET R : Cardinality(S) <= n => sum[S] = SumOf(sum, S)
           T == {n \in Nat : UpTo(n)}
<1>1. \A S \in SUBSET R : IsFiniteSet(S) /\ Cardinality(S) \in Nat
  BY FiniteDevices, FS_CardinalityType
<1>2. 0 \in T
  <2> DEFINE zero == [S \in SUBSET R |-> 0]
  <2>1. \A S \in SUBSET R : Cardinality(S) <= 0 => S = {}
    BY <1>1, FS_EmptySet
  <2>2. \A S \in SUBSET R : Cardinality(S) <= 0 => zero[S] = SumOf(zero, S)
    BY <2>1 DEF SumOf
  <2>3. UpTo(0)
    BY <2>2
  <2>. QED
    BY <2>3
<1>3. ASSUME NEW n \in Nat, n \in T PROVE n + 1 \in T
  <2>1. PICK sum : \A S \in SUBSET R : Cardinality(S) <= n => sum[S] = SumOf(sum, S)
    BY <1>3
  <2> DEFINE next == [S \in SUBSET R |-> SumOf(sum, S)]
  <2>2. ASSUME NEW S \in SUBSET R, Cardinality(S) <= n + 1
        PROVE  next[S] = SumOf(next, S)
    <3>1. CASE S = {}
      BY <3>1 DEF SumOf
    <3>2. CASE S # {}
      <4>1. OneOf(S) \in S
        BY <3>2 DEF OneOf
      <4>2. PICK U \in SUBSET R : U = S \ {OneOf(S)}
        BY <3>2
      <4>3. Cardinality(U) = Cardinality(S) - 1
        BY <4>1, <4>2, <1>1, FS_RemoveElement
      <4>4. Cardinality(U) <= n
        BY <4>3, <2>2, <1>1
      <4>5. sum[U] = SumOf(sum, U)
        BY <4>4, <2>1
      <4>6. next[U] = sum[U]
        BY <4>5
      <4>. QED
        BY <4>2, <4>6, <3>2 DEF SumOf
    <3>. QED
      BY <3>1, <3>2
  <2>3. UpTo(n + 1)
    <3>. HIDE DEF next
    <3>. QED
      BY <2>2
  <2>. QED
    BY <2>3
<1>4. Cardinality(R) \in T
  <2>. HIDE DEF T
  <2>1. Nat \subseteq T
    BY <1>2, <1>3, Counting
  <2>. QED
    BY <2>1, <1>1
<1>5. \E sum : Right(sum)
  <2>1. PICK sum : \A S \in SUBSET R : Cardinality(S) <= Cardinality(R) => sum[S] = SumOf(sum, S)
    BY <1>4
  <2>2. \A S \in SUBSET R : Cardinality(S) <= Cardinality(R)
    BY <1>1, FS_Subset
  <2> DEFINE g == [S \in SUBSET R |-> SumOf(sum, S)]
  <2>3. \A S \in SUBSET R : g[S] = sum[S]
    BY <2>1, <2>2
  <2>4. \A S \in SUBSET R : SumOf(g, S) = SumOf(sum, S)
    <3>1. ASSUME NEW S \in SUBSET R PROVE S \ {OneOf(S)} \in SUBSET R
      OBVIOUS
    <3>. HIDE DEF g
    <3>. QED
      BY <3>1, <2>3 DEF SumOf
  <2>5. g = [S \in SUBSET R |-> SumOf(g, S)]
    <3>1. \A S \in SUBSET R : g[S] = SumOf(g, S)
      BY <2>4
    <3>. QED
      BY <2>4
  <2>. QED
    BY <2>5
<1>6. VgpuUsed(R) = (CHOOSE sum : Right(sum))[R]
  BY DEF VgpuUsed, MapThenSumSet, MapThenFoldSet, SumOf, OneOf
<1>7. Right(CHOOSE sum : Right(sum))
  <2>. HIDE DEF Right
  <2>. QED
    BY <1>5
<1>8. PICK sum : Right(sum) /\ VgpuUsed(R) = sum[R]
  BY <1>6, <1>7
<1>9. \A S \in SUBSET R : sum[S] = SumOf(sum, S)
  BY <1>8
<1>. QED
  BY <1>8, <1>9

(* It is a number, ...                                                     *)
LEMMA VgpuUsedType ==
    ASSUME NEW R, R \subseteq AnyDevice
    PROVE  VgpuUsed(R) \in Nat
<1>1. PICK sum : VgpuUsed(R) = sum[R] /\ \A S \in SUBSET R : sum[S] = SumOf(sum, S)
  BY VgpuUsedAddsUp
<1> DEFINE Typed(n) == \A S \in SUBSET R : Cardinality(S) = n => sum[S] \in Nat
           T == {n \in Nat : Typed(n)}
<1>2. \A S \in SUBSET R : IsFiniteSet(S) /\ Cardinality(S) \in Nat
  BY FiniteDevices, FS_CardinalityType
<1>3. \A r : Cardinality(Charged(r)) \in Nat
  BY FinitePairs DEF Charged, Pairs
<1>4. 0 \in T
  <2>1. \A S \in SUBSET R : Cardinality(S) = 0 => sum[S] \in Nat
    BY <1>1, <1>2, FS_EmptySet DEF SumOf
  <2>. QED
    BY <2>1
<1>5. ASSUME NEW n \in Nat, n \in T PROVE n + 1 \in T
  <2>1. ASSUME NEW S \in SUBSET R, Cardinality(S) = n + 1 PROVE sum[S] \in Nat
    <3>1. S # {} /\ OneOf(S) \in S
      BY <2>1, <1>2, FS_EmptySet DEF OneOf
    <3>2. PICK U \in SUBSET R : U = S \ {OneOf(S)}
      OBVIOUS
    <3>3. Cardinality(U) = n
      BY <3>1, <3>2, <2>1, <1>2, FS_RemoveElement
    <3>4. sum[U] \in Nat
      BY <3>3, <1>5
    <3>5. sum[S] = Cardinality(Charged(OneOf(S))) + sum[U]
      BY <3>1, <3>2, <1>1 DEF SumOf
    <3>. QED
      BY <3>4, <3>5, <1>3
  <2>. QED
    BY <2>1
<1>6. Cardinality(R) \in T
  <2>. HIDE DEF T
  <2>1. Nat \subseteq T
    BY <1>4, <1>5, Counting
  <2>. QED
    BY <2>1, <1>2
<1>. QED
  BY <1>1, <1>6

(* ... the number of uses of the devices, if each is charged with its own. *)
LEMMA VgpuUsedCounts ==
    ASSUME NEW R, R \subseteq AnyDevice,
           \A r \in R : Charged(r) = On(r.card),
           \A r, t \in R : r.card = t.card => r = t
    PROVE  VgpuUsed(R) = Cardinality({p \in Pairs : \E r \in R : p[2] = r.card})
<1>1. PICK sum : VgpuUsed(R) = sum[R] /\ \A S \in SUBSET R : sum[S] = SumOf(sum, S)
  BY VgpuUsedAddsUp
<1> DEFINE Held(S) == {p \in Pairs : \E r \in S : p[2] = r.card}
           Exact(n) == \A S \in SUBSET R : Cardinality(S) = n => sum[S] = Cardinality(Held(S))
           T == {n \in Nat : Exact(n)}
<1>2. \A S \in SUBSET R : IsFiniteSet(S) /\ Cardinality(S) \in Nat
  BY FiniteDevices, FS_CardinalityType
<1>3. \A S : IsFiniteSet(Held(S)) /\ Cardinality(Held(S)) \in Nat
  BY FinitePairs DEF Pairs
<1>4. 0 \in T
  <2>1. ASSUME NEW S \in SUBSET R, Cardinality(S) = 0 PROVE sum[S] = Cardinality(Held(S))
    <3>1. S = {}
      BY <2>1, <1>2, FS_EmptySet
    <3>2. Held(S) = {}
      BY <3>1
    <3>. QED
      BY <3>1, <3>2, <1>1, FS_EmptySet DEF SumOf
  <2>. QED
    BY <2>1
<1>5. ASSUME NEW n \in Nat, n \in T PROVE n + 1 \in T
  <2>1. ASSUME NEW S \in SUBSET R, Cardinality(S) = n + 1 PROVE sum[S] = Cardinality(Held(S))
    <3>1. S # {} /\ OneOf(S) \in S
      BY <2>1, <1>2, FS_EmptySet DEF OneOf
    <3>2. PICK r \in S, U \in SUBSET R : r = OneOf(S) /\ U = S \ {r}
      BY <3>1
    <3>3. Cardinality(U) = n
      <4>1. Cardinality(S \ {r}) = Cardinality(S) - 1
        BY <1>2, FS_RemoveElement
      <4>. QED
        BY <4>1, <3>2, <2>1
    <3>4. sum[U] = Cardinality(Held(U))
      BY <3>3, <1>5
    <3>5. sum[S] = Cardinality(On(r.card)) + sum[U]
      BY <3>1, <3>2, <1>1 DEF SumOf
    <3>6. Held(S) = On(r.card) \cup Held(U)
      BY <3>2 DEF On
    <3>7. On(r.card) \cap Held(U) = {}
      <4>1. ASSUME NEW t \in U, t.card = r.card PROVE FALSE
        BY <4>1, <3>2
      <4>. QED
        BY <4>1 DEF On
    <3>8. IsFiniteSet(On(r.card)) /\ Cardinality(On(r.card)) \in Nat
      BY FinitePairs DEF On, Pairs
    <3>. HIDE DEF Held
    <3>9. Cardinality(Held(S)) = Cardinality(On(r.card)) + Cardinality(Held(U)) - 0
      BY <3>6, <3>7, <3>8, <1>3, FS_Union, FS_EmptySet
    <3>. QED
      BY <3>4, <3>5, <3>8, <3>9, <1>3
  <2>. QED
    BY <2>1
<1>6. Cardinality(R) \in T
  <2>. HIDE DEF T
  <2>1. Nat \subseteq T
    BY <1>4, <1>5, Counting
  <2>. QED
    BY <2>1, <1>2
<1>. QED
  BY <1>1, <1>6

-----------------------------------------------------------------------------
(* What the node repository publishes lists a card once.                   *)
LEMMA SnapshotDevices ==
    ASSUME NEW snapshot \in Snapshots
    PROVE  /\ snapshot \subseteq AnyDevice
           /\ \A r, t \in snapshot : r.card = t.card => r = t
<1>1. PICK nodes \in SUBSET Node, known \in Reports : snapshot = Snapshot(nodes, known)
  BY DEF Snapshots
<1>2. ASSUME NEW r \in snapshot
      PROVE  \E c \in Card, b \in BOOLEAN : r = Device(c, b) /\ b = (c \in known)
  <2>1. PICK c \in Card : r = Device(c, c \in known)
    BY <1>1 DEF Snapshot
  <2>2. (c \in known) \in BOOLEAN
    OBVIOUS
  <2>. QED
    BY <2>1, <2>2, Zenon
<1>3. ASSUME NEW c, NEW b PROVE Device(c, b).card = c
  BY DEF Device
<1>4. ASSUME NEW r \in snapshot PROVE r \in AnyDevice
  BY <1>2 DEF AnyDevice
<1>5. ASSUME NEW r \in snapshot, NEW t \in snapshot, r.card = t.card PROVE r = t
  <2>1. PICK c \in Card, b \in BOOLEAN : r = Device(c, b) /\ b = (c \in known)
    BY <1>2
  <2>2. PICK d \in Card, a \in BOOLEAN : t = Device(d, a) /\ a = (d \in known)
    BY <1>2
  <2>3. c = d
    BY <2>1, <2>2, <1>3, <1>5
  <2>4. a = b
    BY <2>1, <2>2, <2>3, Zenon
  <2>. QED
    BY <2>1, <2>2, <2>3, <2>4
<1>. QED
  BY <1>4, <1>5

(* The repositories and what a request has gathered have their types.      *)
LEMMA Typed == Spec => [](TypeOK /\ OneEach /\ Gathered)
<1>1. Init => TypeOK /\ OneEach /\ Gathered
  <2>1. SUFFICES ASSUME Init PROVE TypeOK /\ OneEach /\ Gathered
    OBVIOUS
  <2>2. {} \in Assignable
    <3>1. MaxUse \in Nat
      BY AccountingAssumption, Zenon
    <3>. QED
      BY <3>1, FS_EmptySet DEF Assignable
  <2>3. quiet \in BOOLEAN
    BY <2>1 DEF Init
  <2>4. DOMAIN used = {}
    BY <2>1 DEF Init
  <2>5. TypeOK
    BY <2>1, <2>2, <2>3, <2>4 DEF Init, TypeOK
  <2>. QED
    BY <2>1, <2>4, <2>5 DEF Init, OneEach, Gathered
<1>2. TypeOK /\ OneEach /\ Gathered /\ [Next]_vars => (TypeOK /\ OneEach /\ Gathered)'
  <2>1. SUFFICES ASSUME TypeOK, OneEach, Gathered, [Next]_vars
                 PROVE  TypeOK' /\ OneEach' /\ Gathered'
    OBVIOUS
  <2>2. CASE UNCHANGED vars
    BY <2>1, <2>2 DEF TypeOK, OneEach, Gathered, vars, repos, reply
  <2>3. ASSUME NEW snapshot \in Snapshots, Publish(snapshot) PROVE TypeOK' /\ OneEach' /\ Gathered'
    <3>1. quiet' \in BOOLEAN
      BY <2>3 DEF Publish
    <3>2. devices' = snapshot /\ UNCHANGED <<containers, pc, rows, used, scope, total, todo, found>>
      BY <2>3 DEF Publish, reply
    <3>. QED
      BY <3>1, <3>2, <2>1, SnapshotDevices DEF TypeOK, OneEach, Gathered
  <2>4. ASSUME NEW x \in Container, NEW S \in Assignable, PodEvent(x, S)
        PROVE  TypeOK' /\ OneEach' /\ Gathered'
    <3>1. quiet' \in BOOLEAN
      BY <2>4 DEF PodEvent
    <3>2. /\ containers' = [containers EXCEPT ![x] = S]
          /\ UNCHANGED <<devices, pc, rows, used, scope, total, todo, found>>
      BY <2>4 DEF PodEvent, reply
    <3>. QED
      BY <3>1, <3>2, <2>1 DEF TypeOK, OneEach, Gathered
  <2>5. CASE ListCards
    BY <2>1, <2>5 DEF ListCards, TypeOK, OneEach, Gathered, repos
  <2>6. CASE CountCards
    <3>1. \A r : Cardinality(Charged(r)) \in Nat
      BY FinitePairs DEF Charged, Pairs
    <3>2. /\ used' = [r \in rows |-> Cardinality(Charged(r))]
          /\ pc' = "cardList" /\ pc = "cards"
          /\ UNCHANGED <<devices, containers, rows, scope, total, todo, found, quiet>>
      BY <2>6 DEF CountCards, repos
    <3>. QED
      BY <3>1, <3>2, <2>1 DEF TypeOK, OneEach, Gathered
  <2>7. ASSUME NEW n \in Node, ListSummary(n) PROVE TypeOK' /\ OneEach' /\ Gathered'
    BY <2>1, <2>7 DEF ListSummary, TypeOK, OneEach, Gathered, repos
  <2>8. CASE CountSummary
    <3>1. PICK R : R = {r \in rows : InScope(r)}
      OBVIOUS
    <3>2. VgpuUsed(R) \in Nat
      BY <3>1, <2>1, VgpuUsedType DEF TypeOK
    <3>3. /\ pc = "summary" /\ pc' = "summed" /\ rows' = R /\ total' = VgpuUsed(R)
          /\ UNCHANGED <<devices, containers, used, scope, todo, found, quiet>>
      BY <3>1, <2>8 DEF CountSummary, repos
    <3>4. DOMAIN used = {}
      BY <3>3, <2>1 DEF Gathered
    <3>. QED
      BY <3>1, <3>2, <3>3, <3>4, <2>1 DEF TypeOK, OneEach, Gathered
  <2>9. ASSUME NEW r \in AnyDevice, OpenCard(r) PROVE TypeOK' /\ OneEach' /\ Gathered'
    <3>1. Pairs \subseteq Container \X Card
      BY DEF Pairs
    <3>. QED
      BY <3>1, <2>1, <2>9 DEF OpenCard, TypeOK, OneEach, Gathered, repos
  <2>10. ASSUME NEW p \in Container \X Card, Resolve(p) PROVE TypeOK' /\ OneEach' /\ Gathered'
    <3>1. PICK id : found' = found \cup {<<p[1], p[2], id>>} \/ found' = found
      BY <2>10 DEF Resolve
    <3>2. /\ pc = "tasks" /\ todo' = todo \ {p}
          /\ UNCHANGED <<devices, containers, pc, rows, used, scope, total, quiet>>
      BY <2>10 DEF Resolve, repos
    <3>3. ASSUME NEW f \in found' PROVE f[1] \in Container /\ f[2] \in Card
      <4>1. CASE f \in found
        BY <4>1, <2>1 DEF TypeOK
      <4>2. CASE f = <<p[1], p[2], id>>
        BY <4>2
      <4>. QED
        BY <4>1, <4>2, <3>1
    <3>. QED
      BY <3>2, <3>3, <2>1 DEF TypeOK, OneEach, Gathered
  <2>11. CASE TasksDone
    BY <2>1, <2>11 DEF TasksDone, TypeOK, OneEach, Gathered, repos, reply
  <2>12. CASE Leave
    BY <2>1, <2>12 DEF Leave, TypeOK, OneEach, Gathered, repos
  <2>. QED
    BY <2>1, <2>2, <2>3, <2>4, <2>5, <2>6, <2>7, <2>8, <2>9, <2>10, <2>11, <2>12
       DEF Next, Environment, Services
<1>. QED
  BY <1>1, <1>2, PTL DEF Spec

(* The state of the repositories and of a request has its type.            *)
THEOREM TypeCorrect == Spec => []TypeOK
BY Typed, PTL

(* However snapshots change between two devices of one answer, it never    *)
(* gives a container the id of a device it is not on.                      *)
THEOREM TasksNamed == Spec => []TasksNameTheirCards
<1>1. Init => TasksNameTheirCards
  BY DEF Init, TasksNameTheirCards
<1>2. TypeOK /\ TasksNameTheirCards /\ [Next]_vars => TasksNameTheirCards'
  <2>1. SUFFICES ASSUME TypeOK, TasksNameTheirCards, [Next]_vars PROVE TasksNameTheirCards'
    OBVIOUS
  <2>2. CASE found' = found \/ found' = {}
    BY <2>1, <2>2 DEF TasksNameTheirCards
  <2>3. ASSUME NEW p \in Container \X Card, Resolve(p) PROVE TasksNameTheirCards'
    <3>1. PICK id \in IF Resolved(p[2]) = {} THEN {UUID(p[2])} ELSE Resolved(p[2]) :
              found' = found \cup {<<p[1], p[2], id>>} \/ found' = found
      BY <2>3 DEF Resolve
    <3>2. id = UUID(p[2]) \/ \E b \in BOOLEAN : id = Id(p[2], b)
      <4>1. CASE Resolved(p[2]) = {}
        BY <3>1, <4>1
      <4>2. CASE Resolved(p[2]) # {}
        <5>1. PICK d \in devices : d.alias = UUID(p[2]) /\ d.id = id
          BY <3>1, <4>2 DEF Resolved
        <5>2. PICK b \in BOOLEAN : d.card \in Card /\ d.id = Id(d.card, b) /\ d.alias = Alias(d.card, b)
          BY <2>1, DeviceParts DEF TypeOK
        <5>3. d.card = p[2]
          BY <5>1, <5>2, AliasOfOne
        <5>. QED
          BY <5>1, <5>2, <5>3
      <4>. QED
        BY <4>1, <4>2
    <3>3. ASSUME NEW f \in found'
          PROVE  f[3] = UUID(f[2]) \/ \E b \in BOOLEAN : f[3] = Id(f[2], b)
      <4>1. CASE f \in found
        BY <4>1, <2>1 DEF TasksNameTheirCards
      <4>2. CASE f = <<p[1], p[2], id>>
        <5>1. f[2] = p[2] /\ f[3] = id
          BY <4>2
        <5>. QED
          BY <5>1, <3>2
      <4>. QED
        BY <3>1, <4>1, <4>2
    <3>. QED
      BY <3>3 DEF TasksNameTheirCards
  <2>. QED
    BY <2>1, <2>2, <2>3
       DEF Next, Environment, Services, Publish, PodEvent, ListCards, CountCards, ListSummary,
           CountSummary, OpenCard, TasksDone, Leave, reply, vars
<1>. QED
  BY <1>1, <1>2, Typed, PTL DEF Spec

(* While nothing changes, the answer is about the repositories as they are.*)
LEMMA AnswersCurrent == Spec => []Current
<1>1. Init => Current
  BY DEF Init, Current
<1>2. TypeOK /\ OneEach /\ Gathered /\ Current /\ [Next]_vars => Current'
  <2>1. SUFFICES ASSUME TypeOK, OneEach, Gathered, Current, [Next]_vars, quiet' PROVE Current'
    BY DEF Current
  <2>2. CASE UNCHANGED vars
    BY <2>1, <2>2 DEF Current, vars, repos, reply, Charged, Pairs, On, Dark
  <2>3. ASSUME NEW snapshot \in Snapshots, Publish(snapshot) PROVE Current'
    BY <2>1, <2>3 DEF Publish
  <2>4. ASSUME NEW x \in Container, NEW S \in Assignable, PodEvent(x, S) PROVE Current'
    BY <2>1, <2>4 DEF PodEvent
  <2>5. CASE ListCards
    BY <2>5 DEF ListCards, repos, Current
  <2>6. CASE CountCards
    <3>1. rows = devices
      BY <2>1, <2>6 DEF CountCards, Current
    <3>2. /\ used' = [r \in rows |-> Cardinality(Charged(r))] /\ pc' = "cardList"
          /\ rows' = rows /\ devices' = devices /\ containers' = containers
      BY <2>6 DEF CountCards, repos
    <3>3. ASSUME NEW r \in rows' PROVE used'[r] = Cardinality(Charged(r)')
      BY <3>2 DEF Charged, Pairs
    <3>. QED
      BY <3>1, <3>2, <3>3 DEF Current
  <2>7. ASSUME NEW n \in Node, ListSummary(n) PROVE Current'
    BY <2>7 DEF ListSummary, repos, Current
  <2>8. CASE CountSummary
    BY <2>8 DEF CountSummary, Current
  <2>9. ASSUME NEW r \in AnyDevice, OpenCard(r) PROVE Current'
    <3>1. /\ r \in devices /\ found = {} /\ pc' = "tasks" /\ rows' = {r}
          /\ todo' = Pairs /\ found' = found /\ devices' = devices /\ containers' = containers
      BY <2>1, <2>9 DEF OpenCard, repos, Current, Gathered
    <3>2. Pairs' = Pairs /\ On(r.card)' \subseteq Pairs
      BY <3>1 DEF Pairs, On
    <3>. QED
      BY <3>1, <3>2 DEF Current
  <2>10. ASSUME NEW p \in Container \X Card, Resolve(p) PROVE Current'
    <3>1. /\ pc = "tasks" /\ p \in todo /\ todo' = todo \ {p}
          /\ UNCHANGED <<devices, containers, pc, rows, used, scope, total, quiet>>
      BY <2>10 DEF Resolve, repos
    <3>2. PICK r \in AnyDevice : rows = {r}
      BY <2>1, <3>1 DEF Gathered
    <3>3. /\ r \in devices /\ p \in Pairs /\ todo \subseteq Pairs
          /\ {<<f[1], f[2]>> : f \in found} = IF Dark(r) THEN {} ELSE On(r.card) \ todo
      BY <2>1, <3>1, <3>2 DEF Current
    <3>4. PICK id \in IF Resolved(p[2]) = {} THEN {UUID(p[2])} ELSE Resolved(p[2]) :
              found' = IF HasPrefix(id, r.id) THEN found \cup {<<p[1], p[2], id>>} ELSE found
      BY <2>10, <3>2 DEF Resolve
    <3>5. HasPrefix(id, r.id) <=> p[2] = r.card /\ ~Dark(r)
      BY <2>1, <3>3, <3>4, FoundOnItsCard DEF TypeOK
    <3>6. p = <<p[1], p[2]>>
      OBVIOUS
    <3>7. {<<f[1], f[2]>> : f \in found'} = IF Dark(r) THEN {} ELSE On(r.card) \ todo'
      <4>1. CASE HasPrefix(id, r.id)
        <5>1. found' = found \cup {<<p[1], p[2], id>>} /\ ~Dark(r) /\ p[2] = r.card
          BY <3>4, <3>5, <4>1
        <5>2. {<<f[1], f[2]>> : f \in found'} = {<<f[1], f[2]>> : f \in found} \cup {p}
          <6>1. ASSUME NEW f \in found' PROVE f \in found \/ <<f[1], f[2]>> = p
            <7>1. CASE f = <<p[1], p[2], id>>
              BY <7>1, <3>6
            <7>. QED
              BY <5>1, <7>1
          <6>2. \E f \in found' : <<f[1], f[2]>> = p
            <7>1. <<p[1], p[2], id>> \in found'
              BY <5>1
            <7>2. <<p[1], p[2], id>>[1] = p[1] /\ <<p[1], p[2], id>>[2] = p[2]
              OBVIOUS
            <7>. QED
              BY <7>1, <7>2, <3>6
          <6>3. found \subseteq found'
            BY <5>1
          <6>. QED
            BY <6>1, <6>2, <6>3
        <5>3. On(r.card) \ todo' = (On(r.card) \ todo) \cup {p}
          BY <5>1, <3>1, <3>3 DEF On
        <5>. QED
          BY <5>1, <5>2, <5>3, <3>3
      <4>2. CASE ~HasPrefix(id, r.id)
        <5>1. found' = found /\ (Dark(r) \/ p[2] # r.card)
          BY <3>4, <3>5, <4>2
        <5>2. CASE Dark(r)
          BY <5>1, <5>2, <3>3
        <5>3. CASE p[2] # r.card
          <6>1. On(r.card) \ todo' = On(r.card) \ todo
            BY <5>3, <3>1 DEF On
          <6>. QED
            BY <5>1, <6>1, <3>3
        <5>. QED
          BY <5>1, <5>2, <5>3
      <4>. QED
        BY <4>1, <4>2
    <3>8. /\ Pairs' = Pairs /\ rows' = {r} /\ devices' = devices /\ pc' = "tasks"
          /\ Dark(r)' = Dark(r) /\ On(r.card)' = On(r.card)
      BY <3>1, <3>2 DEF Pairs, On, Dark
    <3>9. todo' \subseteq Pairs'
      BY <3>1, <3>3, <3>8
    <3>10. ASSUME NEW t \in rows'
           PROVE  {<<f[1], f[2]>> : f \in found'} = IF Dark(t)' THEN {} ELSE On(t.card)' \ todo'
      BY <3>7, <3>8 DEF Dark, On
    <3>. QED
      BY <3>3, <3>8, <3>9, <3>10 DEF Current
  <2>11. CASE TasksDone
    BY <2>1, <2>11 DEF TasksDone, repos, reply, Current, Pairs, On, Dark
  <2>12. CASE Leave
    BY <2>12 DEF Leave, Current
  <2>. QED
    BY <2>1, <2>2, <2>3, <2>4, <2>5, <2>6, <2>7, <2>8, <2>9, <2>10, <2>11, <2>12
       DEF Next, Environment, Services
<1>. QED
  BY <1>1, <1>2, Typed, PTL DEF Spec

(* The tasks of a card are those on it, whatever the card list said of its *)
(* usage, if nothing changed meanwhile: the exact match of an alias and    *)
(* the prefix match of an id together single the card out.                 *)
THEOREM TasksOfTheCard == Spec => []DrillDownExact
<1>1. Gathered /\ Current => DrillDownExact
  BY DEF Gathered, Current, DrillDownExact
<1>. QED
  BY <1>1, Typed, AnswersCurrent, PTL

(* The card list charges a device too much only if it has no alias or an   *)
(* ambiguous one, and too little only if it is dark.                       *)
THEOREM CardsCounted == Spec => []CardsExact
<1>1. TypeOK /\ Current => CardsExact
  <2>1. SUFFICES ASSUME TypeOK, Current, pc = "cardList", quiet, NEW r \in rows
                 PROVE  /\ used[r] > Cardinality(On(r.card)) => Unaliased(r) \/ Ambiguous(r)
                        /\ used[r] < Cardinality(On(r.card)) => Dark(r)
    BY DEF CardsExact
  <2>2. used[r] = Cardinality(Charged(r)) /\ r \in AnyDevice
    BY <2>1 DEF Current, TypeOK
  <2>3. /\ IsFiniteSet(Charged(r)) /\ Cardinality(Charged(r)) \in Nat
        /\ IsFiniteSet(On(r.card)) /\ Cardinality(On(r.card)) \in Nat
    BY FinitePairs DEF Charged, On, Pairs
  <2>4. Charged(r) \subseteq On(r.card) \/ Ambiguous(r)
    <3>1. SUFFICES ASSUME NEW p \in Charged(r), p \notin On(r.card) PROVE Ambiguous(r)
      OBVIOUS
    <3>2. p[2] \in Card \ {r.card} /\ HasPrefix(UUID(p[2]), r.alias)
      BY <3>1 DEF Charged, On, Pairs
    <3>. QED
      BY <3>2 DEF Ambiguous
  <2>5. On(r.card) \subseteq Charged(r) \/ Dark(r)
    BY <2>2, OwnCharge DEF On, Charged
  <2>6. Charged(r) \subseteq On(r.card) => Cardinality(Charged(r)) <= Cardinality(On(r.card))
    BY <2>3, FS_Subset
  <2>7. On(r.card) \subseteq Charged(r) => Cardinality(On(r.card)) <= Cardinality(Charged(r))
    BY <2>3, FS_Subset
  <2>. QED
    BY <2>2, <2>3, <2>4, <2>5, <2>6, <2>7
<1>. QED
  BY <1>1, Typed, AnswersCurrent, PTL

(* A node's summary is the number of uses of its devices, if each of those *)
(* listed can be told and nothing changed meanwhile.                       *)
THEOREM TotalsCounted == Spec => []TotalsExact
<1>1. Init => TotalsExact
  BY DEF Init, TotalsExact
<1>2. TypeOK /\ OneEach /\ Current /\ TotalsExact /\ [Next]_vars => TotalsExact'
  <2>1. SUFFICES ASSUME TypeOK, OneEach, Current, TotalsExact, [Next]_vars
                 PROVE  TotalsExact'
    OBVIOUS
  <2>2. CASE pc' # "summed" \/ ~quiet'
    BY <2>2 DEF TotalsExact
  <2>3. CASE UNCHANGED vars
    BY <2>1, <2>3 DEF TotalsExact, vars, repos, reply, Pairs, Unaliased, Ambiguous, Dark
  <2>4. CASE CountSummary
    <3>1. /\ pc = "summary" /\ rows' = {r \in rows : InScope(r)} /\ total' = VgpuUsed(rows')
          /\ UNCHANGED <<devices, containers, scope, quiet>>
      BY <2>4 DEF CountSummary, repos
    <3>2. SUFFICES ASSUME quiet, \A r \in rows' : ~Unaliased(r) /\ ~Ambiguous(r) /\ ~Dark(r)
                   PROVE  total' = Cardinality({p \in Pairs : \E r \in devices :
                                                   r.card = p[2] /\ p[2].node = scope})
      <4>1. Pairs' = Pairs
        BY <3>1 DEF Pairs
      <4>. QED
        BY <3>1, <3>2, <4>1 DEF TotalsExact, Unaliased, Ambiguous, Dark
    <3>3. PICK R : R = rows'
      OBVIOUS
    <3>4. R = {r \in devices : r.card.node = scope}
      BY <2>1, <3>1, <3>2, <3>3 DEF Current, InScope
    <3>5. R \subseteq AnyDevice /\ \A r, t \in R : r.card = t.card => r = t
      BY <2>1, <3>4 DEF TypeOK, OneEach
    <3>6. ASSUME NEW r \in R PROVE Charged(r) = On(r.card)
      <4>1. /\ ~Ambiguous(r) /\ HasPrefix(UUID(r.card), r.alias)
        BY <3>2, <3>3, <3>5, OwnCharge
      <4>2. ASSUME NEW p \in Pairs PROVE HasPrefix(UUID(p[2]), r.alias) <=> p[2] = r.card
        BY <4>1, <4>2 DEF Ambiguous, Pairs
      <4>. QED
        BY <4>2 DEF Charged, On
    <3>7. VgpuUsed(R) = Cardinality({p \in Pairs : \E r \in R : p[2] = r.card})
      BY <3>5, <3>6, VgpuUsedCounts
    <3>8. {p \in Pairs : \E r \in R : p[2] = r.card}
              = {p \in Pairs : \E r \in devices : r.card = p[2] /\ p[2].node = scope}
      BY <3>4
    <3>. QED
      BY <3>1, <3>3, <3>7, <3>8
  <2>. QED
    BY <2>1, <2>2, <2>3, <2>4
       DEF Next, Environment, Services, Publish, PodEvent, ListCards, CountCards, ListSummary,
           OpenCard, Resolve, TasksDone, Leave
<1>. QED
  BY <1>1, <1>2, Typed, AnswersCurrent, PTL DEF Spec

=============================================================================
