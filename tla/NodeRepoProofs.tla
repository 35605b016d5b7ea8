--------------------------- MODULE NodeRepoProofs ---------------------------
(* Proofs about the node repository, for every set of nodes, list of       *)
(* providers, labelling and bound.                                         *)
EXTENDS NodeRepo, FiniteSetTheorems, TLAPS

(* Devices are devices, and Order lists providers.                         *)
LEMMA DevicesType ==
    ASSUME NEW p \in Provider, NEW k \in Nat
    PROVE  /\ Devices(p, k) \subseteq Device
           /\ Devices(p, k) # {} => <<p, k>> \in Device
<1>1. \A i \in 1..k : i \in Nat \ {0} /\ k >= 1
  OBVIOUS
<1>. QED
  BY <1>1 DEF Devices, Device

(* A provider in the order is a provider.                                  *)
LEMMA OrderType ==
    ASSUME NEW i \in 1..Len(Order)
    PROVE  Order[i] \in Provider /\ Order[i] \in InOrder
BY NodeRepoAssumption DEF InOrder

(* A node of one vendor in the order has the devices of that vendor.       *)
LEMMA TruthOfOneVendor ==
    ASSUME NEW n \in Node, OneVendor(n), NEW p \in Labelled[n] \cap InOrder
    PROVE  Truth(n) = Devices(p, count[n][p])
<1>1. Labelled[n] \cap InOrder = {p}
  BY DEF OneVendor
<1>. QED
  BY <1>1 DEF Truth

(* The maps of the code stay maps of nodes.                                *)
LEMMA PartialMaps ==
    /\ \A S : IsPartial(Empty, S)
    /\ \A S, f, n : IsPartial(f, S) => IsPartial(Without(f, n), S)
    /\ \A S, f, v : \A n \in Node : IsPartial(f, S) /\ v \in S => IsPartial(With(f, n, v), S)
BY DEF IsPartial, Empty, Without, With

(* The maps hold devices of nodes, the counters and flags have their       *)
(* types, and a provider is visited only while there is one.               *)
LEMMA Typed == Spec => [](TypeOK /\ ListedInVisit)
<1>. USE DEF TypeOK, ListedInVisit
<1>1. Init => TypeOK /\ ListedInVisit
  <2> SUFFICES ASSUME Init
               PROVE  TypeOK /\ ListedInVisit
    OBVIOUS
  <2>1. pending \in Nat
    BY NodeRepoAssumption, FS_Subset, FS_CardinalityType DEF Init
  <2>2. promDown \in BOOLEAN
    BY DEF Init
  <2>3. step \in 1..(Len(Order) + 1)
    BY NodeRepoAssumption DEF Init
  <2>4. DOMAIN listed = {}
    BY DEF Init, Empty
  <2>. QED
    BY <2>1, <2>2, <2>3, <2>4, PartialMaps DEF Init
<1>2. TypeOK /\ ListedInVisit /\ [Next]_vars => TypeOK' /\ ListedInVisit'
  <2> SUFFICES ASSUME TypeOK, ListedInVisit, [Next]_vars
               PROVE  TypeOK' /\ ListedInVisit'
    OBVIOUS
  <2>a. Len(Order) \in Nat
    BY NodeRepoAssumption
  <2> USE DEF store, updater, history, vars
  <2>1. ASSUME NEW n \in Node, NEW there \in BOOLEAN, NEW c \in CountsOf(n),
               NodeEvent(n, there, c)
        PROVE  TypeOK' /\ ListedInVisit'
    BY <2>1 DEF NodeEvent, CountsOf, IsPartial
  <2>2. ASSUME NEW n \in Node, NodeEvent(n, FALSE, count[n])
        PROVE  TypeOK' /\ ListedInVisit'
    BY <2>2 DEF NodeEvent, IsPartial
  <2>3. CASE Outage \/ Resync
    <3>1. promDown' \in BOOLEAN
      BY <2>3, Zenon DEF Outage, Resync
    <3>. QED
      BY <2>3, <3>1 DEF Outage, Resync, IsPartial
  <2>4. CASE Handler
    BY <2>4 DEF Handler, IsPartial
  <2>5. CASE Receive
    <3>1. IsPartial(building', SUBSET Device)
      BY <2>5, PartialMaps DEF Receive
    <3>2. notify' \in BOOLEAN
      BY <2>5, Zenon DEF Receive
    <3>. QED
      BY <2>5, <2>a, <3>1, <3>2 DEF Receive, IsPartial
  <2>6. CASE ListNodes
    <3>1. IsPartial(listed', Counts)
      BY <2>6 DEF ListNodes, IsPartial
    <3>. QED
      BY <2>6, <2>a, <3>1 DEF ListNodes, IsPartial
  <2>7. ASSUME NEW n \in Node, Visit(n)
        PROVE  TypeOK' /\ ListedInVisit'
    <3> DEFINE p     == Order[step]
               found == Fetched(p, listed[n])
               kept  == IF found = {} THEN building[n] ELSE {<<p, listed[n][p]>>}
               added == IF n \in DOMAIN building THEN kept ELSE found
    <3>1. /\ n \in DOMAIN listed /\ p \in Provider
          /\ building' = With(building, n, added)
          /\ listed' = Without(listed, n)
      BY <2>7, OrderType DEF Visit
    <3>2. listed[n][p] \in Nat
      <4>1. listed[n] \in [Provider -> Sizes \cup {0}]
        BY <3>1 DEF IsPartial, Counts
      <4> HIDE DEF p
      <4>2. listed[n][p] \in Sizes \cup {0}
        BY <3>1, <4>1
      <4>3. Sizes \cup {0} \subseteq Nat
        BY NodeRepoAssumption
      <4>. QED
        BY <4>2, <4>3
    <3>3. found \subseteq Device /\ (found # {} => <<p, listed[n][p]>> \in Device)
      BY <3>1, <3>2, DevicesType DEF Fetched
    <3> HIDE DEF p, found
    <3>4. added \in SUBSET Device
      BY <3>3 DEF IsPartial
    <3> HIDE DEF added
    <3>5. IsPartial(building', SUBSET Device) /\ IsPartial(listed', Counts)
      BY <3>1, <3>4, PartialMaps
    <3>. QED
      BY <2>7, <3>5 DEF Visit, IsPartial
  <2>8. CASE NextProvider
    BY <2>8, <2>a DEF NextProvider, IsPartial
  <2>9. CASE Publish
    <3>1. IsPartial(building', SUBSET Device) /\ IsPartial(nodes', SUBSET Device)
      BY <2>9, PartialMaps DEF Publish
    <3>. QED
      BY <2>9, <2>a, <3>1 DEF Publish, IsPartial
  <2>10. CASE UNCHANGED vars
    BY <2>10 DEF IsPartial
  <2>. QED
    BY <2>1, <2>2, <2>3, <2>4, <2>5, <2>6, <2>7, <2>8, <2>9, <2>10
    DEF Next, Environment, Update
<1>. QED
  BY <1>1, <1>2, PTL DEF Spec

(* The same for the type invariant alone.                                  *)
THEOREM TypeCorrect == Spec => []TypeOK
BY Typed, PTL

-----------------------------------------------------------------------------

(* What an untouched node shows in the rebuild is what it has: the         *)
(* invariant behind SteadyNodesExact.                                      *)
LEMMA Rebuilding == Spec => []RebuildExact
<1>1. Init => RebuildExact
  BY DEF Init, RebuildExact
<1>2. TypeOK /\ ListedInVisit /\ RebuildExact /\ [Next]_vars => RebuildExact'
  <2> SUFFICES ASSUME TypeOK, ListedInVisit, RebuildExact, [Next]_vars,
                      pc' \in {"list", "visit"},
                      NEW m \in untouched'
               PROVE  /\ m \in DOMAIN listed' =>
                           Order[step'] \in Labelled[m] /\ listed'[m] = count'[m]
                      /\ m \in DOMAIN building' <=> Added(m)'
                      /\ (m \in DOMAIN building' /\ OneVendor(m)
                           /\ Labelled[m] \cap PromProvider = {})
                           => building'[m] = Truth(m)'
    BY DEF RebuildExact, OneVendor
  <2> DEFINE Goal == /\ m \in DOMAIN listed' =>
                           Order[step'] \in Labelled[m] /\ listed'[m] = count'[m]
                     /\ m \in DOMAIN building' <=> Added(m)'
                     /\ (m \in DOMAIN building' /\ OneVendor(m)
                          /\ Labelled[m] \cap PromProvider = {})
                          => building'[m] = Truth(m)'
  <2>a. Len(Order) \in Nat /\ step \in 1..(Len(Order) + 1)
    BY NodeRepoAssumption DEF TypeOK
  <2>b. ASSUME m \in untouched, count'[m] = count[m], UNCHANGED updater
        PROVE  Goal
    <3>1. UNCHANGED <<pc, step, listed, building>> /\ pc \in {"list", "visit"}
      BY <2>b DEF updater
    <3>2. Added(m)' <=> Added(m)
      BY <3>1 DEF Added, Passed
    <3>3. Truth(m)' = Truth(m)
      BY <2>b DEF Truth
    <3>. QED
      BY <2>b, <3>1, <3>2, <3>3 DEF RebuildExact
  <2> USE DEF store, updater, history, vars
  <2>1. ASSUME NEW n \in Node, NEW there \in BOOLEAN, NEW c, NodeEvent(n, there, c)
        PROVE  Goal
    <3>1. m \in untouched /\ count'[m] = count[m]
      BY <2>1 DEF NodeEvent, TypeOK
    <3>. QED
      BY <2>1, <2>b, <3>1 DEF NodeEvent
  <2>2. CASE Outage \/ Resync \/ Handler
    BY <2>2, <2>b DEF Outage, Resync, Handler
  <2>3. CASE Receive
    <3>1. /\ step' = 1 /\ pc' = "list" /\ DOMAIN building' = {} /\ DOMAIN listed' = {}
      BY <2>3 DEF Receive, Empty, ListedInVisit
    <3>2. ~Added(m)'
      BY <3>1 DEF Added, Passed
    <3>. QED
      BY <3>1, <3>2
  <2>4. CASE ListNodes
    <3>1. /\ pc = "list" /\ pc' = "visit" /\ step' = step /\ building' = building
          /\ m \in untouched /\ m \in present /\ count' = count
          /\ listed' = [n \in {k \in present : Order[step] \in Labelled[k]} |-> count[n]]
          /\ step <= Len(Order)
      BY <2>4 DEF ListNodes, ListedInVisit
    <3>2. m \in DOMAIN listed' <=> Order[step] \in Labelled[m]
      BY <3>1
    <3>3. ASSUME NEW i \in 1..Len(Order), Order[i] \in Labelled[m]
          PROVE  Passed(m, i)' <=> Passed(m, i)
      BY <3>1, <3>2, <3>3 DEF Passed
    <3>4. Added(m)' <=> Added(m)
      BY <3>3 DEF Added
    <3>5. Truth(m)' = Truth(m)
      BY <3>1 DEF Truth
    <3>. QED
      BY <3>1, <3>2, <3>4, <3>5 DEF RebuildExact
  <2>5. ASSUME NEW n \in Node, Visit(n)
        PROVE  Goal
    <3> DEFINE p     == Order[step]
               found == Fetched(p, listed[n])
               kept  == IF found = {} THEN building[n] ELSE {<<p, listed[n][p]>>}
               added == IF n \in DOMAIN building THEN kept ELSE found
    <3>1. /\ pc = "visit" /\ pc' = "visit" /\ step' = step
          /\ m \in untouched /\ count' = count
          /\ n \in DOMAIN listed
          /\ building' = With(building, n, added)
          /\ listed' = Without(listed, n)
          /\ step \in 1..Len(Order)
      BY <2>5, <2>a DEF Visit, ListedInVisit
    <3> HIDE DEF added
    <3>2. Truth(m)' = Truth(m)
      BY <3>1 DEF Truth
    <3>3. CASE m # n
      <4>1. /\ m \in DOMAIN listed' <=> m \in DOMAIN listed
            /\ m \in DOMAIN listed => listed'[m] = listed[m]
            /\ m \in DOMAIN building' <=> m \in DOMAIN building
            /\ m \in DOMAIN building => building'[m] = building[m]
        BY <3>1, <3>3 DEF With, Without
      <4>2. Added(m)' <=> Added(m)
        BY <3>1, <4>1 DEF Added, Passed
      <4>. QED
        BY <3>1, <3>2, <4>1, <4>2 DEF RebuildExact
    <3>4. CASE m = n
      <4>1. /\ m \notin DOMAIN listed' /\ m \in DOMAIN building'
            /\ building'[m] = added
            /\ p \in Labelled[m] /\ listed[m] = count[m]
        BY <3>1, <3>4 DEF With, Without, RebuildExact
      <4>2. Added(m)'
        BY <3>1, <4>1 DEF Added, Passed
      <4>3. ASSUME OneVendor(m), Labelled[m] \cap PromProvider = {}
            PROVE  building'[m] = Truth(m)
        <5>1. ASSUME NEW i \in 1..Len(Order), Order[i] \in Labelled[m]
              PROVE  i = step
          BY <3>1, <4>1, <4>3, <5>1, NodeRepoAssumption DEF OneVendor
        <5>2. ~Added(m)
          BY <3>1, <3>4, <5>1, <2>a DEF Added, Passed
        <5>3. m \notin DOMAIN building
          BY <3>1, <5>2 DEF RebuildExact
        <5>4. building'[m] = Devices(p, count[m][p])
          BY <3>4, <4>1, <4>3, <5>3 DEF added, Fetched
        <5>5. p \in Labelled[m] \cap InOrder
          BY <3>1, <4>1, OrderType
        <5>. QED
          BY <3>4, <4>3, <5>4, <5>5, TruthOfOneVendor
      <4>. QED
        BY <3>2, <4>1, <4>2, <4>3
    <3>. QED
      BY <3>3, <3>4
  <2>6. CASE NextProvider
    <3>1. /\ pc = "visit" /\ pc' = "list" /\ step' = step + 1
          /\ DOMAIN listed = {} /\ listed' = listed /\ building' = building
          /\ m \in untouched /\ count' = count
      BY <2>6 DEF NextProvider
    <3>2. ASSUME NEW i \in 1..Len(Order)
          PROVE  Passed(m, i)' <=> Passed(m, i)
      BY <3>1, <2>a DEF Passed
    <3>3. Added(m)' <=> Added(m)
      BY <3>2 DEF Added
    <3>4. Truth(m)' = Truth(m)
      BY <3>1 DEF Truth
    <3>. QED
      BY <3>1, <3>3, <3>4 DEF RebuildExact
  <2>7. CASE Publish
    BY <2>7 DEF Publish
  <2>8. CASE UNCHANGED vars
    BY <2>8, <2>b
  <2>. QED
    BY <2>1, <2>2, <2>3, <2>4, <2>5, <2>6, <2>7, <2>8
    DEF Next, Environment, Update
<1>. QED
  BY <1>1, <1>2, Typed, PTL DEF Spec

(* A rebuild that has been through every provider has what it must.        *)
LEMMA RebuildComplete ==
    ASSUME TypeOK, RebuildExact, pc = "list", step > Len(Order), NEW n \in untouched
    PROVE  /\ n \in DOMAIN building <=> Labelled[n] \cap InOrder # {}
           /\ n \in DOMAIN building /\ OneVendor(n) /\ Labelled[n] \cap PromProvider = {}
                 => building[n] = Truth(n)
<1>1. \A i \in 1..Len(Order) : Passed(n, i)
  BY NodeRepoAssumption DEF Passed, TypeOK
<1>2. Added(n) <=> Labelled[n] \cap InOrder # {}
  BY <1>1 DEF Added, InOrder
<1>. QED
  BY <1>2 DEF RebuildExact

(* At every moment the snapshot shows each steady node with its devices.   *)
THEOREM SteadyNodes == Spec => []SteadyNodesExact
<1>1. Init => SteadyNodesExact
  BY DEF Init, SteadyNodesExact
<1>2. TypeOK /\ RebuildExact /\ SteadyNodesExact /\ [Next]_vars => SteadyNodesExact'
  <2> SUFFICES ASSUME TypeOK, RebuildExact, SteadyNodesExact, [Next]_vars,
                      NEW m \in steady', Labelled[m] \cap InOrder # {}
               PROVE  /\ m \in DOMAIN nodes'
                      /\ OneVendor(m) /\ Labelled[m] \cap PromProvider = {}
                           => nodes'[m] = Truth(m)'
    BY DEF SteadyNodesExact, InOrder, OneVendor
  <2> DEFINE Goal == /\ m \in DOMAIN nodes'
                     /\ OneVendor(m) /\ Labelled[m] \cap PromProvider = {}
                           => nodes'[m] = Truth(m)'
  <2>a. ASSUME m \in steady, count'[m] = count[m], nodes' = nodes
        PROVE  Goal
    <3>1. Truth(m)' = Truth(m)
      BY <2>a DEF Truth
    <3>. QED
      BY <2>a, <3>1 DEF SteadyNodesExact
  <2> USE DEF store, updater, history, vars
  <2>1. ASSUME NEW n \in Node, NEW there \in BOOLEAN, NEW c, NodeEvent(n, there, c)
        PROVE  Goal
    <3>1. m \in steady /\ count'[m] = count[m]
      BY <2>1 DEF NodeEvent, TypeOK
    <3>. QED
      BY <2>1, <2>a, <3>1 DEF NodeEvent
  <2>2. CASE Outage \/ Resync \/ Handler
    BY <2>2, <2>a DEF Outage, Resync, Handler
  <2>3. CASE Receive \/ ListNodes \/ NextProvider
    BY <2>3, <2>a DEF Receive, ListNodes, NextProvider
  <2>4. ASSUME NEW n \in Node, Visit(n) PROVE Goal
    BY <2>4, <2>a DEF Visit
  <2>5. CASE Publish
    <3>1. /\ m \in untouched /\ nodes' = building /\ count' = count
          /\ pc = "list" /\ step > Len(Order)
      BY <2>5 DEF Publish
    <3>2. Truth(m)' = Truth(m)
      BY <3>1 DEF Truth
    <3>. QED
      BY <3>1, <3>2, RebuildComplete
  <2>6. CASE UNCHANGED vars
    BY <2>6, <2>a
  <2>. QED
    BY <2>1, <2>2, <2>3, <2>4, <2>5, <2>6 DEF Next, Environment, Update
<1>. QED
  BY <1>1, <1>2, Typed, Rebuilding, PTL DEF Spec

-----------------------------------------------------------------------------

(* No event is lost: with none left to handle, the published snapshot was  *)
(* begun after the last change and holds the nodes of the store.           *)
THEOREM UpdatesNotLost == Spec => []NoLostUpdate
<1>1. Init => NothingUnseen
  <2> SUFFICES ASSUME Init, pending = 0
               PROVE  NothingUnseen
    BY DEF NothingUnseen
  <2>1. present = {}
    BY NodeRepoAssumption, FS_Subset, FS_EmptySet DEF Init
  <2>. QED
    BY <2>1 DEF Init, NothingUnseen, Listable, Empty
<1>2. /\ TypeOK /\ ListedInVisit /\ RebuildExact /\ NothingUnseen /\ [Next]_vars
      => NothingUnseen'
  <2> SUFFICES ASSUME TypeOK, ListedInVisit, RebuildExact, NothingUnseen, [Next]_vars
               PROVE  NothingUnseen'
    OBVIOUS
  <2> USE DEF store, updater, history, vars
  <2>1. ASSUME NEW n \in Node, NEW there, NEW c, NodeEvent(n, there, c)
        PROVE  NothingUnseen'
    BY <2>1 DEF NodeEvent, NothingUnseen, TypeOK
  <2>2. CASE Resync \/ Handler
    BY <2>2 DEF Resync, Handler, NothingUnseen, TypeOK
  <2>3. CASE Outage
    BY <2>3 DEF Outage, NothingUnseen, Listable
  <2>4. CASE Receive
    BY <2>4 DEF Receive, Empty, NothingUnseen, ListedInVisit
  <2>5. CASE ListNodes
    BY <2>5 DEF ListNodes, NothingUnseen
  <2>6. ASSUME NEW n \in Node, Visit(n)
        PROVE  NothingUnseen'
    <3>1. /\ n \in DOMAIN listed
          /\ DOMAIN building' = DOMAIN building \cup {n}
          /\ DOMAIN listed' = DOMAIN listed \ {n}
      BY <2>6 DEF Visit, With, Without
    <3>. QED
      BY <2>6, <3>1 DEF Visit, NothingUnseen
  <2>7. CASE NextProvider
    BY <2>7 DEF NextProvider, NothingUnseen
  <2>8. CASE Publish
    <3> SUFFICES ASSUME pending = 0, ~notify
                 PROVE  steady' = present' /\ DOMAIN nodes' = Listable'
      BY <2>8 DEF Publish, NothingUnseen
    <3>1. /\ untouched = present /\ DOMAIN building \subseteq present
          /\ pc = "list" /\ step > Len(Order)
      BY <2>8 DEF Publish, NothingUnseen
    <3>2. DOMAIN building = Listable
      BY <3>1, RebuildComplete DEF Listable
    <3>. QED
      BY <2>8, <3>1, <3>2 DEF Publish, Listable
  <2>9. CASE UNCHANGED vars
    BY <2>9 DEF NothingUnseen, Listable
  <2>. QED
    BY <2>1, <2>2, <2>3, <2>4, <2>5, <2>6, <2>7, <2>8, <2>9
    DEF Next, Environment, Update
<1>3. NothingUnseen => NoLostUpdate
  BY DEF NothingUnseen, NoLostUpdate, Quiescent
<1>. QED
  BY <1>1, <1>2, <1>3, Typed, Rebuilding, PTL DEF Spec

=============================================================================
