------------------------------ MODULE NodeRepo ------------------------------
(***************************************************************************)
(* The node repository of the backend (server/internal/data/node.go).      *)
(*                                                                         *)
(* The client-go informer keeps a store of the cluster's nodes and calls a *)
(* handler per event; every handler sends on nodeNotify, a channel of      *)
(* capacity one.  One goroutine receives from it and rebuilds the whole    *)
(* snapshot: per provider, in order, it lists the nodes the provider's     *)
(* selector matches and asks the provider for their devices.  Readers see  *)
(* the published snapshot only.                                            *)
(***************************************************************************)
EXTENDS FiniteSets, Naturals, Sequences

CONSTANTS
    Node,            \* node UIDs
    Provider,        \* device vendors
    Order,           \* the sequence nodeRepo.providers
    Labelled,        \* the providers whose selector matches a node
    PromProvider,    \* the providers whose FetchDevices queries Prometheus
    BadSelector,     \* the providers whose configured selector does not parse
    Sizes,           \* bound: how many devices a provider can have on a node
    MaxPending,      \* bound: events the informer holds for the handlers
    OutagesHappen    \* can Prometheus be down?

(* NewNodeRepo lists each provider once.                                   *)
ASSUME NodeRepoAssumption ==
    /\ IsFiniteSet(Node)
    /\ Order \in Seq(Provider)
    /\ \A i, j \in 1..Len(Order) : Order[i] = Order[j] => i = j
    /\ Labelled \in [Node -> SUBSET Provider]
    /\ PromProvider \subseteq Provider /\ BadSelector \subseteq Provider
    /\ Sizes \subseteq Nat /\ MaxPending \in Nat
    /\ OutagesHappen \in BOOLEAN

VARIABLES
    present,   \* the informer's store: the nodes in the cluster ...
    count,     \* ... and the devices each provider registered on each
    promDown,  \* Prometheus does not answer
    pending,   \* events delivered to the informer and not yet to a handler
    notify,    \* nodeNotify holds a token
    pc,        \* the updater: "receive", "list", "visit" or "dead"
    step,      \* index in Order of the provider it is at
    listed,    \* the node objects it has still to visit: node -> count
    building,  \* the snapshot it is building: node -> set of devices
    nodes      \* the published snapshot

(* History, not in the code.                                               *)
VARIABLES
    untouched, \* nodes whose store entry has not changed since Receive
    steady     \* the same, since the Receive of the published snapshot

store   == <<present, count>>
updater == <<pc, step, listed, building>>
history == <<untouched, steady>>
vars    == <<store, promDown, pending, notify, updater, nodes, history>>

Device == Provider \X (Nat \ {0})
Counts == [Provider -> Sizes \cup {0}]

(* A node has devices of the vendors whose selectors match it only.        *)
CountsOf(n) == {c \in Counts : \A p \in Provider \ Labelled[n] : c[p] = 0}

(* Partial functions from nodes, as the maps of the code are.              *)
IsPartial(f, S) == DOMAIN f \subseteq Node /\ \A n \in DOMAIN f : f[n] \in S
Empty == [n \in {} |-> {}]

Without(f, n) == [m \in DOMAIN f \ {n} |-> f[m]]
With(f, n, v) == [m \in DOMAIN f \cup {n} |-> IF m = n THEN v ELSE f[m]]

(* Fault: devices numbered from zero.                                      *)
DevicesFromZero(p, k) == {p} \X (0..k)

Devices(p, k) == {p} \X (1..k)

-----------------------------------------------------------------------------

(* WaitForCacheSync returned: the store is filled, the handlers have an    *)
(* add event per node to run, the snapshot is empty.                       *)
Init ==
    /\ present \in SUBSET Node
    /\ count \in {f \in [Node -> Counts] : \A n \in Node : f[n] \in CountsOf(n)}
    /\ promDown \in IF OutagesHappen THEN BOOLEAN ELSE {FALSE}
    /\ pending = Cardinality(present)
    /\ notify = FALSE
    /\ pc = "receive" /\ step = 1 /\ listed = Empty /\ building = Empty
    /\ nodes = Empty
    /\ untouched = {} /\ steady = {}

(* A watch event: the informer updates its store, then queues a call of    *)
(* onAddNode, onUpdateNode or onDeletedNode.                               *)
NodeEvent(n, there, c) ==
    /\ pending < MaxPending
    /\ there # (n \in present) \/ c # count[n]
    /\ present' = IF there THEN present \cup {n} ELSE present \ {n}
    /\ count' = [count EXCEPT ![n] = c]
    /\ pending' = pending + 1
    /\ untouched' = untouched \ {n} /\ steady' = steady \ {n}
    /\ UNCHANGED <<promDown, notify, updater, nodes>>

(* The hourly resync calls onUpdateNode for a node that did not change.    *)
Resync ==
    /\ pending < MaxPending
    /\ present # {}
    /\ pending' = pending + 1
    /\ UNCHANGED <<store, promDown, notify, updater, nodes, history>>

Outage ==
    /\ OutagesHappen
    /\ promDown' = ~promDown
    /\ UNCHANGED <<store, pending, notify, updater, nodes, history>>

(* A handler: its send blocks until the channel has room.                  *)
Handler ==
    /\ pending > 0
    /\ ~notify
    /\ notify' = TRUE
    /\ pending' = pending - 1
    /\ UNCHANGED <<store, promDown, updater, nodes, history>>

(* Fault: the published snapshot is emptied when a rebuild begins.         *)
ReceiveClearing ==
    /\ pc = "receive"
    /\ notify
    /\ notify' = FALSE
    /\ pc' = "list" /\ step' = 1 /\ building' = Empty
    /\ nodes' = Empty
    /\ untouched' = present
    /\ UNCHANGED <<store, promDown, pending, listed, steady>>

Receive ==
    /\ pc = "receive"
    /\ notify
    /\ notify' = FALSE
    /\ pc' = "list" /\ step' = 1 /\ building' = Empty
    /\ untouched' = present
    /\ UNCHANGED <<store, promDown, pending, listed, nodes, steady>>

(* Fault: any error of a provider ends the goroutine.                      *)
FatalOnAnyError(p) == p \in BadSelector \/ (promDown /\ p \in PromProvider)

Fatal(p) == p \in BadSelector

(* List the next provider's nodes; a selector that does not parse ends the *)
(* goroutine.                                                              *)
ListNodes ==
    /\ pc = "list"
    /\ step <= Len(Order)
    /\ LET p == Order[step] IN
       IF Fatal(p)
          THEN pc' = "dead" /\ UNCHANGED listed
          ELSE /\ pc' = "visit"
               /\ listed' = [n \in {m \in present : p \in Labelled[m]} |-> count[n]]
    /\ UNCHANGED <<store, promDown, pending, notify, step, building, nodes, history>>

(* The devices FetchDevices returns: of a provider that asks Prometheus,   *)
(* none while it is down.                                                  *)
Fetched(p, c) ==
    IF promDown /\ p \in PromProvider THEN {} ELSE Devices(p, c[p])

(* One node: add it if no earlier provider did; append its devices.  The   *)
(* append starts from the devices of the node object made for this visit,  *)
(* which is not the stored one if the node was there already: then only    *)
(* the last device fetched stays.                                          *)
Visit(n) ==
    /\ pc = "visit"
    /\ n \in DOMAIN listed
    /\ LET p     == Order[step]
           found == Fetched(p, listed[n])
           kept  == IF found = {} THEN building[n] ELSE {<<p, listed[n][p]>>}
       IN building' = With(building, n, IF n \in DOMAIN building THEN kept ELSE found)
    /\ listed' = Without(listed, n)
    /\ UNCHANGED <<store, promDown, pending, notify, pc, step, nodes, history>>

NextProvider ==
    /\ pc = "visit"
    /\ DOMAIN listed = {}
    /\ pc' = "list"
    /\ step' = step + 1
    /\ UNCHANGED <<store, promDown, pending, notify, listed, building, nodes, history>>

(* Fault: the updater drains the channel when it has published.            *)
PublishDraining ==
    /\ pc = "list"
    /\ step > Len(Order)
    /\ nodes' = building
    /\ pc' = "receive" /\ step' = 1 /\ building' = Empty
    /\ notify' = FALSE
    /\ steady' = untouched
    /\ UNCHANGED <<store, promDown, pending, listed, untouched>>

(* Publish the snapshot under the write lock.                              *)
Publish ==
    /\ pc = "list"
    /\ step > Len(Order)
    /\ nodes' = building
    /\ pc' = "receive" /\ step' = 1 /\ building' = Empty
    /\ steady' = untouched
    /\ UNCHANGED <<store, promDown, pending, notify, listed, untouched>>

Update == Receive \/ ListNodes \/ (\E n \in Node : Visit(n)) \/ NextProvider \/ Publish

Environment ==
    \/ \E n \in Node : \E c \in CountsOf(n) :
          \/ n \notin present /\ NodeEvent(n, TRUE, c)
          \/ n \in present /\ (NodeEvent(n, TRUE, c) \/ NodeEvent(n, FALSE, count[n]))
    \/ Outage

Next == Environment \/ Resync \/ Handler \/ Update

Spec == Init /\ [][Next]_vars

(* The goroutines run; the informer resyncs every hour.                    *)
FairSpec == Spec /\ WF_vars(Handler) /\ WF_vars(Update) /\ WF_vars(Resync)

-----------------------------------------------------------------------------

TypeOK ==
    /\ present \in SUBSET Node /\ count \in [Node -> Counts]
    /\ promDown \in BOOLEAN /\ notify \in BOOLEAN
    /\ pending \in Nat
    /\ pc \in {"receive", "list", "visit", "dead"}
    /\ step \in 1..(Len(Order) + 1)
    /\ IsPartial(listed, Counts)
    /\ IsPartial(building, SUBSET Device)
    /\ IsPartial(nodes, SUBSET Device)
    /\ untouched \in SUBSET Node /\ steady \in SUBSET Node

InOrder   == {Order[i] : i \in 1..Len(Order)}
Listable  == {n \in present : Labelled[n] \cap InOrder # {}}
Truth(n)  == UNION {Devices(p, count[n][p]) : p \in Labelled[n] \cap InOrder}
OneVendor(n) == \A p, q \in Labelled[n] : p = q

Quiescent == pending = 0 /\ ~notify /\ pc = "receive"

(* The snapshot shows a node whose store entry has not changed since the   *)
(* rebuild that published it began, with exactly its devices, all the time *)
(* (readers run at any moment, and another rebuild may be half done).      *)
(* Excepted are nodes two selectors match, of which a rebuild keeps one    *)
(* device only, and vendors that had to ask Prometheus.                    *)
SteadyNodesExact ==
    \A n \in steady :
        Labelled[n] \cap InOrder # {} =>
            /\ n \in DOMAIN nodes
            /\ OneVendor(n) /\ Labelled[n] \cap PromProvider = {} => nodes[n] = Truth(n)

(* No event is lost: once the handlers and the updater have nothing left   *)
(* to do, nothing has changed since the rebuild that was published began,  *)
(* and the snapshot holds the nodes of the store and no others.  The       *)
(* channel of capacity one merges events only with a rebuild to come.      *)
NoLostUpdate == Quiescent => steady = present /\ DOMAIN nodes = Listable

(* Why, as parts of an inductive invariant.  There are nodes to visit only *)
(* between two lists, and what is unchanged is in the store.               *)
ListedInVisit ==
    /\ pc = "visit" => step <= Len(Order)
    /\ pc # "visit" => DOMAIN listed = {}
    /\ untouched \subseteq present /\ steady \subseteq present

(* The rebuild has added the untouched nodes matched by a selector it is   *)
(* done with, with their devices; those it has yet to visit are listed     *)
(* with the devices they still have.                                       *)
Passed(n, i) == i < step \/ (i = step /\ pc = "visit" /\ n \notin DOMAIN listed)
Added(n)     == \E i \in 1..Len(Order) : Order[i] \in Labelled[n] /\ Passed(n, i)
RebuildExact ==
    pc \in {"list", "visit"} =>
        \A n \in untouched :
            /\ n \in DOMAIN listed => Order[step] \in Labelled[n] /\ listed[n] = count[n]
            /\ n \in DOMAIN building <=> Added(n)
            /\ n \in DOMAIN building /\ OneVendor(n) /\ Labelled[n] \cap PromProvider = {}
                   => building[n] = Truth(n)

(* Without an event on its way nothing has changed since the last Receive. *)
NothingUnseen ==
    pending = 0 /\ ~notify =>
        /\ pc \in {"list", "visit"} =>
              untouched = present /\ DOMAIN listed \cup DOMAIN building \subseteq present
        /\ pc = "receive" => steady = present /\ DOMAIN nodes = Listable

(* When the cluster and Prometheus stay as they are, and up, the snapshot  *)
(* settles on the store: an outage during a rebuild is healed by a later   *)
(* event, at the latest by the hourly resync.  A node two selectors match  *)
(* shows some of its devices.                                              *)
Healed ==
    /\ DOMAIN nodes = Listable
    /\ \A n \in Listable :
          /\ nodes[n] \subseteq Truth(n) /\ (Truth(n) # {} => nodes[n] # {})
          /\ OneVendor(n) => nodes[n] = Truth(n)
HealsAfterOutage ==
    <>[][FALSE]_store /\ <>[](present # {} /\ ~promDown) => <>[]Healed

=============================================================================
