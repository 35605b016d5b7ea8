-------------------------- MODULE DeviceAccounting --------------------------
(***************************************************************************)
(* Who uses which device: the accounting of server/internal/biz and the    *)
(* query services of server/internal/service, over the two repositories.   *)
(*                                                                         *)
(* Containers name their devices by a UUID made from the pod's annotation, *)
(* nodes list devices with an Id and an AliasId made from an annotation or *)
(* from what the vendor's exporter told Prometheus.  A device is charged   *)
(* with the container devices whose UUID its alias prefixes.  A user lists *)
(* the cards or asks for a node's summary, opens a card and sees its       *)
(* tasks; each request reads the repositories one after the other, and     *)
(* they change meanwhile.                                                  *)
(***************************************************************************)
EXTENDS FiniteSets, FiniteSetsExt, Naturals

CONSTANTS
    Card,      \* the cluster's physical devices
    Container, \* containers the pod repository can hold
    Reports,   \* bound: sets of devices the exporters can have reported
    MaxUse     \* bound: devices of one container

Vendor == {"nvidia", "ascend", "hygon", "mlu", "metax"}
Node   == {c.node : c \in Card}

ASSUME AccountingAssumption ==
    /\ IsFiniteSet(Card) /\ IsFiniteSet(Container)
    /\ \A c \in Card : /\ c = [node |-> c.node, vendor |-> c.vendor, num |-> c.num]
                       /\ c.node # "" /\ c.vendor \in Vendor /\ c.num \in 0..999
    /\ Reports \subseteq SUBSET Card
    /\ MaxUse \in Nat

(* The strings that name devices.  A numbered name ends in the device's    *)
(* number on its node; Hygon's plugin does not put the node in ("DCU-3").  *)
Name(form, node, c) ==
    [form |-> form, node |-> node, vendor |-> c.vendor, num |-> c.num]
Plugin(c)   == Name("plugin", c.node, c)    \* in the annotation of the node
Exporter(c) == Name("exporter", c.node, c)  \* in the vendor's metrics
Numbered(c) == Name("numbered", c.node, c)  \* <node>-dcu-<n>, ...-mlu-<n>
PluginDCU(c) == Name("numbered", "", c)     \* DCU-<n>
Blank == [form |-> "blank", node |-> "", vendor |-> "", num |-> 0]

(* strings.HasPrefix(name, prefix).                                        *)
StartsWithDigits(i, of) ==
    \E k \in 0..2 : i = of \div (10 ^ k) /\ (k > 0 => i > 0)
HasPrefix(name, prefix) ==
    \/ prefix = Blank
    \/ name = prefix
    \/ /\ name.form = "numbered" /\ prefix.form = "numbered"
       /\ name.node = prefix.node /\ name.vendor = prefix.vendor
       /\ StartsWithDigits(prefix.num, name.num)

(* The UUID a container's annotation gives for a device.                   *)
UUID(c) == IF c.vendor \in {"hygon", "mlu"} THEN Numbered(c) ELSE Plugin(c)

(* What the providers make of a device, `known' telling whether Prometheus *)
(* knew it when they asked.                                                *)
Id(c, known) ==
    CASE c.vendor \in {"nvidia", "metax"} -> Plugin(c)
      [] c.vendor = "mlu"    -> Exporter(c)
      [] c.vendor = "ascend" -> IF known THEN Exporter(c) ELSE Plugin(c)
      [] c.vendor = "hygon"  -> IF known THEN Exporter(c) ELSE PluginDCU(c)
Alias(c, known) ==
    CASE c.vendor \in {"nvidia", "ascend"} -> Plugin(c)
      [] c.vendor = "mlu"   -> Numbered(c)
      [] c.vendor = "metax" -> IF known THEN Plugin(c) ELSE Blank
      [] c.vendor = "hygon" -> IF known THEN Numbered(c) ELSE PluginDCU(c)

(* A provider lists what the annotation of the node registers; Cambricon   *)
(* only the devices Prometheus knows, MetaX nothing if it knows none.      *)
Listed(c, known) ==
    CASE c.vendor = "mlu"   -> c \in known
      [] c.vendor = "metax" -> \E m \in known : m.node = c.node /\ m.vendor = "metax"
      [] OTHER -> TRUE
Device(c, known) == [card |-> c, id |-> Id(c, known), alias |-> Alias(c, known)]
Snapshot(nodes, known) ==
    {Device(c, c \in known) : c \in {x \in Card : x.node \in nodes /\ Listed(x, known)}}
AnyDevice == {Device(c, b) : c \in Card, b \in BOOLEAN}
Snapshots == {Snapshot(nodes, known) : nodes \in SUBSET Node, known \in Reports}

VARIABLES
    devices,   \* the node repository's published devices
    containers,\* the pod repository: container -> its cards, {} if not there
    pc,        \* what the user waits for or looks at
    rows,      \* the devices a request has listed, or the one opened
    used,      \* vGPUs charged to each of them
    scope,     \* the node whose summary was asked for, "" if none
    total,     \* its VgpuUsed
    todo,      \* <<container, card>> pairs a task request has to resolve
    found      \* <<container, card, device id>>: what it will answer

(* History, not in the code: has nothing changed since the user began?     *)
VARIABLE quiet

repos == <<devices, containers>>
reply == <<rows, used, scope, total, todo, found>>
vars  == <<repos, pc, reply, quiet>>

Pairs  == {p \in Container \X Card : p[2] \in containers[p[1]]}
On(c)  == {p \in Pairs : p[2] = c}

-----------------------------------------------------------------------------

Init ==
    /\ devices = {}
    /\ containers = [x \in Container |-> {}]
    /\ pc = "idle"
    /\ rows = {} /\ used = [r \in {} |-> 0] /\ scope = "" /\ total = 0
    /\ todo = {} /\ found = {}
    /\ quiet = TRUE

(* The node repository publishes another snapshot.                         *)
Publish(snapshot) ==
    /\ snapshot # devices
    /\ devices' = snapshot
    /\ quiet' = FALSE
    /\ UNCHANGED <<containers, pc, reply>>

(* The pod repository gains or loses a container.                          *)
PodEvent(x, cards) ==
    /\ containers[x] = {} <=> cards # {}
    /\ containers' = [containers EXCEPT ![x] = cards]
    /\ quiet' = FALSE
    /\ UNCHANGED <<devices, pc, reply>>

(* GetAllGPUs: list the devices, ...                                       *)
ListCards ==
    /\ pc = "idle"
    /\ pc' = "cards"
    /\ rows' = devices
    /\ quiet' = TRUE
    /\ UNCHANGED <<repos, used, scope, total, todo, found>>

(* Fault: devices matched by their Id.                                     *)
ChargedById(r) == {p \in Pairs : HasPrefix(UUID(p[2]), r.id)}

(* ContainersStatisticsInfo.                                               *)
Charged(r) == {p \in Pairs : HasPrefix(UUID(p[2]), r.alias)}

(* ... then the containers, once for all devices.                          *)
CountCards ==
    /\ pc = "cards"
    /\ pc' = "cardList"
    /\ used' = [r \in rows |-> Cardinality(Charged(r))]
    /\ UNCHANGED <<repos, rows, scope, total, todo, found, quiet>>

(* GetGPUSummary for a node; buildNodeReply sums a node the same way.      *)
ListSummary(node) ==
    /\ pc = "idle"
    /\ pc' = "summary"
    /\ rows' = devices
    /\ scope' = node
    /\ quiet' = TRUE
    /\ UNCHANGED <<repos, used, total, todo, found>>

(* Fault: the node filter is not applied.                                  *)
InScopeAlways(r) == TRUE

InScope(r) == r.card.node = scope

(* The VgpuUsed of a summary and of a node.                                *)
VgpuUsed(R) == MapThenSumSet(LAMBDA r : Cardinality(Charged(r)), R)

CountSummary ==
    /\ pc = "summary"
    /\ pc' = "summed"
    /\ rows' = {r \in rows : InScope(r)}
    /\ total' = VgpuUsed(rows')
    /\ UNCHANGED <<repos, used, scope, todo, found, quiet>>

(* The user opens a card: GetAllContainers with its id as DeviceId.        *)
OpenCard(r) ==
    /\ pc = "cardList"
    /\ r \in rows
    /\ pc' = "tasks"
    /\ rows' = {r} /\ used' = [x \in {} |-> 0]
    /\ todo' = Pairs
    /\ UNCHANGED <<repos, scope, total, found, quiet>>

(* Fault: FindDeviceByAliasId accepts a prefix.                            *)
ResolvedByPrefix(c) ==
    {d.id : d \in {r \in devices : HasPrefix(UUID(c), r.alias)}}

(* FindDeviceByAliasId: the Id of a device with that very alias, looked up *)
(* in the snapshot of the moment; a map of nodes is gone through, so any   *)
(* match may be the first.                                                 *)
Resolved(c) == {d.id : d \in {r \in devices : r.alias = UUID(c)}}

(* Faults: the filter is applied to the UUID; the answer in another order. *)
ResolveByUUID(p) ==
    /\ pc = "tasks"
    /\ p \in todo
    /\ todo' = todo \ {p}
    /\ \E id \in IF Resolved(p[2]) = {} THEN {UUID(p[2])} ELSE Resolved(p[2]) :
       \E r \in rows :
          found' = IF HasPrefix(UUID(p[2]), r.id)
                      THEN found \cup {<<p[1], p[2], id>>} ELSE found
    /\ UNCHANGED <<repos, pc, rows, used, scope, total, quiet>>
ResolveSwapped(p) ==
    /\ pc = "tasks"
    /\ p \in todo
    /\ todo' = todo \ {p}
    /\ found' = found \cup {<<p[2], p[1], UUID(p[2])>>}
    /\ UNCHANGED <<repos, pc, rows, used, scope, total, quiet>>

(* One device of one container: its Id, or its UUID if no device has that  *)
(* alias; kept if it starts with the DeviceId asked for.                   *)
Resolve(p) ==
    /\ pc = "tasks"
    /\ p \in todo
    /\ todo' = todo \ {p}
    /\ \E id \in IF Resolved(p[2]) = {} THEN {UUID(p[2])} ELSE Resolved(p[2]) :
       \E r \in rows :
          found' = IF HasPrefix(id, r.id)
                      THEN found \cup {<<p[1], p[2], id>>} ELSE found
    /\ UNCHANGED <<repos, pc, rows, used, scope, total, quiet>>

TasksDone ==
    /\ pc = "tasks" /\ todo = {}
    /\ pc' = "taskList"
    /\ UNCHANGED <<repos, reply, quiet>>

(* The user goes back.                                                     *)
Leave ==
    /\ pc \in {"cardList", "taskList", "summed"}
    /\ pc' = "idle"
    /\ rows' = {} /\ used' = [r \in {} |-> 0] /\ scope' = "" /\ total' = 0
    /\ todo' = {} /\ found' = {}
    /\ quiet' = TRUE
    /\ UNCHANGED repos

(* A pod's containers get devices of the node it is assigned to.           *)
Assignable == {S \in SUBSET Card : /\ Cardinality(S) <= MaxUse
                                   /\ \A c, d \in S : c.node = d.node /\ c.vendor = d.vendor}

Environment ==
    \/ \E snapshot \in Snapshots : Publish(snapshot)
    \/ \E x \in Container, S \in Assignable : PodEvent(x, S)

Services ==
    \/ ListCards \/ CountCards
    \/ (\E n \in Node : ListSummary(n)) \/ CountSummary
    \/ (\E r \in AnyDevice : OpenCard(r))
    \/ (\E p \in Container \X Card : Resolve(p)) \/ TasksDone
    \/ Leave

Next == Environment \/ Services

Spec == Init /\ [][Next]_vars

-----------------------------------------------------------------------------

TypeOK ==
    /\ devices \subseteq AnyDevice
    /\ containers \in [Container -> Assignable]
    /\ pc \in {"idle", "cards", "cardList", "summary", "summed", "tasks", "taskList"}
    /\ rows \subseteq AnyDevice
    /\ DOMAIN used \subseteq rows /\ \A r \in DOMAIN used : used[r] \in Nat
    /\ scope \in Node \cup {""} /\ total \in Nat
    /\ todo \subseteq Container \X Card
    /\ \A f \in found : f[1] \in Container /\ f[2] \in Card
    /\ quiet \in BOOLEAN

(* Whose usage cannot be told: a MetaX device without an alias; a numbered *)
(* device whose number begins another's on its node; a Hygon device the    *)
(* exporter did not report, which has the plugin's name for an alias.      *)
Unaliased(r) == r.alias = Blank
Ambiguous(r) == \E c \in Card \ {r.card} : HasPrefix(UUID(c), r.alias)
Dark(r)      == r.card.vendor = "hygon" /\ r.alias = PluginDCU(r.card)

(* The card list charges a device with the containers on it and no others: *)
(* a device gets too much only if it has no alias or an ambiguous one, and *)
(* too little only if it is dark, provided nothing changed meanwhile.      *)
CardsExact ==
    pc = "cardList" /\ quiet =>
        \A r \in rows :
            /\ used[r] > Cardinality(On(r.card)) => Unaliased(r) \/ Ambiguous(r)
            /\ used[r] < Cardinality(On(r.card)) => Dark(r)

(* A node's summary is the number of uses of the node's devices listed, if *)
(* each of them can be told; so it is on nodes with at most ten cards      *)
(* whose exporters answered, whatever runs elsewhere.                      *)
TotalsExact ==
    pc = "summed" /\ quiet
    /\ (\A r \in rows : ~Unaliased(r) /\ ~Ambiguous(r) /\ ~Dark(r))
        => total = Cardinality({p \in Pairs : \E r \in devices :
                                    r.card = p[2] /\ p[2].node = scope})

(* The tasks of a card are those on it, whatever the card list said of its *)
(* usage: neither a missing alias nor an ambiguous one misleads the task   *)
(* list, which resolves aliases exactly.  A dark device has none.          *)
DrillDownExact ==
    pc = "taskList" /\ quiet =>
        \A r \in rows :
            {<<f[1], f[2]>> : f \in found} = IF Dark(r) THEN {} ELSE On(r.card)

(* However snapshots change between two devices of one answer, the answer  *)
(* never gives a container the id of a device it is not on.                *)
TasksNameTheirCards ==
    \A f \in found : f[3] = UUID(f[2]) \/ \E b \in BOOLEAN : f[3] = Id(f[2], b)

-----------------------------------------------------------------------------
(* The parts of the inductive invariants behind these.                     *)

(* A snapshot lists a card once.                                           *)
OneEach == \A r, t \in devices : r.card = t.card => r = t

(* What a request has gathered is there while it or its answer is.         *)
Gathered ==
    /\ DOMAIN used = IF pc = "cardList" THEN rows ELSE {}
    /\ pc \notin {"tasks", "taskList"} => found = {}
    /\ pc \in {"tasks", "taskList"} => \E r \in AnyDevice : rows = {r}
    /\ pc = "taskList" => todo = {}

(* While nothing changes the answer is about the repositories as they are: *)
(* charges are those of now, and of the pairs of container and card looked *)
(* up so far those on the opened card have been found.                     *)
Current ==
    quiet =>
        /\ pc \in {"cards", "cardList", "summary"} => rows = devices
        /\ pc = "cardList" => \A r \in rows : used[r] = Cardinality(Charged(r))
        /\ pc \in {"tasks", "taskList"} =>
              /\ rows \subseteq devices /\ todo \subseteq Pairs
              /\ \A r \in rows :
                    {<<f[1], f[2]>> : f \in found} =
                        IF Dark(r) THEN {} ELSE On(r.card) \ todo

=============================================================================
