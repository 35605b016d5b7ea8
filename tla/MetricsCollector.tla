-------------------------- MODULE MetricsCollector --------------------------
(***************************************************************************)
(* The background metrics collector of the HAMi-WebUI backend              *)
(* (server/internal/exporter/exporter.go and cells.go).                    *)
(*                                                                         *)
(* One goroutine runs refresh cycles.  A cycle writes one gauge cell (a    *)
(* gauge vector and a concrete label tuple) after another into the         *)
(* Prometheus registry, which scrapes of /metrics read at any moment, and  *)
(* records each cell in `current'.  A cycle whose context is still alive   *)
(* at its end is committed: the cells of the previous committed cycle that *)
(* this one did not write are deleted.  Any other cycle is dropped.        *)
(*                                                                         *)
(* A scrape reads each gauge vector under that vector's lock, so a claim   *)
(* about what a scrape may see is a claim about every state of `registry'. *)
(***************************************************************************)
EXTENDS FiniteSets, Naturals

CONSTANTS
    Device,         \* device ids the node snapshots can contain
    Container,      \* containers the pod snapshots can contain
    MetaxContainer, \* the containers whose first device is a MetaX GPU
    Matches,        \* <<d, c>>: the alias of d prefixes a device UUID of c
    Claims,         \* how many devices the annotation of a container lists
    QueriesFail,    \* kinds of PromQL query that can fail or come back empty
    TimeoutsHappen  \* may a cycle outlive exporter.timeout?

(* What one `set' call names: the gauge vectors, grouped by when they are  *)
(* written, and the labels that vary for a fixed device.                   *)
DeviceGauge == {"alloc", "usage"}          \* written by the device pass
TaskGauge   == {"taskAlloc", "taskUsage"}  \* written by the container pass
DriverLabel == {"full", "blank"}           \* driver and device number known?
Cell == [gauge : DeviceGauge \cup TaskGauge,
         dev   : Device,
         tag   : DriverLabel \cup Container]

ASSUME CollectorAssumption ==
    /\ MetaxContainer \subseteq Container
    /\ Matches \subseteq Device \X Container
    /\ Claims \in [Container -> Nat]
    /\ QueriesFail \subseteq {"driver", "usage"}
    /\ TimeoutsHappen \in BOOLEAN

VARIABLES
    inventory,  \* devices of the node repository's current snapshot
    pods,       \* containers of the pod repository's current state
    pc,         \* where the collector goroutine is
    cancelled,  \* Stop cancelled the loop's context
    ctxDone,    \* the running cycle outlived its own deadline
    registry,   \* cells a scrape of /metrics would see
    prev,       \* cells of the last committed cycle
    tracking,   \* is the map `current' there (not nil)?
    current,    \* cells written by the running cycle
    devTodo,    \* devices the device pass has still to write
    taskDevs,   \* devices listed for the container pass
    metaxTodo,  \* containers the MetaX pass has still to query
    taskTodo,   \* <<device, container>> pairs still to write
    stale       \* cells the commit has still to delete

(* History, not in the code: what the properties below talk about.         *)
VARIABLES
    stayed,     \* devices in every snapshot since this cycle listed them
    known,      \* the same, since the last committed cycle listed them
    leaked,     \* cells only a dropped cycle wrote
    stayedUses, \* <<device, container>> pairs listed by this cycle, the two
                \* in every snapshot and pod state since
    knownUses   \* the same, of the last committed cycle

env     == <<inventory, pods>>
work    == <<devTodo, taskDevs, metaxTodo, taskTodo, stale>>
history == <<stayed, known, leaked, stayedUses, knownUses>>
cells   == <<registry, prev, tracking, current>>
vars    == <<env, pc, cancelled, ctxDone, cells, work, history>>

InPass   == {"devices", "listPods", "metax", "tasks"}
InCycle  == {"listDevices"} \cup InPass
Control  == {"start", "wait", "done", "prune"} \cup InCycle

(* What a device's driver query can make of its labels, and whether its    *)
(* usage queries were answered.                                            *)
Labels  == IF "driver" \in QueriesFail THEN DriverLabel ELSE {"full"}
Answers == IF "usage" \in QueriesFail THEN BOOLEAN ELSE {TRUE}

(* Fault: the labels in the wrong order.                                   *)
DeviceCellsSwapped(d, label, answered) ==
    [gauge : {"alloc"}, dev : {label}, tag : {d}]
TaskCellsSwapped(D, c, answered) ==
    [gauge : {"taskAlloc"}, dev : {c}, tag : D]

(* The cells one visit of a device or of a container writes: its           *)
(* allocation gauges always, its usage gauges when their queries succeed.  *)
DeviceCells(d, label, answered) ==
    [gauge : IF answered THEN DeviceGauge ELSE {"alloc"},
     dev : {d}, tag : {label}]
TaskCells(D, c, answered) ==
    [gauge : IF answered THEN TaskGauge ELSE {"taskAlloc"},
     dev : D, tag : {c}]

(* Faults: a commit that forgets to compare with the running cycle, one    *)
(* that compares with its device pass only, one that deletes nothing.      *)
StaleIsPrevious == prev
StaleButTasks   == prev \ {k \in current : k.gauge \in DeviceGauge}
StaleIsNothing  == {}

(* The cells a commit deletes.                                             *)
StaleCells == prev \ current

(* MetricsGenerator.set for each cell of C.                                *)
Set(C) == /\ registry' = registry \cup C
          /\ tracking' = TRUE
          /\ current'  = current \cup C

-----------------------------------------------------------------------------

Init ==
    /\ inventory \in SUBSET Device
    /\ pods \in SUBSET Container
    /\ pc = "start"
    /\ cancelled = FALSE
    /\ ctxDone = FALSE
    /\ registry = {} /\ prev = {} /\ current = {} /\ tracking = FALSE
    /\ devTodo = {} /\ taskDevs = {} /\ metaxTodo = {} /\ taskTodo = {}
    /\ stale = {}
    /\ stayed = {} /\ known = {} /\ leaked = {}
    /\ stayedUses = {} /\ knownUses = {}

(* The node repository publishes another snapshot.                         *)
SnapshotSwap(S) ==
    /\ S # inventory
    /\ inventory' = S
    /\ stayed' = stayed \cap S
    /\ known'  = known \cap S
    /\ stayedUses' = stayedUses \cap (S \X pods)
    /\ knownUses'  = knownUses \cap (S \X pods)
    /\ UNCHANGED <<pods, pc, cancelled, ctxDone, cells, work, leaked>>

(* A pod event changes the pod repository.                                 *)
PodsChange(S) ==
    /\ S # pods
    /\ pods' = S
    /\ stayedUses' = stayedUses \cap (inventory \X S)
    /\ knownUses'  = knownUses \cap (inventory \X S)
    /\ UNCHANGED <<inventory, pc, cancelled, ctxDone, cells, work,
                   stayed, known, leaked>>

(* Stop cancels the context all cycles descend from.                       *)
Cancel ==
    /\ ~cancelled
    /\ cancelled' = TRUE
    /\ UNCHANGED <<env, pc, ctxDone, cells, work, history>>

(* The running cycle's own deadline passes.                                *)
Expire ==
    /\ TimeoutsHappen
    /\ pc \in InCycle
    /\ ~ctxDone
    /\ ctxDone' = TRUE
    /\ UNCHANGED <<env, pc, cancelled, cells, work, history>>

(* Fault: every cycle resets the gauge vectors, as the collector did       *)
(* before it tracked its cells.                                            *)
BeginCycleWithReset ==
    /\ pc \in {"start", "wait"}
    /\ pc' = "listDevices"
    /\ ctxDone' = FALSE
    /\ tracking' = TRUE
    /\ registry' = {}
    /\ current' = {}
    /\ UNCHANGED <<env, cancelled, prev, work, history>>

(* The first cycle runs unconditionally, the others on a tick.  select     *)
(* chooses freely when the loop's context is done and a tick is pending.   *)
BeginCycle ==
    /\ pc \in {"start", "wait"}
    /\ pc' = "listDevices"
    /\ ctxDone' = FALSE
    /\ tracking' = TRUE
    /\ current' = {}
    /\ UNCHANGED <<env, cancelled, registry, prev, work, history>>

ExitLoop ==
    /\ pc = "wait"
    /\ cancelled
    /\ pc' = "done"
    /\ UNCHANGED <<env, cancelled, ctxDone, cells, work, history>>

(* GenerateDeviceMetrics lists the devices once, then visits them.         *)
ListDevices ==
    /\ pc = "listDevices"
    /\ pc' = "devices"
    /\ devTodo' = inventory
    /\ stayed' = inventory
    /\ UNCHANGED <<env, cancelled, ctxDone, cells,
                   taskDevs, metaxTodo, taskTodo, stale,
                   known, leaked, stayedUses, knownUses>>

(* The driver query decides the label tuple of every gauge of the device.  *)
(* No query takes the cycle's context: the pass goes on when it is done.   *)
WriteDevice(d) ==
    /\ pc = "devices"
    /\ d \in devTodo
    /\ devTodo' = devTodo \ {d}
    /\ \E label \in Labels, answered \in Answers :
          Set(DeviceCells(d, label, answered))
    /\ UNCHANGED <<env, pc, cancelled, ctxDone, prev, taskDevs, metaxTodo,
                   taskTodo, stale, history>>

(* GenerateContainerMetrics lists the devices again, then the containers.  *)
ListTaskDevices ==
    /\ pc = "devices"
    /\ devTodo = {}
    /\ pc' = "listPods"
    /\ taskDevs' = inventory
    /\ UNCHANGED <<env, cancelled, ctxDone, cells,
                   devTodo, metaxTodo, taskTodo, stale, history>>

ListPods ==
    /\ pc = "listPods"
    /\ pc' = "metax"
    /\ metaxTodo' = pods \cap MetaxContainer
    /\ taskTodo' = Matches \cap (taskDevs \X (pods \ MetaxContainer))
    /\ taskDevs' = {}
    /\ stayedUses' = taskTodo' \cap (inventory \X pods)
    /\ UNCHANGED <<env, cancelled, ctxDone, cells,
                   devTodo, stale, stayed, known, leaked, knownUses>>

(* A MetaX container's cells carry the devices Prometheus reports for it,  *)
(* in the inventory or not, at most as many as its annotation lists.       *)
WriteMetax(c) ==
    /\ pc = "metax"
    /\ c \in metaxTodo
    /\ metaxTodo' = metaxTodo \ {c}
    /\ \E reported \in SUBSET Device, answered \in Answers :
          /\ Cardinality(reported) <= Claims[c]
          /\ Set(TaskCells(reported, c, answered))
    /\ UNCHANGED <<env, pc, cancelled, ctxDone, prev, devTodo, taskDevs,
                   taskTodo, stale, history>>

MetaxDone ==
    /\ pc = "metax"
    /\ metaxTodo = {}
    /\ pc' = "tasks"
    /\ UNCHANGED <<env, cancelled, ctxDone, cells, work, history>>

WriteTask(d, c) ==
    /\ pc = "tasks"
    /\ <<d, c>> \in taskTodo
    /\ taskTodo' = taskTodo \ {<<d, c>>}
    /\ \E answered \in Answers : Set(TaskCells({d}, c, answered))
    /\ UNCHANGED <<env, pc, cancelled, ctxDone, prev, devTodo, taskDevs,
                   metaxTodo, stale, history>>

PassesDone == pc = "tasks" /\ taskTodo = {}

(* GenerateMetrics returns ctx.Err(): runOnce drops the cycle.             *)
DropCycle ==
    /\ PassesDone
    /\ ctxDone \/ cancelled
    /\ tracking' = FALSE
    /\ current' = {}
    /\ pc' = "wait"
    /\ leaked' = leaked \cup (current \ prev)
    /\ stayed' = {}
    /\ stayedUses' = {}
    /\ UNCHANGED <<env, cancelled, ctxDone, registry, prev, work, known, knownUses>>

(* commitCycle, first part: find the cells to delete.                      *)
BeginCommit ==
    /\ PassesDone
    /\ ~ctxDone /\ ~cancelled
    /\ IF tracking
          THEN pc' = "prune" /\ stale' = StaleCells
          ELSE pc' = "wait" /\ UNCHANGED stale
    /\ UNCHANGED <<env, cancelled, ctxDone, cells,
                   devTodo, taskDevs, metaxTodo, taskTodo, history>>

(* DeleteLabelValues, one cell at a time and visible at once to scrapes.   *)
PruneCell(k) ==
    /\ pc = "prune"
    /\ k \in stale
    /\ stale' = stale \ {k}
    /\ registry' = registry \ {k}
    /\ UNCHANGED <<env, pc, cancelled, ctxDone, prev, tracking, current,
                   devTodo, taskDevs, metaxTodo, taskTodo, history>>

(* commitCycle, last part: the cycle becomes the known-good one.           *)
FinishCommit ==
    /\ pc = "prune"
    /\ stale = {}
    /\ prev' = current
    /\ tracking' = FALSE
    /\ current' = {}
    /\ pc' = "wait"
    /\ known' = stayed
    /\ stayed' = {}
    /\ knownUses' = stayedUses
    /\ stayedUses' = {}
    /\ leaked' = leaked \ current
    /\ UNCHANGED <<env, cancelled, ctxDone, registry, work>>

Environment ==
    \/ \E S \in SUBSET Device : SnapshotSwap(S)
    \/ \E S \in SUBSET Container : PodsChange(S)
    \/ Cancel
    \/ Expire

Collector ==
    \/ BeginCycle
    \/ ListDevices
    \/ \E d \in Device : WriteDevice(d)
    \/ ListTaskDevices
    \/ ListPods
    \/ \E c \in Container : WriteMetax(c)
    \/ MetaxDone
    \/ \E d \in Device, c \in Container : WriteTask(d, c)
    \/ DropCycle
    \/ BeginCommit
    \/ \E k \in Cell : PruneCell(k)
    \/ FinishCommit

(* The loop has returned and its context stays cancelled.                  *)
Terminated == pc = "done" /\ UNCHANGED vars

Next == Environment \/ Collector \/ ExitLoop \/ Terminated

Spec == Init /\ [][Next]_vars

(* The goroutine is scheduled and its queries return: Prometheus answers   *)
(* or its connections break, for the collector puts no deadline on them    *)
(* (context.TODO()).  select takes a ready case it is offered again and    *)
(* again, being random.  Nothing is assumed of the environment.            *)
FairSpec == Spec /\ WF_vars(Collector) /\ SF_vars(ExitLoop)

-----------------------------------------------------------------------------

TypeOK ==
    /\ inventory \in SUBSET Device
    /\ pods \in SUBSET Container
    /\ pc \in Control
    /\ cancelled \in BOOLEAN
    /\ ctxDone \in BOOLEAN
    /\ registry \in SUBSET Cell
    /\ prev \in SUBSET Cell
    /\ tracking \in BOOLEAN
    /\ current \in SUBSET Cell
    /\ devTodo \in SUBSET Device
    /\ taskDevs \in SUBSET Device
    /\ metaxTodo \in SUBSET Container
    /\ taskTodo \in SUBSET (Device \X Container)
    /\ stale \in SUBSET Cell
    /\ stayed \in SUBSET Device
    /\ known \in SUBSET Device
    /\ leaked \in SUBSET Cell
    /\ stayedUses \in SUBSET (Device \X Container)
    /\ knownUses \in SUBSET (Device \X Container)

Exposed(C, d) == \E c \in C : c.gauge = "alloc" /\ c.dev = d

(* There is no window where a known device is missing (cells.go:24): a     *)
(* device that every snapshot contained since the last committed cycle     *)
(* listed it has an allocation series, whatever the running cycle, its     *)
(* label flips, its timeout or the deletions of a commit are doing.        *)
KnownDeviceExposed == \A d \in known : Exposed(registry, d)

(* Nor is a container that keeps running missing on one of its devices:    *)
(* the container pass lists devices and pods again, later than the device  *)
(* pass, so a pair of the two may be in one cycle and not in the next.  A  *)
(* pair that stayed since the last committed cycle listed it has its       *)
(* series whatever usage queries fail.  (MetaX containers have the series  *)
(* that Prometheus reports, and nothing is promised of them.)              *)
UseExposed(C, d, c) ==
    \E k \in C : k.gauge = "taskAlloc" /\ k.dev = d /\ k.tag = c
KnownUseExposed == \A u \in knownUses : UseExposed(registry, u[1], u[2])

(* Every exposed series belongs to the last committed cycle, to the        *)
(* running one, or was left by a dropped cycle; and all of those are       *)
(* exposed.  In particular a drop takes nothing away, and after a commit   *)
(* with no leftovers the registry is exactly the committed cycle.          *)
RegistryAccounted ==
    registry = (IF pc = "prune" THEN stale ELSE prev) \cup current \cup leaked

(* Between cycles a device has one label tuple per device gauge, unless a  *)
(* dropped cycle left another behind: a driver query that fails moves the  *)
(* device to the blank tuple and must not leave both (service/node.go sums *)
(* hami_core_size by node, which counts a device once per tuple).          *)
OneTuple(C) ==
    \A c1, c2 \in C :
        c1.gauge \in DeviceGauge /\ c2.gauge = c1.gauge /\ c2.dev = c1.dev => c2 = c1
OneTupleAtRest == pc \in {"wait", "done"} => OneTuple(registry \ leaked)

(* A cycle that runs to the end of its passes after its context is gone    *)
(* deletes nothing: only a commit of a cycle that was alive at its end     *)
(* removes a series, and never one this cycle has written.                 *)
OnlyCommitDeletes ==
    [][\A c \in registry \ registry' :
          pc = "prune" /\ c \in prev /\ c \notin current]_vars

(* A device that stays in the snapshots is exposed in the end, and for     *)
(* good, provided the collector is not stopped.                            *)
AppearsEventually ==
    \A d \in Device :
        <>[](d \in inventory /\ ~cancelled) => <>[]Exposed(registry, d)

(* cells.go:22-23, "vanished series disappear at the end-of-cycle prune":  *)
(* the device series of a device that left the snapshots for good are      *)
(* deleted, provided cycles keep being committed ...                       *)
Pruned ==
    \A d \in Device :
        <>[](d \notin inventory) /\ []<>(pc = "prune")
            => <>[](\A c \in registry : c.gauge \in DeviceGauge => c.dev # d)

(* ... and no cycle was dropped: then it is so.  Without that proviso it   *)
(* is not, for what only a dropped cycle wrote is in no committed one.     *)
VanishedPruned == [](leaked = {}) => Pruned

(* The collector implements the board of DeviceBoard: the devices with an  *)
(* allocation series are shown, the known ones vouched for.                *)
Board == INSTANCE DeviceBoard WITH
            shown   <- {d \in Device : Exposed(registry, d)},
            vouched <- known
ImplementsBoard == Board!Spec

(* The inductive invariant behind the safety properties.  The maps of the  *)
(* code follow the cycle; `stayed' devices are still to write or written;  *)
(* `known' devices were written by the committed cycle.                    *)
MapsFollowCycle ==
    /\ pc \in InCycle \cup {"prune"} => tracking
    /\ pc \notin InCycle \cup {"prune"} => current = {}
    /\ pc = "listDevices" => current = {}
    /\ pc # "devices" => devTodo = {}
    /\ stale \subseteq (IF pc = "prune" THEN prev \ current ELSE {})
    /\ leaked \cap prev = {}
StayedWritten ==
    /\ known \subseteq inventory /\ stayed \subseteq inventory
    /\ \A d \in known : Exposed(prev, d)
    /\ pc \in InPass \cup {"prune"} =>
          /\ known \subseteq stayed
          /\ \A d \in stayed : d \in devTodo \/ Exposed(current, d)
WrittenOnce ==
    /\ OneTuple(prev) /\ OneTuple(current)
    /\ \A c \in current : c.gauge \in DeviceGauge => c.dev \notin devTodo
(* The same of the pairs.  A known pair is still there when the container  *)
(* pass lists first the devices and then the containers, so it is listed.  *)
UsesFollowCycle ==
    /\ pc \notin {"metax", "tasks"} => taskTodo = {}
    /\ pc \notin {"metax", "tasks", "prune"} => stayedUses = {}
StayedUsesWritten ==
    /\ knownUses \subseteq Matches \cap (inventory \X (pods \ MetaxContainer))
    /\ stayedUses \subseteq Matches \cap (inventory \X (pods \ MetaxContainer))
    /\ \A u \in knownUses : UseExposed(prev, u[1], u[2])
    /\ pc = "listPods" => \A u \in knownUses : u[1] \in taskDevs
    /\ pc \in {"metax", "tasks", "prune"} =>
          /\ knownUses \subseteq stayedUses
          /\ \A u \in stayedUses : u \in taskTodo \/ UseExposed(current, u[1], u[2])
CollectorInv ==
    /\ UsesFollowCycle /\ StayedUsesWritten
    /\ TypeOK /\ MapsFollowCycle /\ RegistryAccounted /\ StayedWritten /\ WrittenOnce

-----------------------------------------------------------------------------
(* What comments of the code say and the code does not do.                 *)

(* exporter.go:186-188: an upstream error keeps the last-known cells, so   *)
(* no device series of a device that is still there is deleted.            *)
UpstreamErrorKeepsCells ==
    [][\A c \in registry \ registry' : c.gauge \in DeviceGauge => c.dev \notin known]_vars

(* cells.go:66-68: a cycle in which nothing was written leaves the         *)
(* previous cells intact.                                                  *)
NothingWrittenKeepsCells == [][current = {} => registry \subseteq registry']_vars

(* conf.proto:43: exporter.timeout is a hard cap on a refresh cycle, so no *)
(* further device or container is queried once it has passed.              *)
HardCap ==
    [][ctxDone /\ ctxDone' => /\ devTodo \subseteq devTodo'
                             /\ metaxTodo \subseteq metaxTodo'
                             /\ taskTodo \subseteq taskTodo']_vars

=============================================================================
