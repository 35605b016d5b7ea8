# HAMi-WebUI: a TLA+ verification project

HAMi-WebUI shows how the devices (GPUs, NPUs, MLUs, DCUs) of a Kubernetes
cluster are shared by containers. A browser front end talks, through a stateless
NestJS proxy, to a Go backend; the backend keeps a picture of the cluster's nodes
and pods, answers the front end's queries from it, and writes a set of
Prometheus gauges from it for `/metrics`. This directory holds models of the
parts of the backend where state, time and failure meet, a model of the front
end's pages over an unreliable network, the TLC instances that check them, and
proofs of their safety properties for instances of any size.

Paths below are relative to `src/`; `exporter.go` is
`server/internal/exporter/exporter.go`, and so on for the files of
`server/internal/`; files of the front end are relative to
`packages/web/projects/vgpu/` or `packages/web/src/`.

## 1. Inventory

### Metrics collector: cycles and cells (`exporter/exporter.go`, `cells.go`, `metrics.go`)

*State.* `current`, the cells (gauge vector + label tuple) the running cycle has
written; `prev`, those of the last committed cycle; the gauge vectors themselves,
which scrapes read at any moment.
*Operations.* `loop` → `runOnce` → `GenerateMetrics` (device pass, then container
pass, with a separate pass for MetaX) → `commitCycle` or `dropCurrentCycle`.
*Interacts with.* The node repository (`ListAllDevices`, called twice per cycle),
the pod repository, Prometheus (some ten queries per device and several per
container), scrapes, `Stop`.
*Hard.* The repositories change under a running cycle; queries fail one by one; a
query decides the label tuple under which a device is exposed; a cycle outlives
its deadline anywhere; scrapes see every intermediate state.
*Correct when* a known device is never missing, a series that is exposed is
accounted for, a device is not exposed twice, only a commit deletes, devices
appear and vanish in the end.

### Metrics collector: lifecycle (`exporter.go` 115–195, `cmd/server/main.go`)

*State.* `cancel`, `done`, `generating`, the ticker.
*Operations.* `Start`, `Stop`, `loop`, the overlap guard of `runOnce`.
*Hard.* kratos runs `Start` and `Stop` in goroutines of their own and both touch
`cancel` and `done` without a lock; `Stop` waits for a loop that returns only
between cycles.
*Correct when* an orderly `Stop` leaves no goroutine, the app exits, and the
collector keeps refreshing. Ticks may be lost: the ticker's channel holds one, and a
tick that finds another there is dropped.

### Node repository (`data/node.go`) and device providers (`provider/*`)

*State.* The informer's store, the channel `nodeNotify` of capacity one, the
published map `nodes`.
*Operations.* `onAddNode`, `onUpdateNode`, `onDeletedNode` (each sends on the
channel); `updateLocalNodes` (receive, list per provider, fetch devices, publish);
readers.
*Hard.* Events arrive during a rebuild; the store changes between two listings of
one rebuild; some vendors' devices come from Prometheus, which may be down; a
node may match two selectors.
*Correct when* a node that has not changed is shown with its devices, no event is
lost, and the snapshot settles on the store.

### Pod repository (`data/pod.go`)

*State.* `pods`, UID → the pod and its containers' devices.
*Operations.* `onAddPod`, `onUpdatePod`, `onDeletedPod`, `fetchContainerInfo`.
*Hard.* Notifications lag behind the cluster; the watch breaks and deletions are
then notified as tombstones or, if the name was taken again, as updates; a panic
in a handler ends the process.
*Correct when* a running pod with devices is served with its present status, one
that is over or deleted is not, and the process gets past a pod that kills it.

### Pod device annotations (`provider/util/util.go`, `data/pod.go` 109–156)

Pure code: `DecodePodDevices` with one decoder per vendor, then
`fetchContainerInfo`, which gives entry `i` to container `i`.
*Hard.* Decoders skip segments and the index follows the kept ones only.
*Correct when* no device lands on the wrong container and no annotation the
scheduler writes panics.

### Usage accounting and query services (`biz/*.go`, `service/card.go`, `node.go`, `container.go`)

Stateless. They read both repositories one after the other (and Prometheus) and
add up what containers use of each device, matching UUIDs by prefix.
*Hard.* Providers make a device's `Id` and `AliasId` from an annotation or from what
Prometheus knows, so both can change between two reads of one request; prefixes are
ambiguous for numbered names and vacuous for empty ones.
*Correct when* a device is charged with the containers on it and no others, totals
agree with their parts, and no answer gives a container another's device.

### Monitor service (`service/monitor.go`)

Stateless; `fillLessSamplePoint` completes the answer of a range query to a
regular series.
*Hard.* The two data sources it must serve put their samples at different instants;
the first point is guessed from the first sample.
*Correct when* the series has one point per step, in order, with the samples at
their place.

### Web client and BFF (`utils/request.js`, `src/middleware/api-proxy/`)

Stateless: one call, through axios and the proxy.
*Hard.* Errors come as HTTP codes, as codes in a body with status 200 or 523, as a
response that breaks off, or not at all.
*Correct when* every call settles, and only with what the page asked for.

### Web list pages (`views/{card,node,task}/admin/index.vue`, `hooks/`)

*State.* Per page: filters (boxes, a text, the route's query, a click on the pie),
the options offered, rows, current page and page size, the requests in flight.
*Operations.* Setting each filter, paging, refreshing, choosing columns; answers.
*Hard.* Requests are not cancelled and answers come in any order; one filter drops
another that no longer fits; the options arrive late or not at all; the list shrinks
under the current page.
*Correct when* the answer to the last request is what the filters on the screen say,
filters never contradict each other, and the page the user is on exists.

### Web detail pages and overview (`views/*/admin/Detail.vue`, `views/monitor/overview/`)

*State.* Per page: the object's record, the gauges (`useInstantVector`), the trend
charts, the time range (`TrendTimeFilter.vue`), lookups of related objects.
*Operations.* Mounting, a new parameter under the same component, picking a range;
the answers, each of which may send the next request.
*Hard.* A gauge is three requests one after the other, each about the subject of the
page at the moment it is sent; several rounds are in flight at once; the router
reuses components; an empty answer leaves the figure of an earlier round.
*Correct when* a gauge at rest is about one object, a chart about the selected range,
and two pages that show the same object agree.

### Ranking panels (`TabTop.vue`, `previewBar.vue`, `views/task/admin/top.vue`)

*State.* The active tab, the data fetched per tab, lookups of clicked nodes.
*Hard.* A lookup outlives the page it was begun on.

### Web shell (`router/`, `layout/components/AppMain.vue`)

*State.* The route, the mounted page, the language.
*Hard.* It mounts, reuses and unmounts pages while their requests are in flight.
*Correct when* a console left alone settles: masks off, nothing awaited.

### Without state of their own

The Prometheus client, the HTTP/gRPC servers and wiring, the API definitions, the
deployment manifests. Of these only what they do to the others appears: Prometheus
answers or not, kubelet restarts the process, kratos calls `Start` and `Stop`.

## 2. Plan

| order | module | of | state |
|---|---|---|---|
| 1 | `MetricsCollector`, `DeviceBoard` | cycles and cells, and what they promise | done |
| 2 | `MetricsCollectorProofs` | its safety properties and the refinement | done |
| 3 | `CollectorLifecycle` | Start, Stop, loop | done |
| 4 | `NodeRepo` | node repository and providers | done |
| 5 | `PodRepo` | pod repository | done |
| 6 | `PodDeviceCodec` | annotations to containers | done |
| 7 | `DeviceAccounting` | usage sums and the services' mixed reads over the two repositories | done |
| 8 | `WebClient`, `TableHooks`, `Figures`, `CardList`, `NodeList`, `TaskList` | the client's calls, the list pages | done |
| 9 | `ChartHooks`, `CardDetail`, `NodeDetail`, `TaskDetail`, `RankPanels`, `Overview` | figures, charts, detail pages, overview | done |
| 10 | `WebConsole` | the pages composed under the router | done |
| 11 | `MonitorSeries` | resampling of range queries, against what was asked for | done |
| 12 | `CollectorLifecycleProofs` | `TypeOK`, `OrderlyStopDrains` | done |
| 13 | `NodeRepoProofs` | `TypeOK`, `SteadyNodesExact`, `NoLostUpdate` for every cluster | done |
| 14 | `PodRepoProofs` | `TypeOK` and the three properties of what is served, for every history | done |
| 15 | `PodDeviceCodecProofs`, `MonitorSeriesProofs` | annotations and ranges of any length | done |
| 16 | `DeviceAccountingProofs` | all safety properties of the accounting, for every cluster | done |
| 17 | `WebConsoleProofs` | the safety properties of the list pages | done |
| 18 | `WebConsoleProofs` | `DetailOfRoute`, `ChartsOfRange`, `PagesAgree` and `TypeOK` of the whole console | done |

`MetricsCollector` takes the two repositories as an environment that changes at any
moment, which is weaker than what `NodeRepo` and `PodRepo` do; composing them would
constrain it without adding behaviours; `DeviceAccounting` does the same. The web
pages share no state with each other but the route, and are composed in
`WebConsole`.

## 3. Modules and code

### `MetricsCollector`

One behaviour is the life of the collector goroutine. A cell is a gauge class, a
device and the label that can vary: the gauges of a device pass are two classes,
those whose value is at hand (`alloc`) and those behind a query (`usage`); likewise
for containers. Gauge values are left out. The label of a device cell is `full` or
`blank`, as the driver query answers (`queryDeviceAdditional`); that of a container
cell is the container.

| variable | code |
|---|---|
| `registry` | the cells of the gauge vectors, what a scrape returns |
| `prev`, `current`, `tracking` | `prev`, `current`, `current != nil` |
| `devTodo`, `taskDevs`, `metaxTodo`, `taskTodo` | what the range loops have still to visit |
| `stale` | what `commitCycle` has still to delete |
| `pc` | the position in `loop` and `GenerateMetrics` |
| `cancelled`, `ctxDone` | the loop's context, the cycle's deadline |
| `inventory`, `pods` | what the two repositories would return now |
| `stayed`, `known`, `stayedUses`, `knownUses`, `leaked` | history, for the properties |

Actions follow the code in its order: `BeginCycle`, `ListDevices`, `WriteDevice` per
device, `ListTaskDevices`, `ListPods`, `WriteMetax`, `WriteTask`, then `DropCycle`,
or `BeginCommit`, `PruneCell` per stale cell, `FinishCommit`. The writes of one
visit are one step; deletions of a commit are one step each. That is enough for the
properties: a visit only adds cells, and each property that speaks of a state is
about cells of the `alloc` class, which a visit always writes.

### `DeviceBoard`

What the header of `cells.go` promises, with devices only: a device on the board
that is vouched for leaves only after the board has stopped vouching for it.
`MetricsCollector` implements it with `shown` = the devices that have an allocation
series and `vouched` = `known`.

### `CollectorLifecycle`

`Start` is three steps (assign `cancel`, assign `done`, spawn the loop), `Stop` two
and a wait; `loopPc` walks through `runOnce` and the `select`; the ticker's channel
holds one tick. Whether kratos passes `Stop` a context that expires is chosen at the
start (`bounded`).

### `NodeRepo`

`present` and `count` are the informer's store, `pending` the calls of handlers it
owes, `notify` the token in `nodeNotify`, `building` the map under construction,
`nodes` the published one. A rebuild is one `ListNodes` per provider, one `Visit` per
node listed, and `Publish`. `Visit` models the `append` of `node.go:82` as it is: the
devices are appended to the object of *this* visit, not to the stored node.

### `PodRepo`

The informer is external and modelled from how client-go notifies a
`ResourceEventHandler`; the handlers are `Handle` (with `OnAddPod`, `OnDeletedPod`)
and `Panic`. A pod is a UID, whether it is annotated with its node, and its phase; the
UIDs in `Short` are the pods whose annotation makes `fetchContainerInfo` index out of
range, a fact `PodDeviceCodec` derives. What a list notifies is one notification per name
whose entry differs (`Changed`, `Differences`), in any order.

### `PodDeviceCodec`

One behaviour decodes one annotation; a segment is a sequence of items, an item a
number of fields and a UUID. The vendors differ in how they treat empty segments and
where their loop ends (`InLoop`, `Keeps`, `DecodeFails`, `DecodePanics`). `Devices` is the
loop of a decoder over one segment: its `n`-th device is the item with `n` items with a
comma up to it.

### `DeviceAccounting`

Names are records (`Name`): the plugin's UUID, the exporter's id, a numbered name such
as `<node>-dcu-3`, or the empty string; `HasPrefix` is `strings.HasPrefix` on them.
`Id`, `Alias` and `Listed` say what each provider's `FetchDevices` makes of a device,
depending on whether Prometheus knew it. A user lists the cards (`GetAllGPUs`:
`ListCards`, `CountCards`) and opens one (`GetAllContainers` by `DeviceId`: `OpenCard`,
one `Resolve` per container device, each with its own `FindDeviceByAliasId`), or asks
for a node's summary (`GetGPUSummary`; `buildNodeReply` sums alike). Snapshots and pods
change between any two steps. One vGPU per container device is counted; cores and memory
are summed by the same loop.

### `MonitorSeries`

`QueryRange` serves one query: `query` is what was asked, `samples` where the data
source had samples, `series` what was sent. `FillLessSamplePoint` is the set of
timestamps it yields, `SamplePointStart` the three
cases of `getSamplePointStartTime`. `Evaluated` is external: the instants at which the
data source evaluates the query, from the start of the range (Prometheus) or from the
multiple of the step before it (VictoriaMetrics). `SeriesSpec` is the service by itself,
one query after the other; the run steps it beside `PodDeviceCodec`.

### `WebClient`

One call, from the page to the back end and back. `Upstream` is what the back end can
do (answer, refuse by a domain code or an HTTP error, be down, break off, stay silent),
`Response` what the proxy makes of it, `Resolves` what axios and its interceptors do.
Pages await a promise, so all they see is `Outcomes`.

### `TableHooks`, `CardList`, `NodeList`, `TaskList`

`TableHooks` holds what the list pages share, as operators on the record of a page:
`Ask`, `Show` and `Miss` are `fetchTableData` before and after its `await`;
`SyncTotalAndClamp`, `ResetToFirstPage`, `PagedCount`, `TurnTo`, `Resize` are
`useLocalPagination` and the pagination component, `KeepColumns` the columns.

| field of `cardList`, `nodeList`, `taskList` | code |
|---|---|
| `uid`/`ip`/`name`, `node`, `type`, `status`, `device` | `filters` |
| `manual` | `hasManualNodeScope` |
| `typing` | the text box has the focus and its text is not applied |
| `nodes`, `types`, `options` | the options and whether they have come |
| `rows`, `page`, `loading` | `tableData`, `pagination`, `tableLoading` |
| `flights` | list requests awaited, oldest first |
| `newest` | history: where the answer to the last request is |

There is an action per handler: `OnTypeChange` prunes the node, resets the page and
asks, as the handler does. `Row` is what the columns render, used by `PagesAgree`.
An answer (`CardAnswers` and so on) is what the services' filters let through, short of
at most `MaxGone` objects that had left the snapshot by then.

### `ChartHooks`, `CardDetail`, `NodeDetail`, `TaskDetail`, `Overview`

A shown value is told apart by what its request asked for, the subject and the time
range; numbers are left out but in `Figures`, whose cells and rings the rows and cards
share. `FetchInstantData`, `UsedAnswered`, `TotalAnswered`, `PairDone` are
`useInstantVector`'s loop cut at its `await`s; the branches in which it keeps old data
are `TotalEmpty` (no sample) and `TotalZero`. `CalculatePrometheusStep` is
`utils/index.js`'s, whose chain of conditions is a set of `Tiers`, `EmitPresetRange`, `ShowPicker`, `EmitCustomRange`, `Echo` the time
filter.

The pages differ in what their queries name: the card's the route, the node's and the
workload's the record, the latter with empty names until it is there. `NoName` is the
record of a card or workload that is gone, with empty names, and the subject of such
names. Of the node's four gauges the three that start with a total of zero are
followed; the compute-usage gauge (`views/node/admin/Detail.vue:235`) starts with a total of
100, over which it computes a percentage when no total has come yet, and is left out. When a
component is reused, `watchEffect` re-runs the card's gauges and nothing else
(`WatchRoute`), so a reused page keeps the record of its first object; the model does.
`Translate` of `Overview` gives a chart new sources with the data fetched so far; the
answers on the way go to the old ones.

### `RankPanels`

A panel, its active tab and the data of its tabs; `ranks.clicked` holds the lookups
begun by clicks on nodes, which outlive the panel.

### `WebConsole`

`route` is the page and its parameter or query. `Open` mounts a page, `Leave` unmounts
it (or reloads, when lookups are gone too), `Turn` changes parameter or query under the
same component, `LookupAnswered` opens a node's page wherever the user is by then,
`Answer` settles any request of the page. `part` is the part of the page that is
followed: the gauges of a page, its charts, its table and its panels share the route
and the time range and nothing else, so a visit follows one of them.

Definitions marked `Fault:` are not part of a model: each is a plausible mistake in
the definition that follows it, put there to see that a property would notice.

## 4. What the runs check

| run | question | instance |
|---|---|---|
| `collector_devices` | can a device go missing, double or unaccounted? | 2 devices, driver query fails, timeouts, Stop |
| `collector_cycles` | do whole cycles converge? can a container that keeps running go missing? | 1 device, 1 NVIDIA and 1 MetaX container, timeouts, fairness |
| `lifecycle` | do Start, Stop and the loop end, drain, keep going? | one collector, Stop with or without a deadline |
| `nodes` | is the snapshot right, does it lose an event, does it heal? | 2 nodes (one matched by two selectors), 2 vendors, outages |
| `pods` | who is served when the informer has caught up, or restarts? | 2 names, 3 pods, one of them deadly, broken watches |
| `codec` | do devices land on their containers, who panics? is a resampled series the one asked for? | 2 devices, ≤ 2 containers, ≤ 3 segments of ≤ 2 items; ranges of ≤ 5 steps of ≤ 3 units |
| `views` | who is charged with what, whom does a task list name? | 5 cards on 3 nodes, two colliding numbers, 2 containers |
| `console` | do pages answer their filters, route and range, agree, and settle? | 2 nodes, 3 cards, 2 workloads, 7 pages, ≤ 2 requests of a field in flight, ≤ 2 user steps per visit |
| `collector_leftovers`, `collector_upstream`, `collector_nothing`, `collector_hardcap` | four comments against the code (section 7) | 1 device |

**What they show.** `KnownDeviceExposed`: a device in every snapshot since the last
committed cycle listed it has an allocation series in every state, in the middle of a
commit too. `KnownUseExposed`: so does a container on a device, the two in every snapshot and
pod state since; it is written by a pass that lists the two at different moments. `RegistryAccounted`: the registry is the committed cycle, the running one,
and leftovers of dropped cycles. `OneTupleAtRest`: a label flip does not leave a device
doubled, leftovers aside. `OnlyCommitDeletes`: a dropped cycle takes nothing away.
`AppearsEventually`, `VanishedPruned`: devices come and go, the latter provided no
cycle was dropped. `OrderlyStopDrains`, `ExitsEventually`,
`KeepsRefreshing`: a Stop that follows Start leaves no goroutine, the app exits, and
until it is told to stop cycles keep beginning. `SteadyNodesExact`, `NoLostUpdate`, `HealsAfterOutage`: the channel of
capacity one merges events only with rebuilds to come, and a rebuild without
Prometheus is repaired by the resync at the latest. `NothingMissing`,
`GhostsAreMissedDeletes`, `NeverResurrected`, `Recovers`: what is served too much is
exactly a pod whose deletion a broken watch hid. `NeverMisattributed`,
`PanicsOnGapsOnly`: skipped segments never shift a device to another container,
because a pod with too few entries panics first; and who panics is known.
`CardsExact`, `TotalsExact`: a device is charged too much only if its alias is empty
(MetaX without labels) or begins another's (DCU or MLU 1 and 10 of a node), too little
only if it is a Hygon device its exporter did not report. `DrillDownExact`: the task list
of a card is right even where the card list is not. `TasksNameTheirCards`: an answer
whose devices were looked up in different snapshots still names the right devices.
`SeriesExact`: no sample of the range is lost or moved, and the one instant that can be
left out is the start, when the first sample is exactly a step after it.

Of the console: `ListsAnswerTheirFilters`, a table that shows the last answer shows only
what the filters on the screen admit, whatever set or dropped them. `ScopeKept`, two
filters that exclude each other are never set or sent together. `NoBlankPage`, a list
with rows shows some. `PagesAgree`, counts of the overview, rows, heads and rings of an
object agree. `DetailOfRoute`, a gauge at rest has figure, total and percentage of the
page's one subject, and links name the object in the head. `ChartsOfRange`, a chart that
shows the last answer shows the selected range, both lines of an overview chart the same
one, and no range has more than the 11 000 steps Prometheus answers for.
`Settles`, a console left alone takes its masks off and awaits nothing.

What the properties of the console leave to the code as it is: an older answer that
arrives last stays in the table or chart (no request is cancelled or numbered); a gauge
keeps the total of an earlier round when an answer is empty, and the percentage when the
total is zero; a reused detail page keeps the record of its first object; the range
picker and the page may hand a range picked by hand to each other again and again
(`Echo`, excluded from `Settles`: whether it dies out depends on how the framework
compares arrays). The counts of the overview leave nodes with `isExternal` out while
the list they lead to contains them; the list shows these as `unknown`, and
`PagesAgree` counts rows by the status they show. The back end of this repository never
sends `isExternal`; the instance has one external node and card, so that the branches
the pages have for it are taken.

**Bounds, and why they are enough.**

- Two devices give every relation the collector's properties have between a device
  and another (one visited, one to visit; one stale, one written). Devices are
  interchangeable, so `SYMMETRY` is sound in the safety run; the fair run has none.
  What the bound leaves out for safety, the proofs cover.
- The fair collector run keeps one device and drops the failure of queries: a query
  that fails for good is exactly what `AppearsEventually` does not promise to survive
  with the same tuple. One container is charged to the device, for `KnownUseExposed`, and the MetaX
  one is what else the container pass writes; that failing usage queries do not matter to them
  is left to the proof.
- `Sizes = {2}`: a provider has none or two devices on a node, the least with which
  "only the last one stays" differs from "none" and from "all". `MaxPending = 1`: an
  event queued behind the token in the channel; a longer queue of identical calls adds
  nothing, for the handlers do not look at the object.
- `MaxPods = 3` over two names: a name that is reused, while another pod lives.
  `MaxQueue = 2` limits only when *new* changes come; a relist may exceed it.
- The five cards of `views` are the cases `Id` and `Alias` distinguish: two numbered
  names of which one begins the other, two MetaX devices of which one can be unlabelled,
  and an Ascend device, whose id changes while its alias does not. `Reports` holds the
  sets of devices the exporters may have reported: all, none, some of each node. NVIDIA
  names behave as Ascend's without Prometheus, MLU names as Hygon's with it.
- Three segments for two containers: as many as the scheduler writes (one empty after
  the last `;`), one fewer and one more. Seven MLU fields cross both thresholds (3, 6).

- `console`: two objects of a kind tell "the page's" from "another's"; the third card gives
  a node two cards and the pie a slice of two. One node, one card type and one workload
  match their filters and one of each does not. `MaxFlights`, `MaxLists` = 2 is the least
  at which answers can overtake; `MaxUses` = 2 steps of the user on one mounted page (what
  he can do beyond it starts from a page in the same kind of state), any number of visits.
  `MaxGone = 1`: an answer may miss one object. `Opened` and `LookedUp` name the cards
  whose pages are opened and the nodes clicked on: one that is managed, one that is not;
  one lookup that can be late. `Presets` are two of the buttons, `Customs` a range of
  11 000 days, the longest that is asked for in steps of one day, which is exactly at
  the limit. Ranges are told apart
  by their length. Texts: none, and one that finds the first object.
- Before another control is used the text box is left, which applies it, as its blur
  does; going from one page to another is `Leave` and `Open`.
- `MonitorSeries` runs beside `PodDeviceCodec`, with which it shares nothing: range
  queries are served once the shortest annotation has been decoded, so that no
  interleavings are explored. `MaxStep = 3`, `MaxSteps = 5`: samples before, at, within
  and beyond the first step, and ranges whose end is not on a step.

**Deadlock** is checked everywhere; states where a system has rightly stopped
(`Terminated`, `Decided`, `Idle`) have an explicit stuttering step.

**Fairness, and why the code justifies it.**

- A goroutine that can run runs: weak fairness on the collector's, the updater's and
  the informer's steps. For the collector that includes that a query *returns*, with
  an answer or an error. The code puts no deadline on queries (`context.TODO()`,
  `exporter.go:433`), so this is an assumption about Prometheus and the network.
- `select` picks a ready case at random, so a case that is ready again and again is
  taken: strong fairness on `ExitLoop` and `LoopReturn`, which compete with the tick.
- `Resync`: the informers are built with a resync period of an hour.
- `Relist`: client-go's reflector retries. `Restart`: kubelet restarts the container.
- `Network` (console): axios rejects a call after 60 s, so every request settles, with
  whatever outcome. Nothing is assumed of the user.
- Nothing is assumed of the environment: nobody has to stop the app, deadlines need not
  pass, changes need not come.

## 5. What is proved

Eight modules hold proofs: one per module of the back end, and one about the console with
all its pages. They hold for every value
of the constants that meets the module's assumption, hence for clusters of any size,
any history and any failures the model has; the runs cover one small instance each.
The bounds (`MaxPods`, `MaxQueue`, `MaxSegs`, `MaxSteps`, `MaxLists`, `MaxUses` ...) are
constants too: a theorem holds for each value, so it holds without them.

| theorem | property | says |
|---|---|---|
| **`MetricsCollectorProofs`** | | |
| `TypeCorrect` | `TypeOK` | |
| `Accounting` | `RegistryAccounted` | a series is of the committed cycle, the running one or a dropped one |
| `NoMissingDevice` | `KnownDeviceExposed` | a known device has its series in every state |
| `NoMissingUse` | `KnownUseExposed` | so has a known container on its device |
| `DeletionsAreCommits` | `OnlyCommitDeletes` | only a commit deletes |
| `UniqueTuples` | `OneTupleAtRest` | one label tuple per device and gauge between cycles |
| `BoardRefinement` | `ImplementsBoard` | the collector implements `DeviceBoard` |
| **`CollectorLifecycleProofs`** | | |
| `TypeCorrect` | `TypeOK` | |
| `GuardNeverHolds` | | the overlap guard of `runOnce` never holds (section 7, item 5) |
| `StopDrains` | `OrderlyStopDrains` | an orderly Stop leaves no loop |
| **`NodeRepoProofs`** | | |
| `TypeCorrect` | `TypeOK` | |
| `SteadyNodes` | `SteadyNodesExact` | an unchanged node of one vendor is shown as it is, in every state |
| `UpdatesNotLost` | `NoLostUpdate` | with no event left the snapshot lists the store's nodes |
| **`PodRepoProofs`** | | |
| `TypeCorrect` | `TypeOK` | |
| `NothingIsMissing` | `NothingMissing` | with an empty queue each pod with devices is served as it is |
| `NoneResurrected` | `NeverResurrected` | a pod that was removed stays removed |
| `GhostsWereMissed` | `GhostsAreMissedDeletes` | what is served too much was deleted unseen |
| **`PodDeviceCodecProofs`** | | |
| `TypeCorrect` | `TypeOK` | |
| `NeverOnAnother` | `NeverMisattributed` | no container gets another's devices |
| `OnlyGapsPanic` | `PanicsOnGapsOnly` | which well-formed annotations panic |
| **`MonitorSeriesProofs`** | | |
| `NoHoles` | `SeriesExact` | a resampled series is the one asked for, but for its start |
| **`DeviceAccountingProofs`** | | |
| `TypeCorrect` | `TypeOK` | |
| `TasksNamed` | `TasksNameTheirCards` | no answer names another container's device |
| `TasksOfTheCard` | `DrillDownExact` | the tasks of a card are those on it |
| `CardsCounted` | `CardsExact` | whose usage is too high or too low |
| `TotalsCounted` | `TotalsExact` | a node's total is the sum of its uses |
| **`WebConsoleProofs`** | | |
| `ListsTyped` | | the three list pages' part of `TypeOK` |
| `AnswersOfFilters` | `ListsAnswerTheirFilters` | the last answer shown is what the filters admit |
| `ScopesKept` | `ScopeKept` | no contradicting filters, on the screen or sent |
| `NeverBlank` | `NoBlankPage` | a list with rows shows some |
| `Typed` | `TypeOK` | every page holds what its record may hold |
| `DetailsOfRoutes` | `DetailOfRoute` | a page shows its own object, a gauge at rest one subject |
| `ChartsOfRanges` | `ChartsOfRange` | the last answer shown is of the selected range, of at most 11 000 steps |
| `AllPagesAgree` | `PagesAgree` | two pages say the same of one object |

**Assumptions.** Each module names one (`...Assumption`); TLC evaluates them on the
instances.

- The constants have their types. Nodes, pod names, cards and containers are finite
  sets, as those of a cluster are; the proofs count them.
- `NodeRepoAssumption`: a provider occurs once in the list `NewNodeRepo` makes.
- `AccountingAssumption`: a card is its node, vendor and number (below 1000) and the
  node's name is not empty, which is what the names of the providers are made from.
- `CodecAssumption`: the empty UUID is not one of a device.
- `SeriesAssumption`: a step is positive; `monitor.go` divides by it.
- `ConsoleAssumption`: page sizes are positive and one is the largest (a page starts with
  it); cards and workloads are finitely many; a text finds objects that exist and the empty
  box, which is no filter, finds all; ranges have a positive number of minutes and an hour is
  one of the buttons (the filter starts with it). A card is on a node and a workload on cards,
  since the back end takes both from what runs there. `None`, the absence of a value, and
  `NoName`, the record with empty names, are no object, type or length.

**Inductive invariants.** Hardly any property above is inductive by itself. What has to
be added are definitions at the end of the component's module, called there the parts
of the inductive invariant. TLC found them to hold on the instances before they were
proved. Each is proved in a theorem or lemma of its own that uses the earlier ones;
under it there is one step per action.

- `MetricsCollector`, by `CollectorInv`. `MapsFollowCycle`: the code's maps follow the
  cycle — `current` is empty outside a cycle, the list to delete is a part of
  `prev \ current` and empty outside a commit, leftovers are disjoint from `prev`; with it
  `RegistryAccounted` is inductive. `StayedWritten`: a device listed by this cycle and still
  there is to be written or written, a known one was written by the committed cycle; so a
  commit, which deletes from `prev \ current`, cannot take a known device. `UsesFollowCycle` and
  `StayedUsesWritten` say that of pairs of a device and a container: a known pair is there at
  both moments of listing, so it is among what the pass has still to write. `WrittenOnce`: a
  device still to visit has no cell in `current`, so a visit cannot give it a second tuple.
  The refinement maps a visit to `Show`, a deletion to `Hide`, a snapshot change to
  `Release` and `FinishCommit` to `Review`; everything else stutters.
- `CollectorLifecycle`: `GeneratingInCycle` ties the flag to the loop's position,
  `DoneFollowsLoop` the channel `done` to Start's and the loop's, `StopFollowsStart` what
  an orderly Stop has seen to how it can have returned.
- `NodeRepo`: `RebuildExact` says, for a node untouched since the rebuild began, that it is
  in the snapshot under construction if and only if one of the selectors passed so far
  matches it, with its devices. Published, that is `SteadyNodesExact`. `NothingUnseen` says
  that without an event or token on its way nothing has changed since `Receive`: the
  channel of capacity one loses none because the token is taken *before* the store is read.
- `PodRepo` needs the most. `Identities`: a UID lives under one name, and an older view of a
  pod is never ahead of a newer one. `StoreFollows`: a watching informer's store is the
  cluster. `StoreServed`: a pod the informer knows is served as it is, or its *last*
  notification in the queue will see to it. `EndsAreFinal`: after a notification that ends
  a pod none sets it again. `ServedJustified`: what is served, or will be when the next `i`
  notifications have been handled, holds its devices, is ended further back in the queue, or was
  deleted unseen. They speak of positions in the queue, because handlers act on what was
  true when a notification was sent.
- `PodDeviceCodec`: `Numbered` says that a decoder with as many entries as segments gone
  through has skipped none, so entry `k` is segment `k`; a pod with fewer entries panics in
  `BuildContainer`. `Tallied` and `SingleEntry` say how many entries each vendor has by then.
- `DeviceAccounting`: `OneEach`, `Gathered` and `Current`, what a request has gathered and
  that it is about the repositories as they are while nothing changes. The rest is about
  names: `AliasOfOne` (an alias equals the UUID of one card at most), `OwnCharge` (an alias
  prefixes its own card's UUID unless the device is dark), `FoundOnItsCard` (the exact
  lookup followed by the prefix test on the Id singles out the opened card).
- `MonitorSeries` has no invariant to strengthen: `SeriesExact` is about one query at a
  time. The work is in the arithmetic of steps: `Quotient`, `Remainder` and `StepsApart`
  reduce the three cases of `getSamplePointStartTime` to multiples of the step.
- `WebConsole`, by `ListsInv`, which says the same of each list (`CardsKept`, `TasksKept`,
  `NodesKept`): `LastAwaited` and `AskedAsFiltered`, the request whose answer is awaited is the
  last in flight and asks for what the filters say, and the rows shown after it are among
  those they admit. That survives an older answer, which is taken out from under the
  last one (`Landed`), and a failed one. `ScopeChosen` says it of filters: a node is set only
  by hand, and then sent, so what the filters promise of a pair of them holds of the requests
  as well (`ScopeAsked`). `OnAPage`: the page knows the number of rows and is one of theirs;
  that such a page holds rows is `PagesCover`, about the rounding of a division.
  The route and the other pages do not matter beyond what they may do to a list, which
  `CardListSteps`, `TaskListSteps` and `NodeListSteps` read off `Next`.
- `WebConsole` beyond its lists, by `DetailsInv`. Of every value a page awaits, `FieldFor` says
  that while the last request is out it is the last in flight and about what it should be, and
  once its answer is shown that is what is shown; an older answer, which is shown as well, then
  leaves a value that is not taken for the last (`FieldAnswered`). `GaugeFor` ties the three requests
  of a gauge together: each is about the page's subject, the percentage is of the figure and the
  total that are shown, and a gauge without a subject has asked nothing. It survives the
  rounds in flight because the next round makes the total and the series due before they are asked
  for, so an answer of the previous round cannot pass for one of this (`GaugeFetched`,
  `UsedCame`, `TotalCame`, `PairFinished`). `CardAbout`, `NodeAbout`, `TaskAbout` say what is known of the
  object, in the order in which it comes: the record, the node it names, its cards; `CardCharts`,
  `TaskCharts`, `OverviewCharts` that a chart asks again with every range. That these hold of a
  page reused for another object rests on the one hook that looks at the route again
  (`CardReused`). A page is in its state only under its route (`CardKept`, ...).
  The number of steps of a range is arithmetic alone: `StepsBounded`, from `TierOfRange` and
  `RoundedUp`, for every number of minutes. `PagesAgree` needs no invariant: what two pages
  compute of an object agrees in every state; the theorem says it does so for every cluster.

The induction theorems of the proof library take an operator, which the installed
provers cannot instantiate. Where the proofs count (`Counting`, `VgpuUsedCounts`, `NthElement`,
`LeastSample`) they use a least counterexample: a set of numbers with 0 and closed under
successor holds all, because `<` is well-founded.

## 6. What is only model-checked

- Liveness: `AppearsEventually`, `VanishedPruned`, `ExitsEventually`,
  `KeepsRefreshing`, `HealsAfterOutage`, `Recovers`, `Settles`. Fairness and ENABLED are
  out of the proof system's reach.

Every safety property of a passing run is a theorem. `WebClient` defines the last of the calls in
flight and the calls without one of them itself (`Last`, `RemoveAt`): the console makes an
instance of each page's module, and the community modules with these operators would come
with every one of the instances, for the prover to carry through each step.

## 7. Where comments and code disagree

1. `collector_leftovers` — `cells.go:24` says vanished series disappear at the prune.
   A series that only a dropped cycle wrote is in no committed cycle; if its device is
   gone by the next one, no prune compares with it and it stays until the process ends.
2. `collector_upstream` — `exporter.go:186-188` counts an upstream error among what
   keeps the last known snapshot. A failed query only skips its cell; the cycle commits
   and deletes the series.
3. `collector_nothing` — `cells.go:67` leaves `prev` intact when nothing was written.
   The map is made at the start of the cycle (`exporter.go:208`), so the guard never
   holds and a cycle over an empty list deletes everything.
4. `collector_hardcap` — `conf.proto:43` calls the timeout a hard cap. Queries and loops
   do not look at the cycle's context; past its deadline the cycle visits every device
   and container, and only then is dropped.
5. `exporter.go:164-166` says that a cycle longer than the interval "simply skips the next
   tick", by the guard on `generating`, and line 171 logs the skip. The guard never
   holds: the loop calls `runOnce` itself and takes no tick before it returns
   (`GuardNeverHolds`, proved). The tick waits in the ticker's channel, which has room for
   one, and begins a cycle right after the long one (`TakeTick` after `EndCycle`); only a
   further tick, which finds that one in the channel, is lost, and nothing logs it. So
   cycles longer than the interval follow each other without a pause. Cycles do not
   overlap, which is what the comment is after; the run `lifecycle` has these behaviours,
   and no run is spent on the wording.

## 8. Not modelled, and why

- Gauge values, and the arithmetic and wording of queries: no property of the modules
  above is about them. Of the sums of `biz/` only the count of vGPUs is modelled.
- `GetGPU`, `GetContainer`, the filters by name, type and status, and the capacities the
  services take from Prometheus. MetaX nodes without sGPU, whose aliases are numbered.
- The order in which handlers and servers start before the first rebuild: `/readyz`
  answers as soon as the server listens, which is a fact of `server/http.go` and no
  state of a repository.
- A selector that does not parse (`node.go:61-65`) ends the updater for good. The model
  has the branch (`Fatal`), no run configures it.
- The parsing of node annotations by the providers; memory, cores and types of a device.
- `views/dashboard/index.vue` of `packages/web/src` (9596 lines), the login and
  password pages, `FormPlus` and most of the widget library, `useRequest`,
  `useRangeVector`, `useInstantVector2` and most of `utils/`: no page of the router
  reaches them, or no page uses them.
- Layout, colours, tooltips and wording of tables and charts; menus, theme and settings.
- The card and workload lists as the detail pages embed them (filters given as
  properties), and the choice of columns there: the same component over fewer filters.
- `QueryInstant`, which converts one answer; what `QueryRange` does on an error.
- Prometheus's client, manifests, generated code: no logic a state machine would make
  clearer.
