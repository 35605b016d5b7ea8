------------------------------ MODULE Overview ------------------------------
(***************************************************************************)
(* The landing page (views/monitor/overview/index.vue).  Its blocks share  *)
(* nothing but the time range; the state holds the block followed since    *)
(* the page was mounted:                                                   *)
(*                                                                         *)
(*   "counts"    the lists of nodes, cards and workloads (useFetchList),   *)
(*               and what is counted of them;                              *)
(*   "workload"  the two panels of workloads per node;                     *)
(*   "rate"      one of the gauges, "capacity" one of the bare figures;    *)
(*   "trend"     one of the charts, with its two data sources.             *)
(*                                                                         *)
(* The ranking panels are those of RankPanels.                             *)
(***************************************************************************)
EXTENDS ChartHooks, Figures, FiniteSets

CONSTANTS Nodes, Cards, Tasks, TypeOf,
          Schedulable, ExternalNodes,
          WorkloadOf    \* how many workloads run on a node

VARIABLE overview

Blocks == {"counts", "workload", "rate", "capacity", "trend"}
Lists == {"node", "card", "task"}
Sources == {"allocation", "usage"}
Everything == "everything"      \* the subject of a query about the cluster

All(list) == CASE list = "node" -> Nodes
               [] list = "card" -> Cards
               [] list = "task" -> Tasks

Fresh(block) ==
    [block |-> block, times |-> 60, choice |-> 60, echo |-> FALSE,
     lists |-> [l \in Lists |-> {}], listsAsked |-> {},
     rows |-> {}, rowsAsked |-> FALSE,
     gauge |-> Gauge(block = "rate"),
     sources |-> [s \in Sources |-> Empty]]

-----------------------------------------------------------------------------
(* Requests *)

\* setup and onMounted
FetchLists(o) ==
    IF o.block = "counts" THEN [o EXCEPT !.listsAsked = Lists] ELSE o

FetchNodeWorkload(o) ==
    IF o.block = "workload" THEN [o EXCEPT !.rowsAsked = TRUE] ELSE o

\* The hook is given no times here: the gauges have no series.
FetchGauge(o) ==
    IF o.block \in {"rate", "capacity"}
    THEN [o EXCEPT !.gauge = FetchInstantData(@, Everything)] ELSE o

\* fetchRangeData
FetchRange(o) ==
    IF o.block = "trend"
    THEN [o EXCEPT !.sources = [s \in Sources |->
                                  Ask(o.sources[s], Span(Everything, o.times))]]
    ELSE o

MayFetch(o) == \A s \in Sources : CanAsk(o.sources[s])

-----------------------------------------------------------------------------
Init == overview = None

Mount(block) ==
    /\ overview = None
    /\ LET asked == FetchNodeWorkload(FetchLists(FetchGauge(
                      FetchRange(Fresh(block)))))
       IN  overview' = FetchRange(EmitPresetRange(asked, 60))

Unmount == overview' = None

\* The watch on the language.  The chart is given new data sources, with the
\* data fetched so far; a request in flight answers to the old ones.
Translate ==
    overview' = IF overview = None THEN None
                ELSE [overview EXCEPT !.sources =
                        [s \in Sources |-> Abandon(overview.sources[s])]]

PickPreset(preset) ==
    /\ overview # None /\ MayFetch(overview)
    /\ preset # overview.choice
    /\ overview' = FetchRange(EmitPresetRange(overview, preset))

PressCustom ==
    /\ overview # None /\ overview.choice # Custom
    /\ overview' = ShowPicker(overview)

PickCustom(minutes) ==
    /\ overview # None /\ MayFetch(overview)
    /\ overview.choice = Custom
    /\ overview' = FetchRange(EmitCustomRange(overview, minutes))

Echo ==
    /\ overview # None /\ MayFetch(overview)
    /\ overview.echo
    /\ overview' = FetchRange(overview)

UserStep ==
    \/ \E preset \in Presets : PickPreset(preset)
    \/ PressCustom
    \/ \E minutes \in Customs : PickCustom(minutes)

-----------------------------------------------------------------------------
(* Answers *)

\* useFetchList: a list that does not come is left empty.
ListAnswered(list, ok, present) ==
    /\ overview # None /\ list \in overview.listsAsked
    /\ overview' = [overview EXCEPT
                      !.listsAsked = @ \ {list},
                      !.lists[list] = IF ok
                                      THEN All(list) \intersect present ELSE @]

\* fetchNodeWorkloadTop5, fetchNodeWorkloadDistribution
RowsAnswered(ok) ==
    /\ overview # None /\ overview.rowsAsked
    /\ overview' = [overview EXCEPT
                      !.rowsAsked = FALSE,
                      !.rows = IF ok THEN Nodes ELSE {}]

GaugeAnswered(ok) ==
    /\ overview # None
    /\ \E gauge \in GaugesAfter(overview.gauge, Everything, None, ok) :
         overview' = [overview EXCEPT !.gauge = gauge]

SourceAnswered(s, ok) ==
    /\ overview # None
    /\ \E field \in FieldsAfter(overview.sources[s], ok) :
         overview' = [overview EXCEPT !.sources[s] = field]

NetworkStep ==
    \E ok \in Outcomes :
        \/ \E list \in Lists, gone \in Nodes \union {None} :
             ListAnswered(list, ok, (Nodes \ {gone}) \union Cards \union Tasks)
        \/ RowsAnswered(ok)
        \/ GaugeAnswered(ok)
        \/ \E s \in Sources : SourceAnswered(s, ok)

-----------------------------------------------------------------------------
(* What the page shows *)

\* Fault: the nodes HAMi does not manage are counted with the others.
NodeCountsOfAll(o) ==
    [s \in {"true", "false"} |->
        Cardinality({n \in o.lists["node"] : (n \in Schedulable) = (s = "true")})]

\* nodes: each count leads to the list of nodes of that status.
NodeCounts(o) ==
    [s \in {"true", "false"} |->
        Cardinality({n \in o.lists["node"] \ ExternalNodes :
                        (n \in Schedulable) = (s = "true")})]

\* resourceCounts
ResourceCounts(o) == [l \in Lists |-> Cardinality(o.lists[l])]

\* getCardOptions: the slices of the pie, which lead to the list of cards of
\* that type.
CardSlices(o) ==
    LET types == {TypeOf[c] : c \in o.lists["card"]}
    IN  [t \in types |-> Cardinality({c \in o.lists["card"] : TypeOf[c] = t})]

\* nodeWorkloadDistributionOptions: how many nodes run 0-9, 10-19, ... workloads.
Buckets(o) ==
    LET most  == CHOOSE m \in {WorkloadOf[n] : n \in o.rows} \union {0} :
                    \A n \in o.rows : WorkloadOf[n] <= m
        count == most \div 10 + 1
        Bucket(n) == IF WorkloadOf[n] \div 10 < count THEN WorkloadOf[n] \div 10
                     ELSE count - 1
    IN  [b \in 0 .. count - 1 |-> Cardinality({n \in o.rows : Bucket(n) = b})]

\* getRangeOptions: a point of the second source is drawn over the time of the
\* point of the first with its index.
Charts(o) ==
    [axis |-> o.sources["allocation"].of,
     allocation |-> o.sources["allocation"].of, usage |-> o.sources["usage"].of]

Busy(o) ==
    \/ o.listsAsked # {} \/ o.rowsAsked \/ GaugeBusy(o.gauge)
    \/ \E s \in Sources : o.sources[s].flights # <<>>

States ==
    [block : Blocks, times : Presets \union Customs,
     choice : Presets \union {Custom}, echo : BOOLEAN,
     lists : [Lists -> SUBSET (Nodes \union Cards \union Tasks)],
     listsAsked : SUBSET Lists, rows : SUBSET Nodes, rowsAsked : BOOLEAN,
     gauge : GaugeStates({Everything}),
     sources : [Sources -> FieldStates(SpansOf({Everything}))]]
TypeOK ==
    overview # None =>
        /\ overview \in States
        /\ \A l \in Lists : overview.lists[l] \subseteq All(l)
=============================================================================
