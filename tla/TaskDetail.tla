----------------------------- MODULE TaskDetail -----------------------------
(***************************************************************************)
(* The page of one workload (views/task/admin/Detail.vue).  Its record is  *)
(* followed by the list of all cards, whose type replaces the name of the  *)
(* vendor in the record, and by the lookup of its node.  The queries name  *)
(* the workload as the record does, the gauges' with empty names until it  *)
(* is there.  Workloads of vendors that are not monitored have no time     *)
(* filter and no charts.                                                   *)
(*                                                                         *)
(* As on the other pages, one gauge or one chart is followed.              *)
(***************************************************************************)
EXTENDS ChartHooks, Figures

CONSTANTS Tasks, Cards, Nodes,
          CardsOf,      \* the cards of a workload
          StatusOf,     \* the status of its pod
          NodeOf, TypeOf,
          VendorOf,     \* the type the annotation of a workload names
          Monitored,    \* the types whose names start with NVIDIA or MXC
          NoName        \* the record of a workload that is gone, whose
                        \* names are empty, and the subject of such names

VARIABLE taskDetail

TaskStatuses == {"closed", "success", "failed", "unknown"}
Panels == {"gauge", "trend"}
FirstCard(t) == CHOOSE c \in CardsOf[t] : TRUE
NodeOfTask(t) == NodeOf[FirstCard(t)]

Fresh(task, panel) ==
    [task |-> task, panel |-> panel, reused |-> FALSE,
     times |-> 60, choice |-> 60, echo |-> FALSE,
     detail |-> None, type |-> None, listed |-> {}, nodeUid |-> None,
     stage |-> "detail", asked |-> task,
     gauge |-> Gauge(FALSE), line |-> Empty]

\* detail.name || ''
GaugeSubject(d) == IF d.detail = None THEN NoName ELSE d.detail

FetchInstant(d) ==
    IF d.panel = "gauge"
    THEN [d EXCEPT !.gauge = FetchInstantData(@, GaugeSubject(d))]
    ELSE d

FetchLineData(d) ==
    IF d.panel = "trend" THEN [d EXCEPT !.line = Ask(@, Span(d.detail, d.times))]
    ELSE d

\* The time filter, and what its mounting does: it hands over its own range.
HasFilter(d) == d.type \in Monitored
MountFilter(before, d) ==
    IF HasFilter(d) /\ ~ HasFilter(before)
    THEN FetchLineData(EmitPresetRange(d, 60)) ELSE d
MayFetch(d) == CanAsk(d.gauge.used) /\ CanAsk(d.line)

-----------------------------------------------------------------------------
Init == taskDetail = None

Mount(task, panel) ==
    /\ taskDetail = None
    /\ taskDetail' = FetchInstant(Fresh(task, panel))

Unmount == taskDetail' = None

WatchRoute(task) ==
    /\ taskDetail # None
    /\ taskDetail' = [taskDetail EXCEPT !.task = task, !.reused = TRUE]

-----------------------------------------------------------------------------
PickPreset(preset) ==
    /\ taskDetail # None /\ HasFilter(taskDetail) /\ MayFetch(taskDetail)
    /\ preset # taskDetail.choice
    /\ taskDetail' = FetchLineData(EmitPresetRange(taskDetail, preset))

PressCustom ==
    /\ taskDetail # None /\ HasFilter(taskDetail) /\ taskDetail.choice # Custom
    /\ taskDetail' = ShowPicker(taskDetail)

PickCustom(minutes) ==
    /\ taskDetail # None /\ HasFilter(taskDetail) /\ MayFetch(taskDetail)
    /\ taskDetail.choice = Custom
    /\ taskDetail' = FetchLineData(EmitCustomRange(taskDetail, minutes))

Echo ==
    /\ taskDetail # None /\ HasFilter(taskDetail) /\ MayFetch(taskDetail)
    /\ taskDetail.echo
    /\ taskDetail' = FetchLineData(taskDetail)

UserStep ==
    \/ \E preset \in Presets : PickPreset(preset)
    \/ PressCustom
    \/ \E minutes \in Customs : PickCustom(minutes)

-----------------------------------------------------------------------------
(* onMounted, one await after the other; a failure ends it.                 *)

\* The record: the watch on it asks for the charts, the hook for the gauges.
\* Its type decides whether there is a time filter.
DetailAnswered(ok, record) ==
    /\ taskDetail # None /\ taskDetail.stage = "detail" /\ MayFetch(taskDetail)
    /\ record \in {taskDetail.asked, NoName}
    /\ IF ~ ok
       THEN taskDetail' = [taskDetail EXCEPT !.stage = "done"]
       ELSE taskDetail' = MountFilter(taskDetail, FetchInstant(FetchLineData(
                            [taskDetail EXCEPT
                               !.stage = "cards",
                               !.detail = record,
                               !.type = IF record = NoName THEN None
                                        ELSE VendorOf[record]])))

\* The cards, less those whose nodes are gone.  The type of the first card, if
\* it is there, becomes the workload's, which may then get its time filter.
CardsAnswered(ok, present, carriesUid) ==
    /\ taskDetail # None /\ taskDetail.stage = "cards" /\ MayFetch(taskDetail)
    /\ LET task    == taskDetail.detail
           named   == task # NoName
           nodeUid == IF carriesUid /\ named THEN NodeOfTask(task) ELSE None
           listed  == [taskDetail EXCEPT
                         !.listed = present,
                         !.nodeUid = nodeUid,
                         !.type = IF named /\ FirstCard(task) \in present
                                  THEN TypeOf[FirstCard(task)] ELSE @,
                         !.stage = IF named /\ nodeUid = None
                                   THEN "nodes" ELSE "done"]
       IN  taskDetail' = IF ok THEN MountFilter(taskDetail, listed)
                         ELSE [taskDetail EXCEPT !.stage = "done"]

NodesAnswered(ok, present) ==
    /\ taskDetail # None /\ taskDetail.stage = "nodes"
    /\ taskDetail' = [taskDetail EXCEPT
                        !.stage = "done",
                        !.nodeUid = IF ok /\ present
                                    THEN NodeOfTask(taskDetail.detail) ELSE None]

GaugeAnswered(ok) ==
    /\ taskDetail # None
    /\ \E gauge \in GaugesAfter(taskDetail.gauge, GaugeSubject(taskDetail),
                                None, ok) :
         taskDetail' = [taskDetail EXCEPT !.gauge = gauge]

LineAnswered(ok) ==
    /\ taskDetail # None
    /\ \E line \in FieldsAfter(taskDetail.line, ok) :
         taskDetail' = [taskDetail EXCEPT !.line = line]

NetworkStep ==
    \E ok \in Outcomes :
        \/ \E record \in Tasks \union {NoName} : DetailAnswered(ok, record)
        \/ \E gone \in Nodes \union {None}, carriesUid \in BOOLEAN :
             CardsAnswered(ok, {c \in Cards : NodeOf[c] # gone}, carriesUid)
        \/ \E present \in BOOLEAN : NodesAnswered(ok, present)
        \/ GaugeAnswered(ok)
        \/ LineAnswered(ok)

-----------------------------------------------------------------------------
(* What the page shows *)

Filled(d) == d.detail \notin {None, NoName}

Header(d) ==
    [name   |-> IF Filled(d) THEN d.detail ELSE Dash,
     status |-> IF Filled(d) /\ StatusOf[d.detail] \in TaskStatuses
                THEN StatusOf[d.detail] ELSE "unknown",
     node   |-> IF Filled(d) THEN NodeOfTask(d.detail) ELSE Dash]

\* The popup of the related cards: a card that is not in the list is given the
\* type of the workload.
RelatedCards(d) ==
    IF Filled(d)
    THEN {[uuid |-> c, model |-> IF c \in d.listed THEN TypeOf[c] ELSE d.type] :
            c \in CardsOf[d.detail]}
    ELSE {}

\* Of a type that is not monitored the page says so, in place of the charts.
Charts(d) ==
    IF d.type # None /\ ~ HasFilter(d)
    THEN [trend |-> None, supported |-> FALSE]
    ELSE [trend |-> d.line.of, supported |-> TRUE]

\* The resource overview: a dash until a figure is there.
ResourceCard(d) ==
    [count |-> IF d.gauge.used.of = None THEN Dash ELSE d.gauge.used.of]

\* handleNodeJump, handleGpuJump
NodeLink(d) ==
    IF d.nodeUid = None THEN None
    ELSE [uid |-> d.nodeUid, name |-> Header(d).node]

Busy(d) == d.stage # "done" \/ GaugeBusy(d.gauge) \/ d.line.flights # <<>>

Types ==
    {VendorOf[t] : t \in Tasks} \union {TypeOf[c] : c \in Cards} \union {None}
States ==
    [task : Tasks, panel : Panels, reused : BOOLEAN,
     times : Presets \union Customs, choice : Presets \union {Custom},
     echo : BOOLEAN,
     detail : Tasks \union {None, NoName}, type : Types, listed : SUBSET Cards,
     nodeUid : Nodes \union {None},
     stage : {"detail", "cards", "nodes", "done"}, asked : Tasks,
     gauge : GaugeStates(Tasks \union {NoName}),
     line : FieldStates(SpansOf(Tasks \union {None, NoName}))]
TypeOK == taskDetail # None => taskDetail \in States
=============================================================================
