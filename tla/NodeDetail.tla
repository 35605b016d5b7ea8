----------------------------- MODULE NodeDetail -----------------------------
(***************************************************************************)
(* The page of one node (views/node/admin/Detail.vue): its record, and     *)
(* gauges whose queries name the node as the record does, so that nothing  *)
(* is asked before the record is there.  One gauge is followed: what is    *)
(* allocated of compute or memory, or used of memory.  These start with a  *)
(* total of zero; the gauge of compute use starts with one of 100, and is  *)
(* left out.                                                               *)
(* The router reuses the component from one node to the next, and nothing  *)
(* then asks for the record again.                                         *)
(***************************************************************************)
EXTENDS ChartHooks, Figures

CONSTANTS Nodes,
          Schedulable,    \* the nodes that accept pods
          ExternalNodes   \* the nodes HAMi does not manage

VARIABLE nodeDetail

Panels == {"rate", "usage"}

Fresh(uid, panel) ==
    [uid |-> uid, panel |-> panel, reused |-> FALSE,
     times |-> 60, choice |-> 60, echo |-> FALSE,
     detail |-> None, asked |-> uid, gauge |-> Gauge(TRUE)]

WatchTimes(d) ==
    [d EXCEPT !.gauge = FetchRangeData(@, d.detail, d.times)]

MayFetch(d) ==
    CanAsk(d.gauge.used) /\ CanAsk(d.gauge.total) /\ CanAsk(d.gauge.series)

-----------------------------------------------------------------------------
Init == nodeDetail = None

\* setup: the hook finds no name in its queries; the time filter hands over
\* its own range.
Mount(uid, panel) ==
    /\ nodeDetail = None
    /\ LET fresh == Fresh(uid, panel)
           asked == [fresh EXCEPT !.gauge = FetchInstantData(@, fresh.detail)]
       IN  nodeDetail' = WatchTimes(EmitPresetRange(asked, 60))

Unmount == nodeDetail' = None

WatchRoute(uid) ==
    /\ nodeDetail # None
    /\ nodeDetail' = [nodeDetail EXCEPT !.uid = uid, !.reused = TRUE]

-----------------------------------------------------------------------------
PickPreset(preset) ==
    /\ nodeDetail # None /\ MayFetch(nodeDetail)
    /\ preset # nodeDetail.choice
    /\ nodeDetail' = WatchTimes(EmitPresetRange(nodeDetail, preset))

PressCustom ==
    /\ nodeDetail # None /\ nodeDetail.choice # Custom
    /\ nodeDetail' = ShowPicker(nodeDetail)

PickCustom(minutes) ==
    /\ nodeDetail # None /\ MayFetch(nodeDetail)
    /\ nodeDetail.choice = Custom
    /\ nodeDetail' = WatchTimes(EmitCustomRange(nodeDetail, minutes))

Echo ==
    /\ nodeDetail # None /\ MayFetch(nodeDetail)
    /\ nodeDetail.echo
    /\ nodeDetail' = WatchTimes(nodeDetail)

UserStep ==
    \/ \E preset \in Presets : PickPreset(preset)
    \/ PressCustom
    \/ \E minutes \in Customs : PickCustom(minutes)

-----------------------------------------------------------------------------
\* refresh: the record, and with its name the hook's queries.
DetailAnswered(ok) ==
    /\ nodeDetail # None /\ nodeDetail.asked # None
    /\ LET node == nodeDetail.asked
       IN  nodeDetail' =
             IF ok
             THEN [nodeDetail EXCEPT !.asked = None,
                                     !.detail = node,
                                     !.gauge = FetchInstantData(@, node)]
             ELSE [nodeDetail EXCEPT !.asked = None]

GaugeAnswered(ok) ==
    /\ nodeDetail # None
    /\ \E gauge \in GaugesAfter(nodeDetail.gauge, nodeDetail.detail,
                                nodeDetail.times, ok) :
         nodeDetail' = [nodeDetail EXCEPT !.gauge = gauge]

NetworkStep ==
    \E ok \in Outcomes : DetailAnswered(ok) \/ GaugeAnswered(ok)

-----------------------------------------------------------------------------
(* What the page shows *)

Header(d) ==
    [name   |-> d.detail,
     status |-> IF d.detail = None THEN "unknown"
                ELSE Status(d.detail \in ExternalNodes, d.detail \in Schedulable)]

\* The summary: a dash for every field of a record that is not there.
Summary(d) ==
    LET text == IF d.detail = None THEN Dash ELSE d.detail
    IN  [ip |-> text, uid |-> text, osImage |-> text, kubeletVersion |-> text,
         containerRuntimeVersion |-> text, architecture |-> text,
         kernelVersion |-> text, creationTimestamp |-> text]

\* What is allocated is not shown of a node HAMi does not manage.
Shown(d) == ~ (d.panel = "rate" /\ d.detail \in ExternalNodes)

ResourceTexts(d) ==
    [total   |-> d.gauge.total.of,
     percent |-> IF Shown(d) THEN d.gauge.percent ELSE Dash]

\* The block of the page: beside the texts, a ring for each percentage.
ResourceCard(d) == [texts |-> ResourceTexts(d), ring |-> Shown(d)]

Charts(d) == [series |-> d.gauge.series.of]

Busy(d) == d.asked # None \/ GaugeBusy(d.gauge)

States ==
    [uid : Nodes, panel : Panels, reused : BOOLEAN,
     times : Presets \union Customs, choice : Presets \union {Custom},
     echo : BOOLEAN,
     detail : Nodes \union {None}, asked : Nodes \union {None},
     gauge : GaugeStates(Nodes)]
TypeOK == nodeDetail # None => nodeDetail \in States
=============================================================================
