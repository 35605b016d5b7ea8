----------------------------- MODULE CardDetail -----------------------------
(***************************************************************************)
(* The page of one card (views/card/admin/Detail.vue).  It is made of      *)
(* panels that share the route, the time range and the card's record:      *)
(* gauges (useInstantVector), trend charts and readings (fetchLineData).   *)
(* The gauges differ only in their queries, and so do the charts: the      *)
(* state holds one panel, the one followed since the page was mounted.     *)
(*                                                                         *)
(* The router reuses the component from one card to the next.              *)
(***************************************************************************)
EXTENDS ChartHooks, Figures

CONSTANTS Cards, Nodes, NodeOf, TypeOf, Healthy, External,
          SharesOf,  \* how many vGPUs of a card are used and how many it has
          NoName     \* the record of a card the snapshot no longer has, whose
                     \* names are empty, counts zero and health false

VARIABLE cardDetail

Panels == {"rate", "usage", "trend", "reading"}

\* reused is history: the route went from another card to this one.
Fresh(uuid, panel) ==
    [uuid |-> uuid, panel |-> panel, reused |-> FALSE,
     times |-> 60, choice |-> 60, echo |-> FALSE,
     detail |-> None, deviceNo |-> None, nodeUid |-> None,
     asked |-> uuid, lookup |-> None,
     gauge |-> Gauge(panel = "rate"), line |-> Empty, reading |-> Empty]

HasGauge(d) == d.panel \in {"rate", "usage"}

-----------------------------------------------------------------------------
(* Requests.  The queries name the card of the route.                       *)

FetchInstant(d) ==
    IF HasGauge(d) THEN [d EXCEPT !.gauge = FetchInstantData(@, d.uuid)] ELSE d

FetchRange(d) ==
    IF HasGauge(d) THEN [d EXCEPT !.gauge = FetchRangeData(@, d.uuid, d.times)]
    ELSE d

FetchLineData(d) ==
    CASE d.panel = "trend" ->
           [d EXCEPT !.line = Ask(@, Span(d.uuid, d.times))]
      [] d.panel = "reading" ->
           [d EXCEPT !.reading = Ask(@, d.uuid)]
      [] OTHER -> d

\* Fault: only the charts follow the time range, the gauges' series do not.
WatchTimesOfCharts(d) == FetchLineData(d)

WatchTimes(d) == FetchRange(FetchLineData(d))

\* The watches find room for the requests they may send.
MayFetch(d) ==
    /\ CanAsk(d.gauge.used) /\ CanAsk(d.gauge.total) /\ CanAsk(d.gauge.series)
    /\ CanAsk(d.line) /\ CanAsk(d.reading)

-----------------------------------------------------------------------------
Init == cardDetail = None

\* setup: the hook and the immediate watch ask at once; the time filter, once
\* mounted, hands over its own range, and the watches ask again.
Mount(uuid, panel) ==
    /\ cardDetail = None
    /\ cardDetail' = WatchTimes(EmitPresetRange(
                       FetchLineData(FetchInstant(Fresh(uuid, panel))), 60))

Unmount == cardDetail' = None

\* Fault: the gauges do not follow the route.
WatchRouteOnce(uuid) ==
    /\ cardDetail # None
    /\ cardDetail' = [cardDetail EXCEPT !.uuid = uuid, !.reused = TRUE]

\* The route changes under the component: the gauges' watchEffect reads it,
\* nothing else does.
WatchRoute(uuid) ==
    /\ cardDetail # None /\ MayFetch(cardDetail)
    /\ cardDetail' = FetchInstant([cardDetail EXCEPT !.uuid = uuid,
                                                     !.reused = TRUE])

-----------------------------------------------------------------------------
(* The time filter *)

PickPreset(preset) ==
    /\ cardDetail # None /\ MayFetch(cardDetail)
    /\ preset # cardDetail.choice
    /\ cardDetail' = WatchTimes(EmitPresetRange(cardDetail, preset))

PressCustom ==
    /\ cardDetail # None /\ cardDetail.choice # Custom
    /\ cardDetail' = ShowPicker(cardDetail)

PickCustom(minutes) ==
    /\ cardDetail # None /\ MayFetch(cardDetail)
    /\ cardDetail.choice = Custom
    /\ cardDetail' = WatchTimes(EmitCustomRange(cardDetail, minutes))

Echo ==
    /\ cardDetail # None /\ MayFetch(cardDetail)
    /\ cardDetail.echo
    /\ cardDetail' = WatchTimes(cardDetail)

UserStep ==
    \/ \E preset \in Presets : PickPreset(preset)
    \/ PressCustom
    \/ \E minutes \in Customs : PickCustom(minutes)

-----------------------------------------------------------------------------
(* Answers *)

\* The card's record, or the empty one.  It is merged into what the charts
\* have put there; the uid of its node is looked up by name when the record
\* has a name and no uid.
DetailAnswered(ok, record, carriesUid) ==
    /\ cardDetail # None /\ cardDetail.asked # None
    /\ record \in {cardDetail.asked, NoName}
    /\ LET named == ok /\ record # NoName
       IN  cardDetail' = [cardDetail EXCEPT
                            !.asked = None,
                            !.detail = IF ok THEN record ELSE @,
                            !.nodeUid = IF named /\ carriesUid
                                        THEN NodeOf[record] ELSE @,
                            !.lookup = IF named /\ ~ carriesUid
                                       THEN NodeOf[record] ELSE @]

\* getNodes finds the node by its name, if the snapshot has it.
NodesAnswered(ok, present) ==
    /\ cardDetail # None /\ cardDetail.lookup # None
    /\ cardDetail' = [cardDetail EXCEPT
                        !.lookup = None,
                        !.nodeUid = IF ok /\ present
                                    THEN cardDetail.lookup ELSE None]

GaugeAnswered(ok) ==
    /\ cardDetail # None
    /\ \E gauge \in GaugesAfter(cardDetail.gauge, cardDetail.uuid,
                                cardDetail.times, ok) :
         cardDetail' = [cardDetail EXCEPT !.gauge = gauge]

\* The series of a chart may also name the card's device number and driver.
LineAnswered(ok) ==
    /\ cardDetail # None
    /\ \E line \in FieldsAfter(cardDetail.line, ok), named \in BOOLEAN :
         cardDetail' = [cardDetail EXCEPT
                          !.line = line,
                          !.deviceNo = IF ok /\ named THEN line.of.of ELSE @]

ReadingAnswered(ok) ==
    /\ cardDetail # None
    /\ \E reading \in FieldsAfter(cardDetail.reading, ok) :
         cardDetail' = [cardDetail EXCEPT !.reading = reading]

NetworkStep ==
    \E ok \in Outcomes :
        \/ \E record \in Cards \union {NoName}, carriesUid \in BOOLEAN :
             DetailAnswered(ok, record, carriesUid)
        \/ \E present \in BOOLEAN : NodesAnswered(ok, present)
        \/ GaugeAnswered(ok)
        \/ LineAnswered(ok)
        \/ ReadingAnswered(ok)

-----------------------------------------------------------------------------
(* What the page shows.  A figure stands for the card it is about; a gauge  *)
(* shows its initial zero as None.                                          *)

Filled(d) == d.detail \notin {None, NoName}

IsExternal(d) == Filled(d) /\ d.detail \in External

Shares(record) ==
    IF record = NoName THEN [used |-> 0, total |-> 0] ELSE SharesOf[record]

Workload(record) ==
    IF record = None THEN Dash
    ELSE LET shares == Shares(record)
         IN  [used |-> shares.used, total |-> shares.total,
              ring |-> IF Known(shares) THEN Ring(Percent(shares)) ELSE 0]

\* A card that is gone has no name, and is shown as one that is not healthy.
Header(d) ==
    [name   |-> IF Filled(d) THEN d.detail ELSE None,
     status |-> IF d.detail = None THEN "unknown"
                ELSE Status(IsExternal(d), Filled(d) /\ d.detail \in Healthy),
     node   |-> IF Filled(d) THEN NodeOf[d.detail] ELSE Dash,
     model  |-> IF Filled(d) THEN TypeOf[d.detail] ELSE Dash,
     reading |-> IF d.reading.of = None THEN Dash ELSE d.reading.of]

\* What is allocated is not shown of a card HAMi does not manage; what is used
\* is.
Shown(d) == ~ (d.panel = "rate" /\ IsExternal(d))

ResourceTexts(d) ==
    [total   |-> d.gauge.total.of,
     used    |-> IF Shown(d) THEN d.gauge.used.of ELSE Dash,
     percent |-> IF Shown(d) THEN d.gauge.percent ELSE Dash]

\* The block of the page: beside the texts, a ring for each percentage.
ResourceCard(d) ==
    [workload |-> Workload(d.detail), texts |-> ResourceTexts(d),
     ring |-> Shown(d)]

Charts(d) == [allocation |-> d.gauge.series.of, trend |-> d.line.of]

\* handleToNodeDetail
NodeLink(d) ==
    IF d.nodeUid = None THEN None
    ELSE [uid |-> d.nodeUid, name |-> Header(d).node]

Busy(d) ==
    \/ d.asked # None \/ d.lookup # None
    \/ GaugeBusy(d.gauge) \/ d.line.flights # <<>> \/ d.reading.flights # <<>>

States ==
    [uuid : Cards, panel : Panels, reused : BOOLEAN,
     times : Presets \union Customs, choice : Presets \union {Custom},
     echo : BOOLEAN,
     detail : Cards \union {None, NoName}, deviceNo : Cards \union {None},
     nodeUid : Nodes \union {None},
     asked : Cards \union {None}, lookup : Nodes \union {None},
     gauge : GaugeStates(Cards), line : FieldStates(SpansOf(Cards)),
     reading : FieldStates(Cards)]
TypeOK == cardDetail # None => cardDetail \in States
=============================================================================
