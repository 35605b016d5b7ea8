----------------------------- MODULE RankPanels -----------------------------
(***************************************************************************)
(* The ranking panels of the overview and of the list pages (TabTop.vue),  *)
(* and the pie chart beside them (previewBar.vue).  A panel has a tab per  *)
(* query; the panels of a page differ only in their queries, so that one   *)
(* is followed.  A change of language gives the panel a new configuration, *)
(* whose data are asked for anew.                                          *)
(*                                                                         *)
(* A click on an item opens a page.  What it opens depends on the page and *)
(* on the tab: the page of a card or of a workload directly, the page of a *)
(* node after its uid was looked up (handleChartClick).  The lookup is not *)
(* cancelled when the user leaves: ranks.clicked outlives the panel.       *)
(***************************************************************************)
EXTENDS ChartHooks

CONSTANTS Nodes, Cards, Tasks

VARIABLE ranks

\* The panels, and what each of their tabs ranks.
Tabs == [nodeTop   |-> <<"node", "node">>,                 \* previewBar, overview
         cardTop   |-> <<"device_uuid", "device_uuid">>,   \* previewBar
         taskCount |-> <<"node", "device_uuid">>,          \* top.vue
         taskApply |-> <<"core", "memory", "vgpu">>]       \* top.vue

Panels == DOMAIN Tabs

\* What the items of a tab name.
Ranked(tab) ==
    CASE tab = "node"        -> Nodes
      [] tab = "device_uuid" -> Cards
      [] OTHER               -> Tasks

\* The data of a tab: the items, or None before its answer.
Unfetched(panel) == [i \in DOMAIN Tabs[panel] |-> None]

Idle == [panel |-> None, pie |-> None, active |-> 0,
         data |-> <<>>, flights |-> {}, clicked |-> {}]

\* fetchData: a request per tab.  The answers to the requests of an older
\* configuration are written to that configuration, which is not shown.
FetchData(r, panel) ==
    [r EXCEPT !.panel = panel, !.active = 1,
              !.data = Unfetched(panel), !.flights = DOMAIN Tabs[panel]]

-----------------------------------------------------------------------------
Init == ranks = Idle

\* Mounting and unmounting, with the lookups that are still awaited.
Mount(panel, pie, clicked) ==
    ranks' = [FetchData([Idle EXCEPT !.clicked = clicked], panel) EXCEPT
                !.pie = IF pie THEN "out" ELSE None]

Unmount(clicked) == ranks' = [Idle EXCEPT !.clicked = clicked]

\* The watch on the configuration.
Translate ==
    ranks' = IF ranks.panel = None THEN ranks ELSE FetchData(ranks, ranks.panel)

SelectTab(i) ==
    /\ ranks.panel # None /\ i \in DOMAIN ranks.data /\ i # ranks.active
    /\ ranks' = [ranks EXCEPT !.active = i]

TabAnswered(i, ok) ==
    /\ i \in ranks.flights
    /\ ranks' = [ranks EXCEPT
                   !.flights = @ \ {i},
                   !.data[i] = IF ok
                               THEN Ranked(Tabs[ranks.panel][i]) ELSE @]

\* The pie's data are asked for once; a slice carries what it counts.
PieAnswered(ok) ==
    /\ ranks.pie = "out"
    /\ ranks' = [ranks EXCEPT !.pie = IF ok THEN "in" ELSE "failed"]

-----------------------------------------------------------------------------
(* Clicks *)

ActiveTab == Tabs[ranks.panel][ranks.active]

\* displayItems: of the tab that is selected.
DisplayItems ==
    IF ranks.panel = None \/ ranks.data[ranks.active] = None THEN {}
    ELSE ranks.data[ranks.active]

\* An item that opens its page at once.
Opens(name) == name \in DisplayItems /\ ActiveTab # "node"

\* handleChartClick on a node: all nodes are asked for, to find its uid.
\* Bound: one lookup at a time.
ClickNode(name) ==
    /\ ranks.clicked = {} /\ name \in DisplayItems /\ ActiveTab = "node"
    /\ ranks' = [ranks EXCEPT !.clicked = @ \union {name}]

\* The node is not found, or the lookup fails: an error is shown.
NotFound(name) ==
    /\ name \in ranks.clicked
    /\ ranks' = [ranks EXCEPT !.clicked = @ \ {name}]

UserStep == \E i \in 1 .. 3 : SelectTab(i)

NetworkStep ==
    \E ok \in Outcomes :
        \/ \E i \in 1 .. 3 : TabAnswered(i, ok)
        \/ PieAnswered(ok)

Busy == ranks.flights # {} \/ ranks.pie = "out" \/ ranks.clicked # {}

\* A panel has its tabs, and the items of a tab are what the tab ranks.
States(data) ==
    [panel : Panels \union {None}, pie : {None, "out", "in", "failed"},
     active : Nat, data : {data}, flights : SUBSET DOMAIN data,
     clicked : SUBSET Nodes]
TypeOK ==
    /\ ranks \in States(ranks.data)
    /\ ranks.panel # None =>
         /\ ranks.active \in DOMAIN ranks.data
         /\ DOMAIN ranks.data = DOMAIN Tabs[ranks.panel]
         /\ \A i \in DOMAIN ranks.data :
              ranks.data[i] \in {None, Ranked(Tabs[ranks.panel][i])}
=============================================================================
