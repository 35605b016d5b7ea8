------------------------------ MODULE TaskList ------------------------------
(***************************************************************************)
(* The list of workloads (views/task/admin/index.vue), filtered by a node, *)
(* a status, a card and a text.  The cards offered are those of the node   *)
(* selected.                                                               *)
(***************************************************************************)
EXTENDS TableHooks, Figures

CONSTANTS None, Nodes, Cards, NodeOf,
          Tasks,       \* the containers that use cards
          CardsOf,     \* the cards of a container
          StatusOf,    \* its status, "" if its pod reports none
          Allocated,   \* what it was given, [cores, memory]
          Texts, TaskHits,
          MaxGone

VARIABLE taskList

TaskStatuses == {"closed", "success", "failed", "unknown"}

\* Of the statuses the box offers, those that find something.
OfferedStatuses == TaskStatuses \intersect {StatusOf[t] : t \in Tasks}

MatchingTasks(p) ==
    {t \in TaskHits[p.name] :
        /\ p.node = None \/ \E c \in CardsOf[t] : NodeOf[c] = p.node
        /\ p.device = None \/ p.device \in CardsOf[t]
        /\ p.status \in {None, StatusOf[t]}}
TaskAnswers(p) ==
    {ids \in SUBSET MatchingTasks(p) :
        Cardinality(MatchingTasks(p) \ ids) <= MaxGone}

-----------------------------------------------------------------------------
NoRequest == [name |-> "", node |-> None, status |-> None, device |-> None]

Payload(l) ==
    [name |-> l.name, node |-> IF l.manual THEN l.node ELSE None,
     status |-> l.status, device |-> l.device]

Fresh ==
    [name |-> "", node |-> None, status |-> None, device |-> None,
     manual |-> FALSE, typing |-> FALSE,
     nodes |-> {}, cards |-> {}, options |-> "out",
     rows |-> Blank(NoRequest), page |-> FirstPage,
     loading |-> FALSE, flights |-> <<>>, newest |-> "out"]

\* cardOptions: with a node selected, only the cards that live on it.
CardOptions(l) ==
    IF l.node = None THEN l.cards ELSE {c \in l.cards : NodeOf[c] = l.node}

\* The node is chosen by hand; a card that is not one of its is dropped.
ScopeToNode(l, node) ==
    [l EXCEPT !.node = node,
              !.manual = TRUE,
              !.device = IF /\ node # None /\ @ # None
                            /\ ~ (@ \in l.cards /\ NodeOf[@] = node)
                         THEN None ELSE @]

FetchTableData(l) == Ask(l, Payload(l))
ApplyFilters(l) == FetchTableData(ResetToFirstPage(l))

-----------------------------------------------------------------------------
Init == taskList = None

\* setup: the immediate watch on the props asks for the first list.
Mount == taskList = None /\ taskList' = ApplyFilters(Fresh)

Unmount == taskList' = None

Idle == taskList # None /\ ~ taskList.typing
MayFetch == taskList # None /\ CanAsk(taskList)

OnNodeNameChange(node) ==
    /\ Idle /\ MayFetch
    /\ node \in taskList.nodes \union {None}
    /\ node # taskList.node
    /\ taskList' = ApplyFilters(ScopeToNode(taskList, node))

OnStatusChange(status) ==
    /\ Idle /\ MayFetch /\ status # taskList.status
    /\ taskList' = ApplyFilters([taskList EXCEPT !.status = status])

OnDeviceChange(device) ==
    /\ Idle /\ MayFetch
    /\ device \in CardOptions(taskList) \union {None}
    /\ device # taskList.device
    /\ taskList' = ApplyFilters([taskList EXCEPT !.device = device])

TypeName(text) ==
    /\ taskList # None /\ text # taskList.name
    /\ taskList' = [taskList EXCEPT !.name = text, !.typing = TRUE]

\* Enter, and the blur of the box.
LeaveName ==
    /\ MayFetch /\ taskList.typing
    /\ \E typing \in BOOLEAN :
         taskList' = ApplyFilters([taskList EXCEPT !.typing = typing])

RefreshTable == Idle /\ MayFetch /\ taskList' = FetchTableData(taskList)

Page ==
    /\ Idle
    /\ \/ \E current \in 1 .. Cardinality(Tasks) :
            ChangePage(taskList, current) /\ taskList' = TurnTo(taskList, current)
       \/ \E size \in PageSizes \ {taskList.page.size} :
            taskList' = Resize(taskList, size)

UserStep ==
    \/ \E node \in Nodes \union {None} : OnNodeNameChange(node)
    \/ \E status \in OfferedStatuses \union {None} : OnStatusChange(status)
    \/ \E device \in Cards \union {None} : OnDeviceChange(device)
    \/ \E text \in Texts : TypeName(text)
    \/ LeaveName
    \/ RefreshTable
    \/ Page

-----------------------------------------------------------------------------
OptionsAnswered(ok) ==
    /\ taskList # None /\ taskList.options = "out"
    /\ taskList' = [taskList EXCEPT
                      !.options = "in",
                      !.nodes = IF ok THEN Nodes ELSE {},
                      !.cards = IF ok THEN Cards ELSE {}]

ListAnswered(i, ok) ==
    /\ taskList # None /\ i \in DOMAIN taskList.flights
    /\ IF ok
       THEN \E ids \in TaskAnswers(taskList.flights[i]) :
              taskList' = SyncTotalAndClamp(
                            Show(taskList, i, ids))
       ELSE taskList' = Miss(taskList, i)

NetworkStep ==
    \E ok \in Outcomes :
        \/ OptionsAnswered(ok)
        \/ \E i \in 1 .. MaxFlights : ListAnswered(i, ok)

-----------------------------------------------------------------------------
\* The row of a workload: a status the page does not know is shown as unknown,
\* figures the answer lacks as dashes.
Row(t) ==
    [status |-> IF StatusOf[t] \in TaskStatuses THEN StatusOf[t] ELSE "unknown",
     gpus |-> IF CardsOf[t] = {} THEN Dash ELSE Cardinality(CardsOf[t]),
     cores |-> IF Allocated[t].cores = None THEN Dash ELSE Allocated[t].cores,
     memory |-> IF Allocated[t].memory = None THEN Dash ELSE Allocated[t].memory]

Requests ==
    [name : Texts, node : Nodes \union {None},
     status : TaskStatuses \union {None}, device : Cards \union {None}]
States ==
    [name : Texts, node : Nodes \union {None},
     status : TaskStatuses \union {None}, device : Cards \union {None},
     manual : BOOLEAN, typing : BOOLEAN,
     nodes : SUBSET Nodes, cards : SUBSET Cards, options : {"out", "in"},
     rows : [asked : Requests, ids : SUBSET Tasks],
     page : Pagination(Cardinality(Tasks)), loading : BOOLEAN,
     flights : Seq(Requests), newest : {"out", "shown", "lost"}]
TypeOK ==
    taskList # None => taskList \in States /\ Len(taskList.flights) <= MaxFlights

-----------------------------------------------------------------------------
(* The parts of the inductive invariants behind what the console promises  *)
(* of this page.                                                           *)

\* A node is selected by hand only, and a card goes with it.
ScopeChosen(l) ==
    l.node # None => l.manual /\ (l.device # None => NodeOf[l.device] = l.node)

\* So it does in the requests.
ScopeAsked(l) ==
    \A i \in DOMAIN l.flights :
        LET p == l.flights[i]
        IN  p.node # None /\ p.device # None => NodeOf[p.device] = p.node

\* The last request asks for what the filters say, and so did the one whose
\* answer is shown.
AskedAsFiltered(l) ==
    ~ l.typing =>
        /\ l.newest = "out" => Last(l.flights) = Payload(l)
        /\ l.newest = "shown" => l.rows.ids \subseteq MatchingTasks(Payload(l))
=============================================================================
