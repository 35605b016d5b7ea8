------------------------------ MODULE NodeList ------------------------------
(***************************************************************************)
(* The list of nodes (views/node/admin/index.vue).  Its table is not       *)
(* paged; it is filtered by a status, which the query of the route also    *)
(* sets, a card type and a text.  The ranking panels above the table open  *)
(* the page of a node they name, when the page knows the node's uid.       *)
(***************************************************************************)
EXTENDS TableHooks, Figures

CONSTANTS None, Nodes, Cards, NodeOf, TypeOf,
          Schedulable,     \* the nodes that accept pods
          ExternalNodes,   \* the nodes HAMi does not manage
          NodeCores,       \* a node's compute, [total, used]
          Texts, NodeHits, \* the nodes whose address a text finds
          Columns,         \* the columns of the table
          MaxGone

VARIABLE nodeList

CardTypes == {TypeOf[c] : c \in Cards}
TypesOn(n) == {TypeOf[c] : c \in {d \in Cards : NodeOf[d] = n}}
Statuses == {"true", "false"}

MatchingNodes(p) ==
    {n \in NodeHits[p.ip] :
        /\ p.status = None \/ (p.status = "true") = (n \in Schedulable)
        /\ p.type \in TypesOn(n) \union {None}}
NodeAnswers(p) ==
    {ids \in SUBSET MatchingNodes(p) :
        Cardinality(MatchingNodes(p) \ ids) <= MaxGone}

-----------------------------------------------------------------------------
NoRequest == [ip |-> "", status |-> None, type |-> None]

Payload(l) == [ip |-> l.ip, status |-> l.status, type |-> l.type]

Fresh ==
    [ip |-> "", status |-> None, type |-> None, typing |-> FALSE,
     types |-> {}, typesAsked |-> TRUE, known |-> {}, mapAsked |-> TRUE,
     columns |-> KeepColumns({}, Columns),
     rows |-> Blank(NoRequest),
     loading |-> FALSE, flights |-> <<>>, newest |-> "out"]

\* applyFilters and refreshTable are the same here: there is no page to reset.
ApplyFilters(l) == Ask(l, Payload(l))

-----------------------------------------------------------------------------
Init == nodeList = None

\* setup: the immediate watch on the route asks for the first list, and
\* onMounted for the card types and the uids of the nodes.
Mount(status) ==
    /\ nodeList = None
    /\ nodeList' = ApplyFilters([Fresh EXCEPT !.status = status])

Unmount == nodeList' = None

WatchRouteStatus(status) ==
    /\ nodeList # None
    /\ IF nodeList.status = status
       THEN UNCHANGED nodeList
       ELSE /\ CanAsk(nodeList)
            /\ nodeList' = ApplyFilters([nodeList EXCEPT !.status = status])

-----------------------------------------------------------------------------
Idle == nodeList # None /\ ~ nodeList.typing
MayFetch == nodeList # None /\ CanAsk(nodeList)

OnStatusChange(status) ==
    /\ Idle /\ MayFetch /\ status # nodeList.status
    /\ nodeList' = ApplyFilters([nodeList EXCEPT !.status = status])

OnTypeChange(type) ==
    /\ Idle /\ MayFetch
    /\ type \in nodeList.types \union {None}
    /\ type # nodeList.type
    /\ nodeList' = ApplyFilters([nodeList EXCEPT !.type = type])

TypeIp(text) ==
    /\ nodeList # None /\ text # nodeList.ip
    /\ nodeList' = [nodeList EXCEPT !.ip = text, !.typing = TRUE]

\* Enter, and the blur of the box.
LeaveIp ==
    /\ MayFetch /\ nodeList.typing
    /\ \E typing \in BOOLEAN :
         nodeList' = ApplyFilters([nodeList EXCEPT !.typing = typing])

RefreshTable == Idle /\ MayFetch /\ nodeList' = ApplyFilters(nodeList)

\* The popup of the toolbar: any choice of columns, none included.
ChooseColumns(columns) ==
    /\ Idle
    /\ nodeList' = [nodeList EXCEPT !.columns = columns]

\* handleClick: the name the panel shows leads to a page only if its uid is
\* known; otherwise an error is shown.
Opens(name) == nodeList # None /\ name \in nodeList.known

\* The watch on the columns, when the language changes.
Translate ==
    nodeList' = IF nodeList = None THEN None
                ELSE [nodeList EXCEPT !.columns = KeepColumns(@, Columns)]

UserStep ==
    \/ \E status \in Statuses \union {None} : OnStatusChange(status)
    \/ \E type \in CardTypes \union {None} : OnTypeChange(type)
    \/ \E text \in Texts : TypeIp(text)
    \/ LeaveIp
    \/ RefreshTable
    \/ \E columns \in SUBSET Columns : ChooseColumns(columns)

-----------------------------------------------------------------------------
\* fetchCardTypeOptions
TypesAnswered(ok) ==
    /\ nodeList # None /\ nodeList.typesAsked
    /\ nodeList' = [nodeList EXCEPT
                      !.typesAsked = FALSE,
                      !.types = IF ok THEN CardTypes ELSE {}]

\* fetchAllNodeMap
MapAnswered(ok) ==
    /\ nodeList # None /\ nodeList.mapAsked
    /\ nodeList' = [nodeList EXCEPT
                      !.mapAsked = FALSE,
                      !.known = IF ok THEN Nodes ELSE {}]

ListAnswered(i, ok) ==
    /\ nodeList # None /\ i \in DOMAIN nodeList.flights
    /\ IF ok
       THEN \E ids \in NodeAnswers(nodeList.flights[i]) :
              nodeList' = Show(nodeList, i, ids)
       ELSE nodeList' = Miss(nodeList, i)

NetworkStep ==
    \E ok \in Outcomes :
        \/ TypesAnswered(ok)
        \/ MapAnswered(ok)
        \/ \E i \in 1 .. MaxFlights : ListAnswered(i, ok)

-----------------------------------------------------------------------------
\* The row of a node, as the columns render it.
Row(n) ==
    [status |-> Status(n \in ExternalNodes, n \in Schedulable),
     compute |-> RawRateCell(n \in ExternalNodes, NodeCores[n])]

Requests ==
    [ip : Texts, status : Statuses \union {None}, type : CardTypes \union {None}]
States ==
    [ip : Texts, status : Statuses \union {None}, type : CardTypes \union {None},
     typing : BOOLEAN, types : SUBSET CardTypes, typesAsked : BOOLEAN,
     known : SUBSET Nodes, mapAsked : BOOLEAN, columns : SUBSET Columns,
     rows : [asked : Requests, ids : SUBSET Nodes], loading : BOOLEAN,
     flights : Seq(Requests), newest : {"out", "shown", "lost"}]
TypeOK ==
    nodeList # None => nodeList \in States /\ Len(nodeList.flights) <= MaxFlights

-----------------------------------------------------------------------------
\* Part of the inductive invariant behind what the console promises of this
\* page: the last request asks for what the filters say, and so did the one
\* whose answer is shown.
AskedAsFiltered(l) ==
    ~ l.typing =>
        /\ l.newest = "out" => Last(l.flights) = Payload(l)
        /\ l.newest = "shown" => l.rows.ids \subseteq MatchingNodes(Payload(l))
=============================================================================
