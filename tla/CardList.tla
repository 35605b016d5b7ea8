------------------------------ MODULE CardList ------------------------------
(***************************************************************************)
(* The list of accelerator cards (views/card/admin/index.vue).  cardList   *)
(* is the reactive state of the mounted component, None when another view  *)
(* is mounted.  The table is filtered by a card type, a node and a text;   *)
(* the type is also set by the query of the route and by the pie chart     *)
(* above the table, and the nodes offered are those that carry the type.   *)
(***************************************************************************)
EXTENDS TableHooks, Figures

CONSTANTS None,       \* undefined, and a page that is not mounted
          Nodes,      \* the names of the cluster's nodes
          Cards,      \* the cards
          NodeOf,     \* the node of a card
          TypeOf,     \* the type of a card
          Healthy,    \* the cards in good health
          External,   \* the cards HAMi does not manage
          CoreOf,     \* a card's compute, [total, used]
          MemoryOf,   \* its memory, [total, used]
          Texts,      \* what may be typed, trimmed; "" is no filter
          Hits,       \* the cards whose uuid a text finds
          MaxGone     \* bound: cards missing from an answer

VARIABLE cardList

CardTypes == {TypeOf[c] : c \in Cards}
TypesOn(n) == {TypeOf[c] : c \in {d \in Cards : NodeOf[d] = n}}

\* The server's answer to a request: the cards that match its filters, less
\* those whose node is not in the snapshot of that moment.
MatchingCards(p) ==
    {c \in Hits[p.uid] : /\ p.node \in {None, NodeOf[c]}
                         /\ p.type \in {None, TypeOf[c]}}
CardAnswers(p) ==
    {ids \in SUBSET MatchingCards(p) :
        Cardinality(MatchingCards(p) \ ids) <= MaxGone}

-----------------------------------------------------------------------------
NoRequest == [uid |-> "", node |-> None, type |-> None]

Payload(l) ==
    [uid |-> l.uid, node |-> IF l.manual THEN l.node ELSE None, type |-> l.type]

\* setup, with the type taken from the route's query.
Fresh(type) ==
    [uid |-> "", node |-> None, type |-> type, manual |-> FALSE, typing |-> FALSE,
     nodes |-> {}, types |-> {}, options |-> "out",
     rows |-> Blank(NoRequest), page |-> FirstPage,
     loading |-> FALSE, flights |-> <<>>, newest |-> "out"]

\* nodeOptions: with a type selected, only the nodes that carry it.
NodeOptions(l) ==
    IF l.type = None THEN l.nodes ELSE {n \in l.nodes : l.type \in TypesOn(n)}

\* Fault: a node the page knows is kept, whatever its types.
PruneUnknownNode(l) ==
    IF l.node \in l.nodes \union {None} THEN l
    ELSE [l EXCEPT !.node = None, !.manual = TRUE]

PruneNodeScopeByType(l) ==
    IF \/ l.type = None \/ l.node = None
       \/ l.node \in l.nodes /\ l.type \in TypesOn(l.node)
    THEN l
    ELSE [l EXCEPT !.node = None, !.manual = TRUE]

FetchTableData(l) == Ask(l, Payload(l))
ApplyFilters(l) == FetchTableData(ResetToFirstPage(l))

-----------------------------------------------------------------------------
(* The life of the component *)

Init == cardList = None

Mount(type) ==
    /\ cardList = None
    /\ cardList' = ApplyFilters(Fresh(type))

Unmount == cardList' = None

\* The watch on the type in the route's query: the component is reused.
WatchRouteType(type) ==
    /\ cardList # None
    /\ IF cardList.type = type
       THEN UNCHANGED cardList
       ELSE /\ CanAsk(cardList)
            /\ cardList' = ApplyFilters(
                             PruneNodeScopeByType([cardList EXCEPT !.type = type]))

-----------------------------------------------------------------------------
(* What the user does.  To use another control is to leave the text box    *)
(* first, whose blur applies the filters.                                  *)

Idle == cardList # None /\ ~ cardList.typing
MayFetch == cardList # None /\ CanAsk(cardList)

OnTypeChange(type) ==
    /\ Idle /\ MayFetch
    /\ type \in cardList.types \union {None}
    /\ type # cardList.type
    /\ cardList' = ApplyFilters(
                     PruneNodeScopeByType([cardList EXCEPT !.type = type]))

\* Fault: the node is not noted as chosen by hand.
OnNodeNameChangeUnnoted(node) ==
    /\ Idle /\ MayFetch
    /\ node \in NodeOptions(cardList) \union {None}
    /\ node # cardList.node
    /\ cardList' = ApplyFilters([cardList EXCEPT !.node = node])

OnNodeNameChange(node) ==
    /\ Idle /\ MayFetch
    /\ node \in NodeOptions(cardList) \union {None}
    /\ node # cardList.node
    /\ cardList' = ApplyFilters([cardList EXCEPT !.node = node, !.manual = TRUE])

\* A slice of the pie selects its type, or drops it when it is selected.
HandlePieClick(name) ==
    /\ Idle /\ MayFetch
    /\ IF cardList.type = name
       THEN cardList' = ApplyFilters([cardList EXCEPT !.type = None])
       ELSE cardList' = ApplyFilters(
                          PruneNodeScopeByType([cardList EXCEPT !.type = name]))

TypeUid(text) ==
    /\ cardList # None
    /\ text # cardList.uid
    /\ cardList' = [cardList EXCEPT !.uid = text, !.typing = TRUE]

\* Enter, and the blur of the box.
LeaveUid ==
    /\ MayFetch /\ cardList.typing
    /\ \E typing \in BOOLEAN :
         cardList' = ApplyFilters([cardList EXCEPT !.typing = typing])

RefreshTable ==
    /\ Idle /\ MayFetch
    /\ cardList' = FetchTableData(cardList)

Page ==
    /\ Idle
    /\ \/ \E current \in 1 .. Cardinality(Cards) :
            ChangePage(cardList, current) /\ cardList' = TurnTo(cardList, current)
       \/ \E size \in PageSizes \ {cardList.page.size} :
            cardList' = Resize(cardList, size)

UserStep ==
    \/ \E type \in CardTypes \union {None} : OnTypeChange(type)
    \/ \E node \in Nodes \union {None} : OnNodeNameChange(node)
    \/ \E type \in CardTypes : HandlePieClick(type)
    \/ \E text \in Texts : TypeUid(text)
    \/ LeaveUid
    \/ RefreshTable
    \/ Page

-----------------------------------------------------------------------------
(* What the back end does *)

\* fetchFilterOptions: both lists, or none when either call fails.
OptionsAnswered(ok) ==
    /\ cardList # None /\ cardList.options = "out"
    /\ cardList' = [cardList EXCEPT
                      !.options = "in",
                      !.nodes = IF ok THEN Nodes ELSE {},
                      !.types = IF ok THEN CardTypes ELSE {}]

ListAnswered(i, ok) ==
    /\ cardList # None /\ i \in DOMAIN cardList.flights
    /\ IF ok
       THEN \E ids \in CardAnswers(cardList.flights[i]) :
              cardList' = SyncTotalAndClamp(
                            Show(cardList, i, ids))
       ELSE cardList' = Miss(cardList, i)

NetworkStep ==
    \E ok \in Outcomes :
        \/ OptionsAnswered(ok)
        \/ \E i \in 1 .. MaxFlights : ListAnswered(i, ok)

-----------------------------------------------------------------------------
\* The row of a card, as the columns render it.
Row(c) ==
    [status |-> Status(c \in External, c \in Healthy),
     model  |-> TypeOf[c],
     node   |-> NodeOf[c],
     computeLeft |-> LeftCell(c \in External, CoreOf[c]),
     computeRate |-> RateCell(c \in External, CoreOf[c]),
     memoryLeft  |-> LeftCell(c \in External, MemoryOf[c]),
     memoryRate  |-> RateCell(c \in External, MemoryOf[c])]

Requests == [uid : Texts, node : Nodes \union {None}, type : CardTypes \union {None}]
States ==
    [uid : Texts, node : Nodes \union {None}, type : CardTypes \union {None},
     manual : BOOLEAN, typing : BOOLEAN,
     nodes : SUBSET Nodes, types : SUBSET CardTypes, options : {"out", "in"},
     rows : [asked : Requests, ids : SUBSET Cards],
     page : Pagination(Cardinality(Cards)), loading : BOOLEAN,
     flights : Seq(Requests), newest : {"out", "shown", "lost"}]
TypeOK ==
    cardList # None => cardList \in States /\ Len(cardList.flights) <= MaxFlights

-----------------------------------------------------------------------------
(* The parts of the inductive invariants behind what the console promises  *)
(* of this page.                                                           *)

\* A node is selected by hand only, and goes with the type.
ScopeChosen(l) ==
    l.node # None => l.manual /\ (l.type # None => l.type \in TypesOn(l.node))

\* So it does in the requests.
ScopeAsked(l) ==
    \A i \in DOMAIN l.flights :
        LET p == l.flights[i]
        IN  p.node # None /\ p.type # None => p.type \in TypesOn(p.node)

\* The last request asks for what the filters say, and so did the one whose
\* answer is shown.
AskedAsFiltered(l) ==
    ~ l.typing =>
        /\ l.newest = "out" => Last(l.flights) = Payload(l)
        /\ l.newest = "shown" => l.rows.ids \subseteq MatchingCards(Payload(l))
=============================================================================
