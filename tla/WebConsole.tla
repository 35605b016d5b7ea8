----------------------------- MODULE WebConsole -----------------------------
(***************************************************************************)
(* The web console: one of its seven pages is mounted, the one of the      *)
(* route.  The user may open any page at any time, by a link, the history  *)
(* or the address bar, reload it, change the language, and use the page.   *)
(* The network answers the requests of the page in any order, late, with   *)
(* an error or not at all (WebClient).  A page that is left takes its      *)
(* requests with it: their answers are written to state nothing shows.     *)
(*                                                                         *)
(* The table of a list page and its ranking panels share nothing, nor do   *)
(* the blocks of the overview: a visit of a page follows one part of it.   *)
(***************************************************************************)
EXTENDS Naturals, Sequences, FiniteSets, Functions, WebClient

CONSTANTS None, Nodes, Cards, Tasks,
          NodeOf, TypeOf, Healthy, External, CoreOf, MemoryOf, SharesOf,
          Schedulable, ExternalNodes, NodeCores, WorkloadOf,
          CardsOf, StatusOf, Allocated, VendorOf, Monitored, NoName,
          Texts, CardHits, NodeHits, TaskHits, Columns, PageSizes,
          Presets, Customs, MaxFlights, MaxLists, MaxGone,
          MaxUses,    \* bound: what the user does on a page, mounted once
          Opened,     \* bound: the cards whose pages are opened
          LookedUp    \* bound: the nodes clicked on in a ranking panel

\* Time ranges are lengths in minutes; an hour is the one a page starts with.
ASSUME ConsoleAssumption ==
    /\ 60 \in Presets /\ Presets \union Customs \subseteq Nat \ {0}
    /\ None \notin Presets \union Customs \union Nodes \union Cards \union Tasks
    /\ NoName \notin Tasks \union Cards \union {None}
    /\ None \notin {TypeOf[c] : c \in Cards}
    /\ \A c \in Cards : NodeOf[c] \in Nodes
    /\ \A t \in Tasks : CardsOf[t] \subseteq Cards /\ CardsOf[t] # {}
    /\ PageSizes \subseteq Nat \ {0}
    /\ \E largest \in PageSizes : \A size \in PageSizes : largest >= size
    /\ {MaxFlights, MaxLists} \subseteq Nat \ {0}
    /\ MaxGone \in Nat /\ MaxUses \in Nat
    /\ Opened \subseteq Cards /\ LookedUp \subseteq Nodes
    /\ IsFiniteSet(Cards) /\ IsFiniteSet(Tasks)
    /\ "" \in Texts /\ CardHits[""] = Cards /\ NodeHits[""] = Nodes
    /\ \A text \in Texts : /\ CardHits[text] \subseteq Cards
                          /\ NodeHits[text] \subseteq Nodes
                          /\ TaskHits[text] \subseteq Tasks

VARIABLES route,        \* [page, of]: the page, and its parameter or query
          part,         \* the part of the page that is followed
          uses,         \* for the bound MaxUses
          cardList, nodeList, taskList, cardDetail, nodeDetail, taskDetail,
          overview, ranks

vars == <<route, part, uses, cardList, nodeList, taskList,
          cardDetail, nodeDetail, taskDetail, overview, ranks>>

CardPage == INSTANCE CardList WITH Hits <- CardHits, MaxFlights <- MaxLists
NodePage == INSTANCE NodeList WITH MaxFlights <- MaxLists
TaskPage == INSTANCE TaskList WITH MaxFlights <- MaxLists
OneCard  == INSTANCE CardDetail
OneNode  == INSTANCE NodeDetail
OneTask  == INSTANCE TaskDetail
Landing  == INSTANCE Overview
Ranking  == INSTANCE RankPanels

CardTypes == {TypeOf[c] : c \in Cards}

-----------------------------------------------------------------------------
(* Routes *)

\* The pages, and what their routes carry: a list page the query that sets its
\* filter, the page of an object the object.
Carries == [overview |-> {None},
            nodes    |-> {None, "true", "false"},
            cards    |-> CardTypes \union {None},
            tasks    |-> {None},
            node     |-> Nodes,
            card     |-> Opened,
            task     |-> Tasks]

Pages == DOMAIN Carries
Nowhere == [page |-> None, of |-> None]

Parts(page) ==
    CASE page = "overview" -> Landing!Blocks \union {"ranks"}
      [] page \in {"nodes", "cards", "tasks"} -> {"table", "ranks"}
      [] page = "card" -> OneCard!Panels
      [] page = "node" -> OneNode!Panels
      [] page = "task" -> OneTask!Panels

-----------------------------------------------------------------------------
(* The router view *)

Init ==
    /\ route = Nowhere /\ part = None /\ uses = 0
    /\ CardPage!Init /\ NodePage!Init /\ TaskPage!Init
    /\ OneCard!Init /\ OneNode!Init /\ OneTask!Init
    /\ Landing!Init /\ Ranking!Init

\* Another page: what the view showed is unmounted, the page is mounted.
MountPage(page, of, followed, clicked) ==
    /\ route' = [page |-> page, of |-> of]
    /\ part' = followed
    /\ IF page = "cards" /\ followed = "table"
       THEN CardPage!Mount(of) ELSE CardPage!Unmount
    /\ IF page = "nodes" /\ followed = "table"
       THEN NodePage!Mount(of) ELSE NodePage!Unmount
    /\ IF page = "tasks" /\ followed = "table"
       THEN TaskPage!Mount ELSE TaskPage!Unmount
    /\ IF page = "card" THEN OneCard!Mount(of, followed) ELSE OneCard!Unmount
    /\ IF page = "node" THEN OneNode!Mount(of, followed) ELSE OneNode!Unmount
    /\ IF page = "task" THEN OneTask!Mount(of, followed) ELSE OneTask!Unmount
    /\ IF page = "overview" /\ followed # "ranks"
       THEN Landing!Mount(followed) ELSE Landing!Unmount
    /\ IF followed = "ranks"
       THEN \E panel \in CASE page \in {"overview", "nodes"} -> {"nodeTop"}
                           [] page = "cards" -> {"cardTop"}
                           [] page = "tasks" -> {"taskCount", "taskApply"} :
              Ranking!Mount(panel, page \in {"nodes", "cards"}, clicked)
       ELSE Ranking!Unmount(clicked)

\* The same page with another parameter or query: the component is reused.
ReusePage(of, clicked) ==
    /\ route' = [route EXCEPT !.of = of]
    /\ IF route.page = "cards" /\ part = "table"
       THEN CardPage!WatchRouteType(of) ELSE UNCHANGED cardList
    /\ IF route.page = "nodes" /\ part = "table"
       THEN NodePage!WatchRouteStatus(of) ELSE UNCHANGED nodeList
    /\ IF route.page = "card" THEN OneCard!WatchRoute(of)
       ELSE UNCHANGED cardDetail
    /\ IF route.page = "node" THEN OneNode!WatchRoute(of)
       ELSE UNCHANGED nodeDetail
    /\ IF route.page = "task" THEN OneTask!WatchRoute(of)
       ELSE UNCHANGED taskDetail
    /\ ranks' = [ranks EXCEPT !.clicked = clicked]
    /\ UNCHANGED <<part, taskList, overview>>

\* Another step of the user on the page that is mounted.
Used == uses < MaxUses /\ uses' = uses + 1

\* A link, the menu, the history.  From one page to another it takes two steps,
\* Leave and Open: all that outlives a page is the lookups it has begun.
Open ==
    /\ route.page = None
    /\ uses' = 0
    /\ \E page \in Pages : \E of \in Carries[page], followed \in Parts(page) :
         MountPage(page, of, followed, ranks.clicked)

Turn ==
    /\ route.page # None
    /\ Used
    /\ \E of \in Carries[route.page] \ {route.of} : ReusePage(of, ranks.clicked)

\* The page is left, or loaded anew: then lookups are gone as well.
Leave ==
    /\ route.page # None
    /\ route' = Nowhere /\ part' = None /\ uses' = 0
    /\ CardPage!Unmount /\ NodePage!Unmount /\ TaskPage!Unmount
    /\ OneCard!Unmount /\ OneNode!Unmount /\ OneTask!Unmount
    /\ Landing!Unmount
    /\ \E clicked \in {{}, ranks.clicked} : Ranking!Unmount(clicked)

-----------------------------------------------------------------------------
(* The user's steps on a page, and the steps of the network *)

Views == <<cardList, nodeList, taskList, cardDetail, nodeDetail, taskDetail,
           overview>>

OnCardList(step) == step /\ UNCHANGED <<route, part, nodeList, taskList,
                      cardDetail, nodeDetail, taskDetail, overview, ranks>>
OnNodeList(step) == step /\ UNCHANGED <<route, part, cardList, taskList,
                      cardDetail, nodeDetail, taskDetail, overview, ranks>>
OnTaskList(step) == step /\ UNCHANGED <<route, part, cardList, nodeList,
                      cardDetail, nodeDetail, taskDetail, overview, ranks>>
OnCardDetail(step) == step /\ UNCHANGED <<route, part, cardList, nodeList,
                      taskList, nodeDetail, taskDetail, overview, ranks>>
OnNodeDetail(step) == step /\ UNCHANGED <<route, part, cardList, nodeList,
                      taskList, cardDetail, taskDetail, overview, ranks>>
OnTaskDetail(step) == step /\ UNCHANGED <<route, part, cardList, nodeList,
                      taskList, cardDetail, nodeDetail, overview, ranks>>
OnOverview(step) == step /\ UNCHANGED <<route, part, cardList, nodeList,
                      taskList, cardDetail, nodeDetail, taskDetail, ranks>>
OnRanks(step) == step /\ UNCHANGED <<route, part, Views>>

UsePage ==
    /\ Used
    /\ \/ OnCardList(CardPage!UserStep)
       \/ OnNodeList(NodePage!UserStep)
       \/ OnTaskList(TaskPage!UserStep)
       \/ OnCardDetail(OneCard!UserStep)
       \/ OnNodeDetail(OneNode!UserStep)
       \/ OnTaskDetail(OneTask!UserStep)
       \/ OnOverview(Landing!UserStep)
       \/ OnRanks(Ranking!UserStep)

\* A change of language rebuilds what is computed with translated texts.
Translate ==
    /\ route.page # None
    /\ NodePage!Translate /\ Landing!Translate /\ Ranking!Translate
    /\ UNCHANGED <<route, part, uses, cardList, taskList,
                   cardDetail, nodeDetail, taskDetail>>

\* An item of a ranking panel.  The list of nodes knows the uids already; the
\* overview and the list of workloads look the node up (handleChartClick).
ClickRank ==
    \/ /\ route.page \in {"overview", "tasks"}
       /\ OnRanks(\E name \in LookedUp : Ranking!ClickNode(name))
       /\ UNCHANGED uses
    \/ \E page \in {"card", "task"} : \E name \in Carries[page] :
         /\ Ranking!Opens(name)
         /\ \E followed \in Parts(page) :
              MountPage(page, name, followed, ranks.clicked)
         /\ uses' = 0

User == Open \/ Turn \/ Leave \/ UsePage \/ Translate \/ ClickRank

\* The time filter's round.
Echo ==
    /\ UNCHANGED uses
    /\ \/ OnCardDetail(OneCard!Echo)
       \/ OnNodeDetail(OneNode!Echo)
       \/ OnTaskDetail(OneTask!Echo)
       \/ OnOverview(Landing!Echo)

\* A looked up node opens its page wherever the user is by now; if it is not
\* found, or its page is open already, nothing but the lookup ends.
LookupAnswered(name) ==
    \/ /\ route.page # "node"
       /\ \E followed \in Parts("node") :
            MountPage("node", name, followed, ranks.clicked \ {name})
       /\ uses' = 0
    \/ /\ route.page = "node" /\ route.of # name
       /\ ReusePage(name, ranks.clicked \ {name})
       /\ UNCHANGED uses
    \/ OnRanks(Ranking!NotFound(name)) /\ UNCHANGED uses

Answer ==
    /\ UNCHANGED uses
    /\ \/ OnCardList(CardPage!NetworkStep)
       \/ OnNodeList(NodePage!NetworkStep)
       \/ OnTaskList(TaskPage!NetworkStep)
       \/ OnCardDetail(OneCard!NetworkStep)
       \/ OnNodeDetail(OneNode!NetworkStep)
       \/ OnTaskDetail(OneTask!NetworkStep)
       \/ OnOverview(Landing!NetworkStep)
       \/ OnRanks(Ranking!NetworkStep)

Network == Answer \/ \E name \in ranks.clicked : LookupAnswered(name)

Next == User \/ Echo \/ Network

Spec == Init /\ [][Next]_vars /\ WF_vars(Network)
-----------------------------------------------------------------------------
(* What the console promises                                                *)

TypeOK ==
    /\ route \in [page : Pages \union {None}, of : {route.of}]
    /\ uses \in 0 .. MaxUses
    /\ CardPage!TypeOK /\ NodePage!TypeOK /\ TaskPage!TypeOK
    /\ OneCard!TypeOK /\ OneNode!TypeOK /\ OneTask!TypeOK
    /\ Landing!TypeOK /\ Ranking!TypeOK

\* A table that shows the answer to the last request of its page shows nothing
\* the filters on the screen exclude, whatever set them: the boxes, the route,
\* a slice of the pie, or a filter that was dropped because of another.  The
\* text box is exempt while it is typed in: its text applies when it is left.
ListsAnswerTheirFilters ==
    /\ cardList # None /\ cardList.newest = "shown" /\ ~ cardList.typing =>
         \A c \in cardList.rows.ids :
            /\ c \in CardHits[cardList.uid]
            /\ cardList.type \in {None, TypeOf[c]}
            /\ cardList.node \in {None, NodeOf[c]}
    /\ nodeList # None /\ nodeList.newest = "shown" /\ ~ nodeList.typing =>
         \A n \in nodeList.rows.ids :
            /\ n \in NodeHits[nodeList.ip]
            /\ \/ nodeList.status = None
               \/ (nodeList.status = "true") = (n \in Schedulable)
            /\ nodeList.type \in NodePage!TypesOn(n) \union {None}
    /\ taskList # None /\ taskList.newest = "shown" /\ ~ taskList.typing =>
         \A t \in taskList.rows.ids :
            /\ t \in TaskHits[taskList.name]
            /\ taskList.status \in {None, StatusOf[t]}
            /\ taskList.device \in CardsOf[t] \union {None}
            /\ taskList.node \in {NodeOf[c] : c \in CardsOf[t]} \union {None}

\* Filters that exclude each other never stand together, on the screen or in a
\* request: a node with a type none of its cards is of, a node with a card of
\* another node.  Such a pair finds nothing and cannot be seen in the options.
ScopeKept ==
    /\ cardList # None =>
         \A p \in {CardPage!Payload(cardList)} \union Range(cardList.flights) :
            p.node # None /\ p.type # None =>
              p.type \in CardPage!TypesOn(p.node)
    /\ taskList # None =>
         \A p \in {TaskPage!Payload(taskList)} \union Range(taskList.flights) :
            p.node # None /\ p.device # None => NodeOf[p.device] = p.node

\* A table that has rows shows some of them: the page the user is on exists,
\* whatever filters, page sizes and late answers did to the list under it.
NoBlankPage ==
    /\ cardList # None /\ cardList.rows.ids # {} =>
         CardPage!PagedCount(cardList) > 0
    /\ taskList # None /\ taskList.rows.ids # {} =>
         TaskPage!PagedCount(taskList) > 0

\* Different pages agree on the same objects.  A count of the overview is the
\* number of rows that bear its status in the list it leads to, a slice of the
\* pie the length of the list it leads to; an object has the same status in
\* its row and at the head of its page, and what is allocated of it is left
\* out where its status is unknown; and a card that is listed is of the same
\* type in the popup of a workload and in its row.
PagesAgree ==
    /\ overview # None /\ overview.lists["node"] = Nodes =>
         \A s \in {"true", "false"} :
            LET listed == NodePage!MatchingNodes(
                            [ip |-> "", status |-> s, type |-> None])
                status == IF s = "true" THEN "normal" ELSE "abnormal"
            IN  Landing!NodeCounts(overview)[s] =
                  Cardinality({n \in listed : NodePage!Row(n).status = status})
    /\ overview # None /\ overview.lists["card"] = Cards =>
         \A type \in CardTypes :
            Landing!CardSlices(overview)[type] =
              Cardinality(CardPage!MatchingCards(
                            [uid |-> "", node |-> None, type |-> type]))
    /\ cardDetail # None /\ OneCard!Filled(cardDetail) =>
         OneCard!Header(cardDetail).status =
           CardPage!Row(cardDetail.detail).status
    /\ cardDetail # None /\ OneCard!Filled(cardDetail) /\ cardDetail.panel = "rate" =>
         OneCard!ResourceCard(cardDetail).ring =
           (CardPage!Row(cardDetail.detail).status # "unknown")
    /\ nodeDetail # None /\ nodeDetail.detail # None =>
         OneNode!Header(nodeDetail).status =
           NodePage!Row(nodeDetail.detail).status
    /\ nodeDetail # None /\ nodeDetail.detail # None /\ nodeDetail.panel = "rate" =>
         OneNode!ResourceCard(nodeDetail).ring =
           (NodePage!Row(nodeDetail.detail).status # "unknown")
    /\ taskDetail # None /\ OneTask!Filled(taskDetail) =>
         /\ OneTask!Header(taskDetail).status =
              TaskPage!Row(taskDetail.detail).status
         /\ \A card \in OneTask!RelatedCards(taskDetail) :
              card.uuid \in taskDetail.listed =>
                card.model = CardPage!Row(card.uuid).model

\* A page that was not reused shows its own object or nothing, in its head, its
\* readings and its links.  And on every page, reused or filled late, a gauge
\* that has come to rest shows figure, total and percentage of one subject, the
\* page's: answers to its earlier subjects have not stayed.
DetailOfRoute ==
    /\ cardDetail # None =>
         LET d == cardDetail  head == OneCard!Header(d)
         IN  /\ ~ d.reused =>
                  /\ d.detail \in {None, NoName, route.of}
                  /\ {d.deviceNo, d.reading.of} \subseteq {None, route.of}
                  /\ d.nodeUid \in {None, NodeOf[route.of]}
             /\ OneCard!NodeLink(d) # None => OneCard!NodeLink(d).uid = head.node
             /\ OneCard!Current(d.gauge) =>
                  /\ OneCard!HasGauge(d) /\ d.gauge.used.of = route.of
                  /\ d.gauge.hasTotal => d.gauge.percent = <<route.of, route.of>>
    /\ nodeDetail # None =>
         LET d == nodeDetail
         IN  /\ ~ d.reused => d.detail \in {None, route.of}
             /\ OneNode!Current(d.gauge) =>
                  /\ OneNode!Header(d).name = d.gauge.used.of
                  /\ d.gauge.percent = <<d.detail, d.detail>>
    /\ taskDetail # None =>
         LET d == taskDetail
         IN  /\ ~ d.reused => d.detail \in {None, NoName, route.of}
             /\ OneTask!NodeLink(d) # None =>
                  OneTask!NodeLink(d).uid = OneTask!Header(d).node
             /\ OneTask!Current(d.gauge) =>
                  d.gauge.used.of = OneTask!GaugeSubject(d)

\* A chart that shows the answer to its last request shows the range that is
\* selected; the two lines of an overview chart are then of one range, so that
\* drawing the second over the times of the first is right.  No range the
\* filter lets pick has more steps than Prometheus answers for.
ChartsOfRange ==
    /\ cardDetail # None =>
         /\ cardDetail.line.newest = "shown" =>
              OneCard!Charts(cardDetail).trend.times = cardDetail.times
         /\ cardDetail.gauge.series.newest = "shown" =>
              OneCard!Charts(cardDetail).allocation =
                OneCard!Span(route.of, cardDetail.times)
    /\ nodeDetail # None /\ nodeDetail.gauge.series.newest = "shown" =>
         OneNode!Charts(nodeDetail).series =
           OneNode!Span(nodeDetail.detail, nodeDetail.times)
    /\ taskDetail # None /\ taskDetail.line.newest = "shown" =>
         taskDetail.line.of = OneTask!Span(taskDetail.detail, taskDetail.times)
    /\ /\ overview # None
       /\ \A s \in Landing!Sources : overview.sources[s].newest = "shown"
       =>
         /\ Landing!Charts(overview).axis = Landing!Charts(overview).usage
         /\ Landing!Charts(overview).axis.times = overview.times
    /\ \A d \in {cardDetail, nodeDetail, taskDetail, overview} \ {None} :
         OneCard!Steps(d.times) <= 11000

\* Nothing is awaited, and no table is covered by its loading mask.
Settled ==
    /\ cardList # None =>
         cardList.flights = <<>> /\ ~ cardList.loading /\ cardList.options = "in"
    /\ nodeList # None =>
         /\ nodeList.flights = <<>> /\ ~ nodeList.loading
         /\ ~ nodeList.typesAsked /\ ~ nodeList.mapAsked
    /\ taskList # None =>
         taskList.flights = <<>> /\ ~ taskList.loading /\ taskList.options = "in"
    /\ cardDetail # None => ~ OneCard!Busy(cardDetail)
    /\ nodeDetail # None => ~ OneNode!Busy(nodeDetail)
    /\ taskDetail # None => ~ OneTask!Busy(taskDetail)
    /\ overview # None => ~ Landing!Busy(overview)
    /\ ~ Ranking!Busy

\* Whatever the back end does, down, cut off or silent included, a console that
\* is left alone settles: every mask goes and every request ends.
Settles == []<>Settled \/ []<><<User \/ Echo>>_vars
=============================================================================
