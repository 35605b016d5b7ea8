-------------------------- MODULE WebConsoleProofs --------------------------
(***************************************************************************)
(* Proofs about the console.  The list pages first: a table that shows the *)
(* answer to its page's last request shows what the filters on the screen  *)
(* admit, filters do not contradict each other, and the page of a list     *)
(* exists.  Then the detail pages, the overview and the ranking panels: a  *)
(* page shows its own object, a gauge one subject, a chart the selected    *)
(* range, and every page holds what its record in the code may hold.  For  *)
(* each page there is what a step of the console does to it, a lemma per   *)
(* assignment of the hooks, the step, and what follows from the invariant. *)
(***************************************************************************)
EXTENDS WebConsole, FiniteSetTheorems, TLAPS

(* What is assumed of the constants, one by one.                           *)
LEMMA Bounds ==
    /\ MaxLists \in Nat /\ 0 < MaxLists /\ PageSizes \subseteq Nat \ {0}
    /\ (CHOOSE s \in PageSizes : \A t \in PageSizes : s >= t) \in PageSizes
    /\ Cardinality(Cards) \in Nat /\ Cardinality(Tasks) \in Nat
    /\ \A S \in SUBSET Cards : Cardinality(S) \in 0 .. Cardinality(Cards)
    /\ \A S \in SUBSET Tasks : Cardinality(S) \in 0 .. Cardinality(Tasks)
<1>1. {MaxFlights, MaxLists} \subseteq Nat \ {0}
  BY ConsoleAssumption, Zenon
<1>2. PageSizes \subseteq Nat \ {0}
  BY ConsoleAssumption, Zenon
<1>3. \E largest \in PageSizes : \A size \in PageSizes : largest >= size
  BY ConsoleAssumption, Zenon
<1>4. IsFiniteSet(Cards) /\ IsFiniteSet(Tasks)
  BY ConsoleAssumption, Zenon
<1>5. (CHOOSE s \in PageSizes : \A t \in PageSizes : s >= t) \in PageSizes
  BY <1>3, Zenon
<1>6. ASSUME NEW U, IsFiniteSet(U)
      PROVE  /\ Cardinality(U) \in Nat
             /\ \A S \in SUBSET U : Cardinality(S) \in 0 .. Cardinality(U)
  <2>1. ASSUME NEW S \in SUBSET U
        PROVE  IsFiniteSet(S) /\ Cardinality(S) <= Cardinality(U)
    BY <1>6, FS_Subset
  <2>. QED
    BY <1>6, <2>1, FS_CardinalityType
<1>. QED
  BY <1>1, <1>2, <1>4, <1>5, <1>6

-----------------------------------------------------------------------------
(* Lists in flight *)

(* An answer that has come is taken out of the flights; the last of them   *)
(* stays the last unless it was the one.                                   *)
LEMMA Landed ==
    ASSUME NEW S, NEW flights \in Seq(S), NEW i \in DOMAIN flights
    PROVE  LET left == RemoveAt(flights, i)
           IN  /\ left \in Seq(S) /\ Len(left) = Len(flights) - 1
               /\ \A k \in DOMAIN left : \E j \in DOMAIN flights : left[k] = flights[j]
               /\ i # Len(flights) => left # <<>> /\ Last(left) = Last(flights)
<1> DEFINE before == SubSeq(flights, 1, i - 1)
           after  == SubSeq(flights, i + 1, Len(flights))
<1>1. i \in 1..Len(flights) /\ Len(flights) \in Nat
  OBVIOUS
<1>2. before \in Seq(S) /\ Len(before) = i - 1 /\ \A k \in 1..i - 1 : before[k] = flights[k]
  BY <1>1
<1>3. /\ after \in Seq(S) /\ Len(after) = Len(flights) - i
      /\ \A k \in 1..Len(flights) - i : after[k] = flights[i + k]
  BY <1>1
<1> DEFINE left == before \o after
<1>. HIDE DEF before, after
<1>3a. left \in Seq(S) /\ Len(left) = Len(flights) - 1
  BY <1>1, <1>2, <1>3
<1>4. ASSUME NEW k \in 1..Len(flights) - 1
      PROVE  left[k] = IF k < i THEN flights[k] ELSE flights[k + 1]
  BY <1>1, <1>2, <1>3
<1>5. left = RemoveAt(flights, i)
  BY DEF RemoveAt, before, after
<1>. HIDE DEF left
<1>6. \A k \in DOMAIN left : \E j \in DOMAIN flights : left[k] = flights[j]
  <2>1. ASSUME NEW k \in DOMAIN left PROVE \E j \in DOMAIN flights : left[k] = flights[j]
    <3>1. k \in 1..Len(flights) - 1 /\ (k \in 1..Len(flights)) /\ (k + 1 \in 1..Len(flights))
      BY <1>1, <1>3a
    <3>. QED
      BY <3>1, <1>4
  <2>. QED
    BY <2>1
<1>7. ASSUME i # Len(flights) PROVE left # <<>> /\ Last(left) = Last(flights)
  <2>1. Len(left) \in 1..Len(flights) - 1 /\ ~(Len(left) < i) /\ Len(left) + 1 = Len(flights)
    BY <1>1, <1>3a, <1>7
  <2>2. left[Len(left)] = flights[Len(flights)]
    BY <2>1, <1>4
  <2>. QED
    BY <2>1, <2>2 DEF Last
<1>. QED
  BY <1>3a, <1>5, <1>6, <1>7

(* A new request is the last.                                              *)
LEMMA Sent ==
    ASSUME NEW S, NEW flights \in Seq(S), NEW p \in S
    PROVE  /\ Append(flights, p) \in Seq(S) /\ Append(flights, p) # <<>>
           /\ Len(Append(flights, p)) = Len(flights) + 1
           /\ Last(Append(flights, p)) = p
           /\ \A k \in DOMAIN Append(flights, p) :
                 \/ Append(flights, p)[k] = p
                 \/ k \in DOMAIN flights /\ Append(flights, p)[k] = flights[k]
BY DEF Last

-----------------------------------------------------------------------------
(* Pages of a list *)

(* The pages of the console count as everybody.                            *)
LEMMA SameCardinality == \A S : CardPage!Cardinality(S) = Cardinality(S)
BY DEF CardPage!Cardinality, Cardinality, CardPage!IsFiniteSet, IsFiniteSet

(* What a pagination is made of.                                           *)
LEMMA PageOf ==
    ASSUME NEW most \in Nat, NEW page \in CardPage!Pagination(most)
    PROVE  page.current \in Nat \ {0} /\ page.size \in Nat \ {0} /\ page.total \in Nat
<1>1. page.current \in Nat \ {0} /\ page.total \in Nat
  BY DEF CardPage!Pagination
<1>2. page.size \in PageSizes
  BY DEF CardPage!Pagination
<1>. QED
  BY <1>1, <1>2, Bounds

(* The pages of a list cover it: a page that exists begins before its end. *)
LEMMA PagesCover ==
    ASSUME NEW total \in Nat, NEW size \in Nat \ {0}
    PROVE  LET pages == CardPage!MaxPage(total, size)
           IN  /\ pages \in Nat \ {0}
               /\ \A current \in Nat \ {0} :
                     current <= pages /\ total > 0 => (current - 1) * size < total
<1> DEFINE q == (total + size - 1) \div size
           r == (total + size - 1) % size
<1>1. total + size - 1 \in Nat
  OBVIOUS
<1>2. q \in Int /\ r \in Int /\ total + size - 1 = q * size + r /\ r >= 0 /\ r < size
  BY <1>1
<1>. HIDE DEF q, r
<1>3. ASSUME NEW current \in Nat \ {0}, current <= q, total > 0
      PROVE  (current - 1) * size < total
  <2>1. PICK k \in Nat : q = current + k
    BY <1>2, <1>3
  <2>2. (current + k) * size = (current - 1) * size + size + k * size
    OBVIOUS
  <2>3. k * size \in Nat /\ (current - 1) * size \in Nat
    OBVIOUS
  <2>. QED
    BY <1>2, <2>1, <2>2, <2>3
<1>4. CardPage!MaxPage(total, size) = IF q > 1 THEN q ELSE 1
  BY DEF CardPage!MaxPage, q
<1>. QED
  BY <1>2, <1>3, <1>4

(* A page cut down to fit a list.                                          *)
LEMMA ClampedPage ==
    ASSUME NEW most \in Nat, NEW page \in CardPage!Pagination(most), NEW total \in 0 .. most
    PROVE  LET m == CardPage!Clamped(page, total)
           IN  /\ m \in CardPage!Pagination(most)
               /\ m.total = total /\ m.current <= CardPage!MaxPage(m.total, m.size)
<1>1. page.current \in Nat \ {0} /\ page.size \in Nat \ {0} /\ total \in Nat
  BY PageOf
<1>2. PICK last : last = CardPage!MaxPage(total, page.size)
  OBVIOUS
<1>3. last \in Nat \ {0}
  BY <1>1, <1>2, PagesCover
<1>4. PICK current : current = IF page.current > last THEN last ELSE page.current
  OBVIOUS
<1>5. current \in Nat \ {0} /\ current <= last
  BY <1>1, <1>3, <1>4
<1>6. CardPage!Clamped(page, total) = [page EXCEPT !.total = total, !.current = current]
  BY <1>2, <1>4 DEF CardPage!Clamped, CardPage!Pagination
<1>7. PICK m : m = [page EXCEPT !.total = total, !.current = current]
  OBVIOUS
<1>8. /\ m \in CardPage!Pagination(most)
      /\ m.total = total /\ m.current = current /\ m.size = page.size
  BY <1>5, <1>7 DEF CardPage!Pagination
<1>. QED
  BY <1>2, <1>5, <1>6, <1>7, <1>8

-----------------------------------------------------------------------------
(* Card list: what a step of the console does to it.                       *)
LEMMA CardListSteps ==
    ASSUME [Next]_vars
    PROVE  \/ UNCHANGED cardList
           \/ CardPage!Unmount
           \/ \E type \in CardTypes \union {None} :
                 CardPage!Mount(type) \/ CardPage!WatchRouteType(type)
           \/ CardPage!UserStep \/ CardPage!NetworkStep
<1>1. \A of : of \in Carries["cards"] => of \in CardTypes \union {None}
  BY DEF Carries
<1>2. CASE UNCHANGED vars
  BY <1>2 DEF vars
<1>3. ASSUME NEW page \in Pages, NEW of \in Carries[page], NEW followed, NEW clicked,
             MountPage(page, of, followed, clicked)
      PROVE  CardPage!Unmount \/ \E type \in CardTypes \union {None} : CardPage!Mount(type)
  BY <1>1, <1>3 DEF MountPage
<1>4. ASSUME NEW of \in Carries[route.page], NEW clicked, ReusePage(of, clicked)
      PROVE  UNCHANGED cardList \/ \E type \in CardTypes \union {None} : CardPage!WatchRouteType(type)
  BY <1>1, <1>4 DEF ReusePage
<1>5. CASE Open
  BY <1>3, <1>5 DEF Open
<1>6. CASE Turn
  BY <1>4, <1>6 DEF Turn
<1>7. CASE Leave
  BY <1>7 DEF Leave
<1>8. CASE UsePage
  BY <1>8 DEF UsePage, OnCardList, OnNodeList, OnTaskList, OnCardDetail, OnNodeDetail,
              OnTaskDetail, OnOverview, OnRanks, Views
<1>9. CASE Translate
  BY <1>9 DEF Translate
<1>10. CASE ClickRank
  <2>1. {"card", "task"} \subseteq Pages
    BY DEF Pages, Carries
  <2>. QED
    BY <1>3, <1>10, <2>1 DEF ClickRank, OnRanks, Views
<1>11. CASE Echo
  BY <1>11 DEF Echo, OnCardDetail, OnNodeDetail, OnTaskDetail, OnOverview
<1>12. CASE Answer
  BY <1>12 DEF Answer, OnCardList, OnNodeList, OnTaskList, OnCardDetail, OnNodeDetail,
               OnTaskDetail, OnOverview, OnRanks, Views
<1>13. ASSUME NEW name \in ranks.clicked, LookupAnswered(name)
       PROVE  \/ UNCHANGED cardList
              \/ CardPage!Unmount
              \/ \E type \in CardTypes \union {None} :
                    CardPage!Mount(type) \/ CardPage!WatchRouteType(type)
  BY <1>13 DEF LookupAnswered, OnRanks, Views, MountPage, ReusePage
<1>. QED
  BY <1>2, <1>5, <1>6, <1>7, <1>8, <1>9, <1>10, <1>11, <1>12, <1>13 DEF Next, User, Network

-----------------------------------------------------------------------------
(* The list of cards *)

(* Filters that do not contradict each other, on the screen and sent, and  *)
(* a page that exists.                                                     *)
GoodCards(l) ==
    /\ l \in CardPage!States
    /\ CardPage!ScopeChosen(l) /\ CardPage!ScopeAsked(l)
    /\ CardPage!OnAPage(l)

(* A page that has just asked.                                             *)
LEMMA CardsAsked ==
    ASSUME NEW l, GoodCards(l), CardPage!CanAsk(l)
    PROVE  LET asked == CardPage!FetchTableData(l)
           IN  /\ GoodCards(asked) /\ Len(asked.flights) <= MaxLists
               /\ CardPage!LastAwaited(asked) /\ CardPage!AskedAsFiltered(asked)
<1> DEFINE p == CardPage!Payload(l)
           m == CardPage!FetchTableData(l)
<1>1. l \in CardPage!States
  BY DEF GoodCards
<1>2. p \in CardPage!Requests /\ (p.node # None /\ p.type # None => p.type \in CardPage!TypesOn(p.node))
  BY <1>1 DEF CardPage!Payload, CardPage!States, CardPage!Requests, GoodCards, CardPage!ScopeChosen
<1>3. /\ m.flights = Append(l.flights, p) /\ m.newest = "out" /\ m.loading = TRUE
      /\ m.uid = l.uid /\ m.node = l.node /\ m.type = l.type /\ m.manual = l.manual
      /\ m.typing = l.typing
      /\ m.rows = l.rows /\ m.page = l.page
  BY <1>1 DEF CardPage!FetchTableData, CardPage!Ask, CardPage!States
<1>4. l.flights \in Seq(CardPage!Requests)
  BY <1>1 DEF CardPage!States
<1>5. m \in CardPage!States
  <2>1. Append(l.flights, p) \in Seq(CardPage!Requests)
    BY <1>2, <1>4, Sent
  <2>. QED
    BY <2>1, <1>1 DEF CardPage!FetchTableData, CardPage!Ask, CardPage!States
<1>. HIDE DEF m, p
<1>6. Len(m.flights) <= MaxLists
  <2>1. Len(Append(l.flights, p)) = Len(l.flights) + 1 /\ Len(l.flights) \in Nat
    BY <1>2, <1>4, Sent
  <2>2. MaxLists \in Nat
    BY Bounds
  <2>. QED
    BY <1>3, <2>1, <2>2 DEF CardPage!CanAsk
<1>7. CardPage!ScopeChosen(m)
  BY <1>3 DEF GoodCards, CardPage!ScopeChosen
<1>8. CardPage!ScopeAsked(m)
  <2>1. ASSUME NEW k \in DOMAIN m.flights
        PROVE  m.flights[k].node # None /\ m.flights[k].type # None
                  => m.flights[k].type \in CardPage!TypesOn(m.flights[k].node)
    BY <2>1, <1>2, <1>3, <1>4, Sent DEF GoodCards, CardPage!ScopeAsked
  <2>. QED
    BY <2>1 DEF CardPage!ScopeAsked
<1>9. CardPage!LastAwaited(m) /\ Last(m.flights) = p
  BY <1>2, <1>3, <1>4, Sent DEF CardPage!LastAwaited
<1>10. CardPage!OnAPage(m)
  BY <1>3 DEF GoodCards, CardPage!OnAPage
<1>11. CardPage!Payload(m) = p
  BY <1>3 DEF p, CardPage!Payload
<1>12. CardPage!AskedAsFiltered(m)
  BY <1>3, <1>9, <1>11 DEF CardPage!AskedAsFiltered, CardPage!Last, Last
<1>. QED
  BY <1>5, <1>6, <1>7, <1>8, <1>9, <1>10, <1>12 DEF GoodCards, m

(* setup: nothing is selected but the type of the route.                   *)
LEMMA CardsFresh ==
    ASSUME NEW type \in CardTypes \union {None}
    PROVE  LET fresh == CardPage!ResetToFirstPage(CardPage!Fresh(type))
           IN  GoodCards(fresh) /\ CardPage!CanAsk(fresh)
<1>1. CardPage!NoRequest \in CardPage!Requests
  BY ConsoleAssumption DEF CardPage!NoRequest, CardPage!Requests
<1>2. CardPage!FirstPage \in CardPage!Pagination(CardPage!Cardinality(Cards))
  <2>1. CardPage!FirstPage.size \in PageSizes
    BY Bounds DEF CardPage!FirstPage
  <2>2. CardPage!Cardinality(Cards) \in Nat
    BY Bounds, SameCardinality
  <2>. QED
    BY <2>1, <2>2 DEF CardPage!FirstPage, CardPage!Pagination
<1>3. CardPage!Fresh(type) \in CardPage!States
  <2>1. "" \in Texts
    BY ConsoleAssumption, Zenon
  <2>2. <<>> \in Seq(CardPage!Requests)
    OBVIOUS
  <2>. QED
    BY <1>1, <1>2, <2>1, <2>2
       DEF CardPage!Fresh, CardPage!States, CardPage!Blank, CardTypes, CardPage!CardTypes
<1>4. PICK l : l = CardPage!Fresh(type)
  OBVIOUS
<1>5. /\ l.node = None /\ l.flights = <<>> /\ l.rows.ids = {}
      /\ l.page.total = 0 /\ l.page.current = 1 /\ l.page.size \in PageSizes
  BY <1>2, <1>4 DEF CardPage!Fresh, CardPage!Blank, CardPage!FirstPage, CardPage!Pagination
<1> DEFINE m == CardPage!ResetToFirstPage(l)
<1>6. m = l
  BY <1>3, <1>4, <1>5 DEF CardPage!ResetToFirstPage, CardPage!States, CardPage!Pagination
<1>7. CardPage!OnAPage(l)
  <2>1. CardPage!MaxPage(0, l.page.size) >= 1
    <3>1. l.page.size \in Nat \ {0}
      BY <1>5, Bounds
    <3>2. CardPage!MaxPage(0, l.page.size) \in Nat \ {0}
      BY <3>1, PagesCover
    <3>. QED
      BY <3>2
  <2>2. CardPage!Cardinality({}) = 0
    BY SameCardinality, FS_EmptySet
  <2>. QED
    BY <1>5, <2>1, <2>2 DEF CardPage!OnAPage
<1>8. 0 < MaxLists
  BY Bounds
<1>. QED
  BY <1>3, <1>4, <1>5, <1>6, <1>7, <1>8
     DEF GoodCards, CardPage!ScopeChosen, CardPage!ScopeAsked, CardPage!CanAsk

(* Setting filters keeps the page good, as long as the node goes with the  *)
(* type, and leaves the flights alone.                                     *)
LEMMA CardsFiltered ==
    ASSUME NEW l, GoodCards(l)
    PROVE  /\ \A type \in CardTypes \union {None} :
                LET m == CardPage!PruneNodeScopeByType([l EXCEPT !.type = type])
                IN  GoodCards(m) /\ m.flights = l.flights
           /\ \A node \in CardPage!NodeOptions(l) \union {None} :
                LET m == [l EXCEPT !.node = node, !.manual = TRUE]
                IN  GoodCards(m) /\ m.flights = l.flights
           /\ \A typing \in BOOLEAN :
                LET m == [l EXCEPT !.typing = typing]
                IN  GoodCards(m) /\ m.flights = l.flights
<1>1. l \in CardPage!States
  BY DEF GoodCards
<1>2. ASSUME NEW type \in CardTypes \union {None}, NEW m,
             m = CardPage!PruneNodeScopeByType([l EXCEPT !.type = type])
      PROVE  GoodCards(m) /\ m.flights = l.flights
  <2>1. PICK t : t = [l EXCEPT !.type = type]
    OBVIOUS
  <2>2. /\ t \in CardPage!States /\ t.type = type /\ t.node = l.node /\ t.manual = l.manual
        /\ t.flights = l.flights /\ t.rows = l.rows /\ t.page = l.page
    BY <1>1, <2>1 DEF CardPage!States, CardTypes, CardPage!CardTypes
  <2>3. \/ m = t /\ (t.type = None \/ t.node = None \/ t.type \in CardPage!TypesOn(t.node))
        \/ m = [t EXCEPT !.node = None, !.manual = TRUE]
    BY <1>2, <2>1 DEF CardPage!PruneNodeScopeByType
  <2>4. /\ m \in CardPage!States /\ m.flights = l.flights /\ m.rows = l.rows /\ m.page = l.page
        /\ \/ m.node = None
           \/ /\ m.node = l.node /\ m.manual = l.manual
              /\ m.type # None => m.type \in CardPage!TypesOn(m.node)
    BY <2>2, <2>3 DEF CardPage!States
  <2>. QED
    BY <2>4 DEF GoodCards, CardPage!ScopeChosen, CardPage!ScopeAsked, CardPage!OnAPage
<1>3. ASSUME NEW node \in CardPage!NodeOptions(l) \union {None}, NEW m,
             m = [l EXCEPT !.node = node, !.manual = TRUE]
      PROVE  GoodCards(m) /\ m.flights = l.flights
  <2>1. node \in Nodes \union {None} /\ (node # None /\ l.type # None => l.type \in CardPage!TypesOn(node))
    BY <1>1 DEF CardPage!NodeOptions, CardPage!States
  <2>2. /\ m \in CardPage!States /\ m.type = l.type /\ m.node = node /\ m.manual
        /\ m.flights = l.flights /\ m.rows = l.rows /\ m.page = l.page
    BY <1>1, <1>3, <2>1 DEF CardPage!States
  <2>. QED
    BY <2>1, <2>2 DEF GoodCards, CardPage!ScopeChosen, CardPage!ScopeAsked, CardPage!OnAPage
<1>4. ASSUME NEW typing \in BOOLEAN, NEW m, m = [l EXCEPT !.typing = typing]
      PROVE  GoodCards(m) /\ m.flights = l.flights
  <2>1. /\ m \in CardPage!States /\ m.type = l.type /\ m.node = l.node /\ m.manual = l.manual
        /\ m.flights = l.flights /\ m.rows = l.rows /\ m.page = l.page
    BY <1>1, <1>4 DEF CardPage!States
  <2>. QED
    BY <2>1 DEF GoodCards, CardPage!ScopeChosen, CardPage!ScopeAsked, CardPage!OnAPage
<1>. QED
  BY <1>2, <1>3, <1>4

(* Back on the first page the filters are applied.                         *)
LEMMA CardsApplied ==
    ASSUME NEW l, GoodCards(l), CardPage!CanAsk(l)
    PROVE  LET asked == CardPage!ApplyFilters(l)
           IN  /\ GoodCards(asked) /\ Len(asked.flights) <= MaxLists
               /\ CardPage!LastAwaited(asked) /\ CardPage!AskedAsFiltered(asked)
<1>1. l \in CardPage!States
  BY DEF GoodCards
<1>2. PICK m : m = CardPage!ResetToFirstPage(l)
  OBVIOUS
<1>3. /\ m \in CardPage!States /\ m.type = l.type /\ m.node = l.node /\ m.manual = l.manual
      /\ m.flights = l.flights /\ m.rows = l.rows /\ m.page.total = l.page.total
      /\ m.page.size = l.page.size /\ m.page.current = 1
  BY <1>1, <1>2 DEF CardPage!ResetToFirstPage, CardPage!States, CardPage!Pagination
<1>4. 1 <= CardPage!MaxPage(m.page.total, m.page.size)
  <2>1. m.page.size \in Nat \ {0} /\ m.page.total \in Nat
    <3>1. m.page \in CardPage!Pagination(CardPage!Cardinality(Cards))
      BY <1>3 DEF CardPage!States
    <3>. QED
      BY <3>1, PageOf, Bounds, SameCardinality
  <2>2. CardPage!MaxPage(m.page.total, m.page.size) \in Nat \ {0}
    BY <2>1, PagesCover
  <2>. QED
    BY <2>2
<1>5. GoodCards(m) /\ CardPage!CanAsk(m)
  BY <1>3, <1>4 DEF GoodCards, CardPage!ScopeChosen, CardPage!ScopeAsked, CardPage!OnAPage,
     CardPage!CanAsk
<1>. QED
  BY <1>2, <1>5, CardsAsked DEF CardPage!ApplyFilters

(* Rows fill a page that exists.                                           *)
LEMMA CardsPaged ==
    ASSUME NEW l, l \in CardPage!States, CardPage!OnAPage(l), l.rows.ids # {}
    PROVE  CardPage!PagedCount(l) > 0
<1> DEFINE total == CardPage!Cardinality(l.rows.ids)
           start == (l.page.current - 1) * l.page.size
<1>1. l.page.size \in Nat \ {0} /\ l.page.current \in Nat \ {0} /\ l.rows.ids \in SUBSET Cards
  <2>1. l.page \in CardPage!Pagination(CardPage!Cardinality(Cards)) /\ l.rows.ids \in SUBSET Cards
    BY DEF CardPage!States
  <2>. QED
    BY <2>1, PageOf, Bounds, SameCardinality
<1>2. total \in Nat /\ total > 0
  <2>1. IsFiniteSet(l.rows.ids)
    <3>1. IsFiniteSet(Cards)
      BY ConsoleAssumption, Zenon
    <3>. QED
      BY <1>1, <3>1, FS_Subset
  <2>. QED
    BY <2>1, FS_EmptySet, FS_CardinalityType, SameCardinality
<1>3. l.page.current <= CardPage!MaxPage(total, l.page.size)
  BY DEF CardPage!OnAPage
<1>. HIDE DEF total
<1>4. start < total /\ start \in Nat
  <2>1. PICK current \in Nat \ {0}, size \in Nat \ {0} : current = l.page.current /\ size = l.page.size
    BY <1>1
  <2>2. (current - 1) * size < total
    BY <1>2, <1>3, <2>1, PagesCover
  <2>3. (current - 1) * size \in Nat
    OBVIOUS
  <2>. QED
    BY <2>1, <2>2, <2>3
<1>. HIDE DEF start
<1>. QED
  BY <1>1, <1>2, <1>4 DEF CardPage!PagedCount, total, start

(* The page the user turns to exists.                                      *)
LEMMA CardsTurned ==
    ASSUME NEW l, GoodCards(l), NEW m,
           \/ \E current \in 1 .. Cardinality(Cards) :
                 CardPage!ChangePage(l, current) /\ m = CardPage!TurnTo(l, current)
           \/ \E size \in PageSizes : m = CardPage!Resize(l, size)
    PROVE  /\ GoodCards(m) /\ m.flights = l.flights /\ m.newest = l.newest
           /\ m.rows = l.rows /\ m.typing = l.typing /\ CardPage!Payload(m) = CardPage!Payload(l)
<1>1. l \in CardPage!States /\ l.page \in CardPage!Pagination(CardPage!Cardinality(Cards))
  BY DEF GoodCards, CardPage!States
<1>2. CardPage!Cardinality(Cards) \in Nat
  BY Bounds, SameCardinality
<1>3. l.page.size \in Nat \ {0} /\ l.page.total \in Nat /\ l.page.current \in Nat \ {0}
  BY <1>1, PageOf, Bounds, SameCardinality
<1>4. ASSUME NEW page, page \in CardPage!Pagination(CardPage!Cardinality(Cards)),
             page.total = l.page.total, page.current <= CardPage!MaxPage(page.total, page.size),
             m = [l EXCEPT !.page = page]
      PROVE  /\ GoodCards(m) /\ m.flights = l.flights /\ m.newest = l.newest
             /\ m.rows = l.rows /\ m.typing = l.typing /\ CardPage!Payload(m) = CardPage!Payload(l)
  <2>1. /\ m \in CardPage!States /\ m.uid = l.uid /\ m.type = l.type /\ m.node = l.node
        /\ m.manual = l.manual
        /\ m.flights = l.flights /\ m.newest = l.newest /\ m.rows = l.rows /\ m.typing = l.typing
        /\ m.page = page
    BY <1>1, <1>4 DEF CardPage!States
  <2>. QED
    BY <1>4, <2>1
       DEF GoodCards, CardPage!ScopeChosen, CardPage!ScopeAsked, CardPage!OnAPage, CardPage!Payload
<1>5. ASSUME NEW current \in 1 .. Cardinality(Cards), CardPage!ChangePage(l, current),
             m = CardPage!TurnTo(l, current)
      PROVE  \E page : /\ page \in CardPage!Pagination(CardPage!Cardinality(Cards))
                       /\ page.total = l.page.total
                       /\ page.current <= CardPage!MaxPage(page.total, page.size)
                       /\ m = [l EXCEPT !.page = page]
  <2> DEFINE page == [l.page EXCEPT !.current = current]
  <2>1. current \in Nat \ {0}
    BY Bounds
  <2>2. /\ page \in CardPage!Pagination(CardPage!Cardinality(Cards)) /\ page.total = l.page.total
        /\ page.current = current /\ page.size = l.page.size
    BY <1>1, <2>1 DEF CardPage!Pagination
  <2>3. current <= CardPage!MaxPage(l.page.total, l.page.size)
    <3>1. CardPage!MaxPage(l.page.total, l.page.size) \in Nat
      BY <1>3, PagesCover
    <3>. QED
      BY <1>5, <3>1 DEF CardPage!ChangePage
  <2>4. m = [l EXCEPT !.page = page]
    BY <1>1, <1>5 DEF CardPage!TurnTo
  <2>. QED
    BY <2>2, <2>3, <2>4
<1>6. ASSUME NEW size \in PageSizes, m = CardPage!Resize(l, size)
      PROVE  \E page : /\ page \in CardPage!Pagination(CardPage!Cardinality(Cards))
                       /\ page.total = l.page.total
                       /\ page.current <= CardPage!MaxPage(page.total, page.size)
                       /\ m = [l EXCEPT !.page = page]
  <2>1. PICK page : page = [l.page EXCEPT !.size = size]
    OBVIOUS
  <2>2. /\ page \in CardPage!Pagination(CardPage!Cardinality(Cards))
        /\ l.page.total \in 0 .. CardPage!Cardinality(Cards)
    BY <1>1, <2>1 DEF CardPage!Pagination
  <2>3. m = [l EXCEPT !.page = CardPage!Clamped(page, l.page.total)]
    BY <1>6, <2>1 DEF CardPage!Resize
  <2>. QED
    BY <1>2, <2>2, <2>3, ClampedPage
<1>. QED
  BY <1>4, <1>5, <1>6

(* What holds of the list of cards at every step.                          *)
CardsKept(l) ==
    /\ GoodCards(l) /\ Len(l.flights) <= MaxLists
    /\ CardPage!LastAwaited(l) /\ CardPage!AskedAsFiltered(l)

(* A text being typed is not asked for yet.                                *)
LEMMA CardsTyped ==
    ASSUME NEW l, CardsKept(l), NEW text \in Texts
    PROVE  CardsKept([l EXCEPT !.uid = text, !.typing = TRUE])
<1>1. l \in CardPage!States
  BY DEF CardsKept, GoodCards
<1>2. PICK m : m = [l EXCEPT !.uid = text, !.typing = TRUE]
  OBVIOUS
<1>3. /\ m \in CardPage!States /\ m.type = l.type /\ m.node = l.node /\ m.manual = l.manual
      /\ m.flights = l.flights /\ m.newest = l.newest /\ m.rows = l.rows /\ m.page = l.page
      /\ m.typing
  BY <1>1, <1>2 DEF CardPage!States
<1>4. GoodCards(m)
  BY <1>3 DEF CardsKept, GoodCards, CardPage!ScopeChosen, CardPage!ScopeAsked, CardPage!OnAPage
<1>. QED
  BY <1>2, <1>3, <1>4 DEF CardsKept, CardPage!LastAwaited, CardPage!AskedAsFiltered

(* The options come in.                                                    *)
LEMMA CardsOffered ==
    ASSUME NEW l, CardsKept(l), NEW nodes \in SUBSET Nodes, NEW types \in SUBSET CardTypes
    PROVE  CardsKept([l EXCEPT !.options = "in", !.nodes = nodes, !.types = types])
<1>1. l \in CardPage!States
  BY DEF CardsKept, GoodCards
<1>2. PICK m : m = [l EXCEPT !.options = "in", !.nodes = nodes, !.types = types]
  OBVIOUS
<1>3. /\ m \in CardPage!States /\ m.uid = l.uid /\ m.type = l.type /\ m.node = l.node
      /\ m.manual = l.manual /\ m.flights = l.flights /\ m.newest = l.newest
      /\ m.rows = l.rows /\ m.page = l.page /\ m.typing = l.typing
  BY <1>1, <1>2 DEF CardPage!States, CardTypes, CardPage!CardTypes
<1>4. GoodCards(m)
  BY <1>3 DEF CardsKept, GoodCards, CardPage!ScopeChosen, CardPage!ScopeAsked, CardPage!OnAPage
<1>5. CardPage!Payload(m) = CardPage!Payload(l)
  BY <1>3 DEF CardPage!Payload
<1>. QED
  BY <1>2, <1>3, <1>4, <1>5 DEF CardsKept, CardPage!LastAwaited, CardPage!AskedAsFiltered

(* An answer, and the rows left as they are or replaced by the answer's:   *)
(* what is left in flight keeps its scope and its last request.            *)
LEMMA CardsLanded ==
    ASSUME NEW l, CardsKept(l), NEW i \in DOMAIN l.flights
    PROVE  LET left == CardPage!RemoveAt(l.flights, i)
           IN  /\ left \in Seq(CardPage!Requests) /\ Len(left) <= MaxLists
               /\ \A k \in DOMAIN left :
                     left[k].node # None /\ left[k].type # None
                        => left[k].type \in CardPage!TypesOn(left[k].node)
               /\ i # Len(l.flights) =>
                     left # <<>> /\ CardPage!Last(left) = CardPage!Last(l.flights)
<1>1. l.flights \in Seq(CardPage!Requests) /\ Len(l.flights) \in Nat /\ Len(l.flights) <= MaxLists
  BY DEF CardsKept, GoodCards, CardPage!States
<1>2. PICK left : left = RemoveAt(l.flights, i)
  OBVIOUS
<1>3. /\ left \in Seq(CardPage!Requests) /\ Len(left) = Len(l.flights) - 1
      /\ \A k \in DOMAIN left : \E j \in DOMAIN l.flights : left[k] = l.flights[j]
      /\ i # Len(l.flights) => left # <<>> /\ Last(left) = Last(l.flights)
  BY <1>1, <1>2, Landed
<1>4. CardPage!RemoveAt(l.flights, i) = left
  BY <1>2 DEF RemoveAt, CardPage!RemoveAt
<1>5. Len(left) <= MaxLists
  BY <1>1, <1>3, Bounds
<1>6. CardPage!ScopeAsked(l)
  BY DEF CardsKept, GoodCards
<1>7. ASSUME NEW k \in DOMAIN left
      PROVE  left[k].node # None /\ left[k].type # None
                => left[k].type \in CardPage!TypesOn(left[k].node)
  <2>1. PICK j \in DOMAIN l.flights : left[k] = l.flights[j]
    BY <1>3, <1>7
  <2>. QED
    BY <2>1, <1>6 DEF CardPage!ScopeAsked
<1>8. \A s : CardPage!Last(s) = Last(s)
  BY DEF Last, CardPage!Last
<1>. QED
  BY <1>3, <1>4, <1>5, <1>7, <1>8

(* A failed call changes no row.                                           *)
LEMMA CardsMissed ==
    ASSUME NEW l, CardsKept(l), NEW i \in DOMAIN l.flights
    PROVE  CardsKept(CardPage!Miss(l, i))
<1>1. l \in CardPage!States
  BY DEF CardsKept, GoodCards
<1>2. PICK left : left = CardPage!RemoveAt(l.flights, i)
  OBVIOUS
<1>3. /\ left \in Seq(CardPage!Requests) /\ Len(left) <= MaxLists
      /\ \A k \in DOMAIN left :
            left[k].node # None /\ left[k].type # None
               => left[k].type \in CardPage!TypesOn(left[k].node)
      /\ i # Len(l.flights) =>
            left # <<>> /\ CardPage!Last(left) = CardPage!Last(l.flights)
  BY <1>2, CardsLanded
<1>4. PICK newest : newest = IF CardPage!IsNewest(l, i) THEN "lost" ELSE l.newest
  OBVIOUS
<1>5. PICK m : m = [l EXCEPT !.loading = FALSE, !.flights = left, !.newest = newest]
  OBVIOUS
<1>6. m = CardPage!Miss(l, i)
  BY <1>1, <1>2, <1>4, <1>5 DEF CardPage!Miss, CardPage!States
<1>7. newest \in {"out", "shown", "lost"}
  BY <1>1, <1>4 DEF CardPage!States
<1>8. /\ m \in CardPage!States /\ m.uid = l.uid /\ m.type = l.type /\ m.node = l.node
      /\ m.manual = l.manual /\ m.flights = left /\ m.newest = newest
      /\ m.rows = l.rows /\ m.page = l.page /\ m.typing = l.typing
  BY <1>1, <1>3, <1>5, <1>7 DEF CardPage!States
<1>9. GoodCards(m)
  BY <1>3, <1>8 DEF CardsKept, GoodCards, CardPage!ScopeChosen, CardPage!ScopeAsked,
     CardPage!OnAPage
<1>10. CardPage!Payload(m) = CardPage!Payload(l)
  BY <1>8 DEF CardPage!Payload
<1>11. newest = "out" => l.newest = "out" /\ i # Len(l.flights)
  BY <1>4 DEF CardPage!IsNewest
<1>12. newest = "shown" => l.newest = "shown"
  BY <1>4
<1>. QED
  BY <1>3, <1>6, <1>8, <1>9, <1>10, <1>11, <1>12
     DEF CardsKept, CardPage!LastAwaited, CardPage!AskedAsFiltered

(* The list comes in, and the page is cut down to fit it.                  *)
LEMMA CardsShown ==
    ASSUME NEW l, CardsKept(l), NEW i \in DOMAIN l.flights,
           NEW ids \in CardPage!CardAnswers(l.flights[i])
    PROVE  CardsKept(CardPage!SyncTotalAndClamp(CardPage!Show(l, i, ids)))
<1>1. l \in CardPage!States /\ l.page \in CardPage!Pagination(CardPage!Cardinality(Cards))
  BY DEF CardsKept, GoodCards, CardPage!States
<1>2. PICK left : left = CardPage!RemoveAt(l.flights, i)
  OBVIOUS
<1>3. /\ left \in Seq(CardPage!Requests) /\ Len(left) <= MaxLists
      /\ \A k \in DOMAIN left :
            left[k].node # None /\ left[k].type # None
               => left[k].type \in CardPage!TypesOn(left[k].node)
      /\ i # Len(l.flights) =>
            left # <<>> /\ CardPage!Last(left) = CardPage!Last(l.flights)
  BY <1>2, CardsLanded
<1>4. l.flights[i] \in CardPage!Requests
  BY <1>1 DEF CardPage!States
<1>5. ids \subseteq CardPage!MatchingCards(l.flights[i]) /\ ids \in SUBSET Cards
  <2>1. \A text \in Texts : CardHits[text] \subseteq Cards
    BY ConsoleAssumption, Zenon
  <2>2. l.flights[i].uid \in Texts
    BY <1>4 DEF CardPage!Requests
  <2>3. CardPage!MatchingCards(l.flights[i]) \subseteq Cards
    BY <2>1, <2>2 DEF CardPage!MatchingCards
  <2>. QED
    BY <2>3 DEF CardPage!CardAnswers
<1>6. PICK rows : rows = [asked |-> l.flights[i], ids |-> ids]
  OBVIOUS
<1>7. PICK newest : newest = IF CardPage!IsNewest(l, i) THEN "shown"
                             ELSE IF l.newest = "shown" THEN "lost" ELSE l.newest
  OBVIOUS
<1>8. PICK page : page = CardPage!Clamped(l.page, CardPage!Cardinality(ids))
  OBVIOUS
<1>9. /\ page \in CardPage!Pagination(CardPage!Cardinality(Cards))
      /\ page.total = CardPage!Cardinality(ids)
      /\ page.current <= CardPage!MaxPage(page.total, page.size)
  <2>1. CardPage!Cardinality(ids) \in 0 .. CardPage!Cardinality(Cards)
    BY <1>5, Bounds, SameCardinality
  <2>. QED
    BY <1>1, <1>8, <2>1, ClampedPage, Bounds, SameCardinality
<1>10. PICK s : s = [l EXCEPT !.rows = rows, !.loading = FALSE, !.flights = left, !.newest = newest]
  OBVIOUS
<1>11. s = CardPage!Show(l, i, ids)
  BY <1>1, <1>2, <1>6, <1>7, <1>10 DEF CardPage!Show, CardPage!States
<1>12. PICK m : m = [s EXCEPT !.page = page]
  OBVIOUS
<1>13. newest \in {"out", "shown", "lost"}
  BY <1>1, <1>7 DEF CardPage!States
<1>14. rows \in [asked : CardPage!Requests, ids : SUBSET Cards] /\ rows.ids = ids
  BY <1>4, <1>5, <1>6
<1>15. /\ s \in CardPage!States /\ s.uid = l.uid /\ s.type = l.type /\ s.node = l.node
       /\ s.manual = l.manual /\ s.flights = left /\ s.newest = newest
       /\ s.rows = rows /\ s.page = l.page /\ s.typing = l.typing
  BY <1>1, <1>3, <1>10, <1>13, <1>14 DEF CardPage!States
<1>16. m = CardPage!SyncTotalAndClamp(CardPage!Show(l, i, ids))
  BY <1>8, <1>11, <1>12, <1>14, <1>15 DEF CardPage!SyncTotalAndClamp
<1>17. /\ m \in CardPage!States /\ m.uid = l.uid /\ m.type = l.type /\ m.node = l.node
       /\ m.manual = l.manual /\ m.flights = left /\ m.newest = newest
       /\ m.rows = rows /\ m.page = page /\ m.typing = l.typing
  BY <1>9, <1>12, <1>15 DEF CardPage!States
<1>18. GoodCards(m)
  BY <1>3, <1>9, <1>14, <1>17 DEF CardsKept, GoodCards, CardPage!ScopeChosen,
     CardPage!ScopeAsked, CardPage!OnAPage
<1>19. CardPage!Payload(m) = CardPage!Payload(l)
  BY <1>17 DEF CardPage!Payload
<1>20. newest = "out" => l.newest = "out" /\ i # Len(l.flights)
  BY <1>7 DEF CardPage!IsNewest
<1>21. newest = "shown" => l.newest = "out" /\ l.flights[i] = CardPage!Last(l.flights)
  BY <1>7 DEF CardPage!IsNewest, CardPage!Last
<1>22. CardPage!LastAwaited(m)
  BY <1>3, <1>17, <1>20 DEF CardPage!LastAwaited
<1>23. CardPage!AskedAsFiltered(m)
  BY <1>3, <1>5, <1>14, <1>17, <1>19, <1>20, <1>21 DEF CardsKept, CardPage!AskedAsFiltered
<1>. QED
  BY <1>3, <1>16, <1>17, <1>18, <1>22, <1>23 DEF CardsKept

(* The list of cards' part of the inductive invariant.                     *)
CardsInv == cardList # None => CardsKept(cardList)

(* The list of cards keeps it.                                             *)
LEMMA CardsStep ==
    ASSUME CardsInv, [Next]_vars
    PROVE  CardsInv'
<1>1. SUFFICES ASSUME cardList' # None
               PROVE  CardsKept(cardList')
  BY DEF CardsInv
<1>2. ASSUME NEW l, GoodCards(l), CardPage!CanAsk(l), NEW m, m = CardPage!ApplyFilters(l)
      PROVE  CardsKept(m)
  BY <1>2, CardsApplied DEF CardsKept
<1>3. CASE UNCHANGED cardList
  BY <1>1, <1>3 DEF CardsInv
<1>4. CASE CardPage!Unmount
  BY <1>1, <1>4 DEF CardPage!Unmount
<1>5. ASSUME NEW type \in CardTypes \union {None}, CardPage!Mount(type)
      PROVE  CardsKept(cardList')
  <2>1. PICK l : l = CardPage!ResetToFirstPage(CardPage!Fresh(type))
    OBVIOUS
  <2>2. GoodCards(l) /\ CardPage!CanAsk(l)
    BY <2>1, CardsFresh
  <2>3. cardList' = CardPage!FetchTableData(l)
    BY <1>5, <2>1 DEF CardPage!Mount, CardPage!ApplyFilters
  <2>. QED
    BY <2>2, <2>3, CardsAsked DEF CardsKept
<1>6. CASE cardList # None
  <2>1. CardsKept(cardList) /\ GoodCards(cardList)
    BY <1>6 DEF CardsInv, CardsKept
  <2>2. ASSUME NEW type \in CardTypes \union {None}, CardPage!CanAsk(cardList),
               cardList' = CardPage!ApplyFilters(
                             CardPage!PruneNodeScopeByType([cardList EXCEPT !.type = type]))
        PROVE  CardsKept(cardList')
    <3>1. PICK l : l = CardPage!PruneNodeScopeByType([cardList EXCEPT !.type = type])
      OBVIOUS
    <3>2. GoodCards(l) /\ l.flights = cardList.flights
      BY <2>1, <3>1, CardsFiltered
    <3>. QED
      BY <1>2, <2>2, <3>1, <3>2 DEF CardPage!CanAsk
  <2>3. ASSUME NEW type \in CardTypes \union {None}, CardPage!WatchRouteType(type)
        PROVE  CardsKept(cardList')
    BY <2>1, <2>2, <2>3 DEF CardPage!WatchRouteType
  <2>4. ASSUME NEW type \in CardTypes \union {None}, CardPage!OnTypeChange(type)
        PROVE  CardsKept(cardList')
    BY <2>2, <2>4 DEF CardPage!OnTypeChange, CardPage!MayFetch
  <2>5. ASSUME NEW node, CardPage!OnNodeNameChange(node)
        PROVE  CardsKept(cardList')
    <3>1. PICK l : l = [cardList EXCEPT !.node = node, !.manual = TRUE]
      OBVIOUS
    <3>2. node \in CardPage!NodeOptions(cardList) \union {None}
      BY <2>5 DEF CardPage!OnNodeNameChange
    <3>3. GoodCards(l) /\ l.flights = cardList.flights
      BY <2>1, <3>1, <3>2, CardsFiltered
    <3>. QED
      BY <1>2, <2>5, <3>1, <3>3 DEF CardPage!OnNodeNameChange, CardPage!MayFetch, CardPage!CanAsk
  <2>6. ASSUME NEW name \in CardTypes, CardPage!HandlePieClick(name)
        PROVE  CardsKept(cardList')
    <3>1. CASE cardList.type = name
      <4>1. cardList \in CardPage!States
        BY <2>1 DEF GoodCards
      <4>2. PICK l : l = [cardList EXCEPT !.type = None]
        OBVIOUS
      <4>3. /\ l \in CardPage!States /\ l.type = None /\ l.node = cardList.node
            /\ l.manual = cardList.manual /\ l.flights = cardList.flights
            /\ l.rows = cardList.rows /\ l.page = cardList.page
        BY <4>1, <4>2 DEF CardPage!States
      <4>4. GoodCards(l)
        BY <2>1, <4>3 DEF GoodCards, CardPage!ScopeChosen, CardPage!ScopeAsked, CardPage!OnAPage
      <4>. QED
        BY <1>2, <2>6, <3>1, <4>2, <4>3, <4>4
           DEF CardPage!HandlePieClick, CardPage!MayFetch, CardPage!CanAsk
    <3>2. CASE cardList.type # name
      BY <2>2, <2>6, <3>2 DEF CardPage!HandlePieClick, CardPage!MayFetch
    <3>. QED
      BY <3>1, <3>2
  <2>7. ASSUME NEW text \in Texts, CardPage!TypeUid(text)
        PROVE  CardsKept(cardList')
    BY <2>1, <2>7, CardsTyped DEF CardPage!TypeUid
  <2>8. CASE CardPage!LeaveUid
    <3>1. PICK typing \in BOOLEAN :
            cardList' = CardPage!ApplyFilters([cardList EXCEPT !.typing = typing])
      BY <2>8 DEF CardPage!LeaveUid
    <3>2. PICK l : l = [cardList EXCEPT !.typing = typing]
      OBVIOUS
    <3>3. GoodCards(l) /\ l.flights = cardList.flights
      BY <2>1, <3>2, CardsFiltered
    <3>. QED
      BY <1>2, <2>8, <3>1, <3>2, <3>3 DEF CardPage!LeaveUid, CardPage!MayFetch, CardPage!CanAsk
  <2>9. CASE CardPage!RefreshTable
    BY <2>1, <2>9, CardsAsked DEF CardsKept, CardPage!RefreshTable, CardPage!MayFetch
  <2>10. CASE CardPage!Page
    <3>1. \/ \E current \in 1 .. CardPage!Cardinality(Cards) :
                CardPage!ChangePage(cardList, current) /\ cardList' = CardPage!TurnTo(cardList, current)
          \/ \E size \in PageSizes : cardList' = CardPage!Resize(cardList, size)
      BY <2>10 DEF CardPage!Page
    <3>2. CardPage!Cardinality(Cards) = Cardinality(Cards)
      BY SameCardinality
    <3>3. PICK m : m = cardList'
      OBVIOUS
    <3>4. /\ GoodCards(m) /\ m.flights = cardList.flights /\ m.newest = cardList.newest
          /\ m.rows = cardList.rows /\ m.typing = cardList.typing
          /\ CardPage!Payload(m) = CardPage!Payload(cardList)
      BY <2>1, <3>1, <3>2, <3>3, CardsTurned
    <3>. QED
      BY <2>1, <3>3, <3>4 DEF CardsKept, CardPage!LastAwaited, CardPage!AskedAsFiltered
  <2>11. CASE CardPage!UserStep
    BY <2>4, <2>5, <2>6, <2>7, <2>8, <2>9, <2>10, <2>11
       DEF CardPage!UserStep, CardTypes, CardPage!CardTypes
  <2>12. CASE CardPage!NetworkStep
    <3>1. ASSUME NEW ok, CardPage!OptionsAnswered(ok)
          PROVE  CardsKept(cardList')
      <4>1. PICK nodes, types : /\ nodes = IF ok THEN Nodes ELSE {}
                                /\ types = IF ok THEN CardPage!CardTypes ELSE {}
        OBVIOUS
      <4>2. nodes \in SUBSET Nodes /\ types \in SUBSET CardTypes
        BY <4>1 DEF CardTypes, CardPage!CardTypes
      <4>3. cardList' = [cardList EXCEPT !.options = "in", !.nodes = nodes, !.types = types]
        BY <3>1, <4>1 DEF CardPage!OptionsAnswered
      <4>. QED
        BY <2>1, <4>2, <4>3, CardsOffered
    <3>2. ASSUME NEW i, NEW ok, CardPage!ListAnswered(i, ok)
          PROVE  CardsKept(cardList')
      BY <2>1, <3>2, CardsShown, CardsMissed DEF CardPage!ListAnswered
    <3>. QED
      BY <2>12, <3>1, <3>2 DEF CardPage!NetworkStep
  <2>. QED
    BY <1>3, <1>4, <1>5, <2>3, <2>11, <2>12, CardListSteps
<1>7. CASE cardList = None
  <2>1. ~CardPage!UserStep
    BY <1>7 DEF CardPage!UserStep, CardPage!OnTypeChange, CardPage!OnNodeNameChange,
                CardPage!HandlePieClick, CardPage!TypeUid, CardPage!LeaveUid, CardPage!RefreshTable,
                CardPage!Page, CardPage!Idle, CardPage!MayFetch
  <2>2. ~CardPage!NetworkStep
    BY <1>7 DEF CardPage!NetworkStep, CardPage!OptionsAnswered, CardPage!ListAnswered
  <2>. QED
    BY <1>3, <1>4, <1>5, <1>7, <2>1, <2>2, CardListSteps DEF CardPage!WatchRouteType
<1>. QED
  BY <1>6, <1>7

(* What the inductive invariant says of the list of cards.                 *)
LEMMA CardsPromises ==
    ASSUME CardsInv, cardList # None
    PROVE  /\ CardPage!TypeOK
           /\ cardList.newest = "shown" /\ ~ cardList.typing =>
                \A c \in cardList.rows.ids :
                   /\ c \in CardHits[cardList.uid]
                   /\ cardList.type \in {None, TypeOf[c]}
                   /\ cardList.node \in {None, NodeOf[c]}
           /\ \A p \in {CardPage!Payload(cardList)} \union Range(cardList.flights) :
                 p.node # None /\ p.type # None => p.type \in CardPage!TypesOn(p.node)
           /\ cardList.rows.ids # {} => CardPage!PagedCount(cardList) > 0
<1>1. CardsKept(cardList) /\ cardList \in CardPage!States
  BY DEF CardsInv, CardsKept, GoodCards
<1>2. CardPage!TypeOK
  BY <1>1 DEF CardsKept, CardPage!TypeOK
<1>3. ASSUME cardList.newest = "shown", ~ cardList.typing, NEW c \in cardList.rows.ids
      PROVE  /\ c \in CardHits[cardList.uid]
             /\ cardList.type \in {None, TypeOf[c]}
             /\ cardList.node \in {None, NodeOf[c]}
  <2>1. c \in CardPage!MatchingCards(CardPage!Payload(cardList))
    BY <1>1, <1>3 DEF CardsKept, CardPage!AskedAsFiltered
  <2>2. cardList.node # None => cardList.manual
    BY <1>1 DEF CardsKept, GoodCards, CardPage!ScopeChosen
  <2>. QED
    BY <2>1, <2>2 DEF CardPage!MatchingCards, CardPage!Payload
<1>4. ASSUME NEW p \in {CardPage!Payload(cardList)} \union Range(cardList.flights),
             p.node # None, p.type # None
      PROVE  p.type \in CardPage!TypesOn(p.node)
  <2>1. CASE p = CardPage!Payload(cardList)
    BY <1>1, <1>4, <2>1 DEF CardsKept, GoodCards, CardPage!ScopeChosen, CardPage!Payload
  <2>2. CASE p \in Range(cardList.flights)
    BY <1>1, <1>4, <2>2 DEF CardsKept, GoodCards, CardPage!ScopeAsked, Range
  <2>. QED
    BY <2>1, <2>2
<1>5. cardList.rows.ids # {} => CardPage!PagedCount(cardList) > 0
  BY <1>1, CardsPaged DEF CardsKept, GoodCards
<1>. QED
  BY <1>2, <1>3, <1>4, <1>5

-----------------------------------------------------------------------------
(* The page of the workloads counts and turns pages as that of the cards.   *)
LEMMA SamePages ==
    /\ \A S : TaskPage!Cardinality(S) = Cardinality(S)
    /\ \A most : TaskPage!Pagination(most) = CardPage!Pagination(most)
    /\ \A total, size : TaskPage!MaxPage(total, size) = CardPage!MaxPage(total, size)
    /\ \A page, total : TaskPage!Clamped(page, total) = CardPage!Clamped(page, total)
<1>1. \A S : TaskPage!Cardinality(S) = Cardinality(S)
  BY DEF TaskPage!Cardinality, Cardinality, TaskPage!IsFiniteSet, IsFiniteSet
<1>2. \A most : TaskPage!Pagination(most) = CardPage!Pagination(most)
  BY DEF TaskPage!Pagination, CardPage!Pagination
<1>3. \A total, size : TaskPage!MaxPage(total, size) = CardPage!MaxPage(total, size)
  BY DEF TaskPage!MaxPage, CardPage!MaxPage
<1>4. \A page, total : TaskPage!Clamped(page, total) = CardPage!Clamped(page, total)
  BY <1>3, Zenon DEF TaskPage!Clamped, CardPage!Clamped
<1>. QED
  BY <1>1, <1>2, <1>3, <1>4

(* Workload list: what a step of the console does to it.                       *)
LEMMA TaskListSteps ==
    ASSUME [Next]_vars
    PROVE  \/ UNCHANGED taskList
           \/ TaskPage!Unmount
           \/ TaskPage!Mount
           \/ TaskPage!UserStep \/ TaskPage!NetworkStep
<1>2. CASE UNCHANGED vars
  BY <1>2 DEF vars
<1>3. ASSUME NEW page \in Pages, NEW of \in Carries[page], NEW followed, NEW clicked,
             MountPage(page, of, followed, clicked)
      PROVE  TaskPage!Unmount \/ TaskPage!Mount
  BY <1>3 DEF MountPage
<1>4. ASSUME NEW of \in Carries[route.page], NEW clicked, ReusePage(of, clicked)
      PROVE  UNCHANGED taskList
  BY <1>4 DEF ReusePage
<1>5. CASE Open
  BY <1>3, <1>5 DEF Open
<1>6. CASE Turn
  BY <1>4, <1>6 DEF Turn
<1>7. CASE Leave
  BY <1>7 DEF Leave
<1>8. CASE UsePage
  BY <1>8 DEF UsePage, OnCardList, OnNodeList, OnTaskList, OnCardDetail, OnNodeDetail,
              OnTaskDetail, OnOverview, OnRanks, Views
<1>9. CASE Translate
  BY <1>9 DEF Translate
<1>10. CASE ClickRank
  <2>1. {"card", "task"} \subseteq Pages
    BY DEF Pages, Carries
  <2>. QED
    BY <1>3, <1>10, <2>1 DEF ClickRank, OnRanks, Views
<1>11. CASE Echo
  BY <1>11 DEF Echo, OnCardDetail, OnNodeDetail, OnTaskDetail, OnOverview
<1>12. CASE Answer
  BY <1>12 DEF Answer, OnCardList, OnNodeList, OnTaskList, OnCardDetail, OnNodeDetail,
               OnTaskDetail, OnOverview, OnRanks, Views
<1>13. ASSUME NEW name \in ranks.clicked, LookupAnswered(name)
       PROVE  \/ UNCHANGED taskList
              \/ TaskPage!Unmount
  BY <1>13 DEF LookupAnswered, OnRanks, Views, MountPage, ReusePage
<1>. QED
  BY <1>2, <1>5, <1>6, <1>7, <1>8, <1>9, <1>10, <1>11, <1>12, <1>13 DEF Next, User, Network

-----------------------------------------------------------------------------
(* The list of workloads *)

(* The same of a node and a card.                                          *)
GoodTasks(l) ==
    /\ l \in TaskPage!States
    /\ TaskPage!ScopeChosen(l) /\ TaskPage!ScopeAsked(l)
    /\ TaskPage!OnAPage(l)

(* A page that has just asked.                                             *)
LEMMA TasksAsked ==
    ASSUME NEW l, GoodTasks(l), TaskPage!CanAsk(l)
    PROVE  LET asked == TaskPage!FetchTableData(l)
           IN  /\ GoodTasks(asked) /\ Len(asked.flights) <= MaxLists
               /\ TaskPage!LastAwaited(asked) /\ TaskPage!AskedAsFiltered(asked)
<1> DEFINE p == TaskPage!Payload(l)
           m == TaskPage!FetchTableData(l)
<1>1. l \in TaskPage!States
  BY DEF GoodTasks
<1>2. p \in TaskPage!Requests /\ (p.node # None /\ p.device # None => NodeOf[p.device] = p.node)
  BY <1>1 DEF TaskPage!Payload, TaskPage!States, TaskPage!Requests, GoodTasks, TaskPage!ScopeChosen
<1>3. /\ m.flights = Append(l.flights, p) /\ m.newest = "out" /\ m.loading = TRUE
      /\ m.name = l.name /\ m.node = l.node /\ m.device = l.device /\ m.status = l.status
      /\ m.manual = l.manual /\ m.typing = l.typing
      /\ m.rows = l.rows /\ m.page = l.page
  BY <1>1 DEF TaskPage!FetchTableData, TaskPage!Ask, TaskPage!States
<1>4. l.flights \in Seq(TaskPage!Requests)
  BY <1>1 DEF TaskPage!States
<1>5. m \in TaskPage!States
  <2>1. Append(l.flights, p) \in Seq(TaskPage!Requests)
    BY <1>2, <1>4, Sent
  <2>. QED
    BY <2>1, <1>1 DEF TaskPage!FetchTableData, TaskPage!Ask, TaskPage!States
<1>. HIDE DEF m, p
<1>6. Len(m.flights) <= MaxLists
  <2>1. Len(Append(l.flights, p)) = Len(l.flights) + 1 /\ Len(l.flights) \in Nat
    BY <1>2, <1>4, Sent
  <2>2. MaxLists \in Nat
    BY Bounds
  <2>. QED
    BY <1>3, <2>1, <2>2 DEF TaskPage!CanAsk
<1>7. TaskPage!ScopeChosen(m)
  BY <1>3 DEF GoodTasks, TaskPage!ScopeChosen
<1>8. TaskPage!ScopeAsked(m)
  <2>1. ASSUME NEW k \in DOMAIN m.flights
        PROVE  m.flights[k].node # None /\ m.flights[k].device # None
                  => NodeOf[m.flights[k].device] = m.flights[k].node
    BY <2>1, <1>2, <1>3, <1>4, Sent DEF GoodTasks, TaskPage!ScopeAsked
  <2>. QED
    BY <2>1 DEF TaskPage!ScopeAsked
<1>9. TaskPage!LastAwaited(m) /\ Last(m.flights) = p
  BY <1>2, <1>3, <1>4, Sent DEF TaskPage!LastAwaited
<1>10. TaskPage!OnAPage(m)
  BY <1>3 DEF GoodTasks, TaskPage!OnAPage
<1>11. TaskPage!Payload(m) = p
  BY <1>3 DEF p, TaskPage!Payload
<1>12. TaskPage!AskedAsFiltered(m)
  BY <1>3, <1>9, <1>11 DEF TaskPage!AskedAsFiltered, TaskPage!Last, Last
<1>. QED
  BY <1>5, <1>6, <1>7, <1>8, <1>9, <1>10, <1>12 DEF GoodTasks, m

(* setup: nothing is selected.                                             *)
LEMMA TasksFresh ==
    LET fresh == TaskPage!ResetToFirstPage(TaskPage!Fresh)
    IN  GoodTasks(fresh) /\ TaskPage!CanAsk(fresh)
<1>1. TaskPage!NoRequest \in TaskPage!Requests
  BY ConsoleAssumption DEF TaskPage!NoRequest, TaskPage!Requests
<1>2. TaskPage!FirstPage \in TaskPage!Pagination(TaskPage!Cardinality(Tasks))
  <2>1. TaskPage!FirstPage.size \in PageSizes
    BY Bounds DEF TaskPage!FirstPage
  <2>2. TaskPage!Cardinality(Tasks) \in Nat
    BY Bounds, SamePages
  <2>. QED
    BY <2>1, <2>2 DEF TaskPage!FirstPage, TaskPage!Pagination
<1>3. TaskPage!Fresh \in TaskPage!States
  <2>1. "" \in Texts
    BY ConsoleAssumption, Zenon
  <2>2. <<>> \in Seq(TaskPage!Requests)
    OBVIOUS
  <2>. QED
    BY <1>1, <1>2, <2>1, <2>2
       DEF TaskPage!Fresh, TaskPage!States, TaskPage!Blank
<1>4. PICK l : l = TaskPage!Fresh
  OBVIOUS
<1>5. /\ l.node = None /\ l.flights = <<>> /\ l.rows.ids = {}
      /\ l.page.total = 0 /\ l.page.current = 1 /\ l.page.size \in PageSizes
  BY <1>2, <1>4 DEF TaskPage!Fresh, TaskPage!Blank, TaskPage!FirstPage, TaskPage!Pagination
<1> DEFINE m == TaskPage!ResetToFirstPage(l)
<1>6. m = l
  BY <1>3, <1>4, <1>5 DEF TaskPage!ResetToFirstPage, TaskPage!States, TaskPage!Pagination
<1>7. TaskPage!OnAPage(l)
  <2>1. TaskPage!MaxPage(0, l.page.size) >= 1
    <3>1. l.page.size \in Nat \ {0}
      BY <1>5, Bounds
    <3>2. TaskPage!MaxPage(0, l.page.size) \in Nat \ {0}
      BY <3>1, PagesCover, SamePages
    <3>. QED
      BY <3>2
  <2>2. TaskPage!Cardinality({}) = 0
    BY SamePages, FS_EmptySet
  <2>. QED
    BY <1>5, <2>1, <2>2 DEF TaskPage!OnAPage
<1>8. 0 < MaxLists
  BY Bounds
<1>. QED
  BY <1>3, <1>4, <1>5, <1>6, <1>7, <1>8
     DEF GoodTasks, TaskPage!ScopeChosen, TaskPage!ScopeAsked, TaskPage!CanAsk

(* Setting filters keeps the page good, as long as the card goes with the  *)
(* node, and leaves the flights alone.                                     *)
LEMMA TasksFiltered ==
    ASSUME NEW l, GoodTasks(l)
    PROVE  /\ \A node \in Nodes \union {None} :
                LET m == TaskPage!ScopeToNode(l, node)
                IN  GoodTasks(m) /\ m.flights = l.flights
           /\ \A status \in TaskPage!TaskStatuses \union {None} :
                LET m == [l EXCEPT !.status = status]
                IN  GoodTasks(m) /\ m.flights = l.flights
           /\ \A device \in TaskPage!CardOptions(l) \union {None} :
                LET m == [l EXCEPT !.device = device]
                IN  GoodTasks(m) /\ m.flights = l.flights
           /\ \A typing \in BOOLEAN :
                LET m == [l EXCEPT !.typing = typing]
                IN  GoodTasks(m) /\ m.flights = l.flights
<1>1. l \in TaskPage!States
  BY DEF GoodTasks
<1>2. ASSUME NEW node \in Nodes \union {None}, NEW m, m = TaskPage!ScopeToNode(l, node)
      PROVE  GoodTasks(m) /\ m.flights = l.flights
  <2>1. PICK device : device = IF /\ node # None /\ l.device # None
                                  /\ ~ (l.device \in l.cards /\ NodeOf[l.device] = node)
                               THEN None ELSE l.device
    OBVIOUS
  <2>2. /\ device \in Cards \union {None}
        /\ node # None /\ device # None => NodeOf[device] = node
    BY <1>1, <2>1 DEF TaskPage!States
  <2>3. m = [l EXCEPT !.node = node, !.manual = TRUE, !.device = device]
    BY <1>1, <1>2, <2>1 DEF TaskPage!ScopeToNode, TaskPage!States
  <2>4. /\ m \in TaskPage!States /\ m.node = node /\ m.device = device /\ m.manual
        /\ m.flights = l.flights /\ m.rows = l.rows /\ m.page = l.page
    BY <1>1, <2>2, <2>3 DEF TaskPage!States
  <2>. QED
    BY <2>2, <2>4 DEF GoodTasks, TaskPage!ScopeChosen, TaskPage!ScopeAsked, TaskPage!OnAPage
<1>3. ASSUME NEW device \in TaskPage!CardOptions(l) \union {None}, NEW m,
             m = [l EXCEPT !.device = device]
      PROVE  GoodTasks(m) /\ m.flights = l.flights
  <2>1. /\ device \in Cards \union {None}
        /\ l.node # None /\ device # None => NodeOf[device] = l.node
    BY <1>1 DEF TaskPage!CardOptions, TaskPage!States
  <2>2. /\ m \in TaskPage!States /\ m.node = l.node /\ m.device = device /\ m.manual = l.manual
        /\ m.flights = l.flights /\ m.rows = l.rows /\ m.page = l.page
    BY <1>1, <1>3, <2>1 DEF TaskPage!States
  <2>. QED
    BY <2>1, <2>2 DEF GoodTasks, TaskPage!ScopeChosen, TaskPage!ScopeAsked, TaskPage!OnAPage
<1>4. ASSUME NEW m,
             \/ \E status \in TaskPage!TaskStatuses \union {None} : m = [l EXCEPT !.status = status]
             \/ \E typing \in BOOLEAN : m = [l EXCEPT !.typing = typing]
      PROVE  GoodTasks(m) /\ m.flights = l.flights
  <2>1. /\ m \in TaskPage!States /\ m.node = l.node /\ m.device = l.device /\ m.manual = l.manual
        /\ m.flights = l.flights /\ m.rows = l.rows /\ m.page = l.page
    BY <1>1, <1>4 DEF TaskPage!States
  <2>. QED
    BY <2>1 DEF GoodTasks, TaskPage!ScopeChosen, TaskPage!ScopeAsked, TaskPage!OnAPage
<1>. QED
  BY <1>2, <1>3, <1>4

(* Back on the first page the filters are applied.                         *)
LEMMA TasksApplied ==
    ASSUME NEW l, GoodTasks(l), TaskPage!CanAsk(l)
    PROVE  LET asked == TaskPage!ApplyFilters(l)
           IN  /\ GoodTasks(asked) /\ Len(asked.flights) <= MaxLists
               /\ TaskPage!LastAwaited(asked) /\ TaskPage!AskedAsFiltered(asked)
<1>1. l \in TaskPage!States
  BY DEF GoodTasks
<1>2. PICK m : m = TaskPage!ResetToFirstPage(l)
  OBVIOUS
<1>3. /\ m \in TaskPage!States /\ m.device = l.device /\ m.status = l.status
      /\ m.node = l.node /\ m.manual = l.manual
      /\ m.flights = l.flights /\ m.rows = l.rows /\ m.page.total = l.page.total
      /\ m.page.size = l.page.size /\ m.page.current = 1
  BY <1>1, <1>2 DEF TaskPage!ResetToFirstPage, TaskPage!States, TaskPage!Pagination
<1>4. 1 <= TaskPage!MaxPage(m.page.total, m.page.size)
  <2>1. m.page.size \in Nat \ {0} /\ m.page.total \in Nat
    <3>1. m.page \in TaskPage!Pagination(TaskPage!Cardinality(Tasks))
      BY <1>3 DEF TaskPage!States
    <3>. QED
      BY <3>1, PageOf, SamePages, Bounds
  <2>2. TaskPage!MaxPage(m.page.total, m.page.size) \in Nat \ {0}
    BY <2>1, PagesCover, SamePages
  <2>. QED
    BY <2>2
<1>5. GoodTasks(m) /\ TaskPage!CanAsk(m)
  BY <1>3, <1>4 DEF GoodTasks, TaskPage!ScopeChosen, TaskPage!ScopeAsked, TaskPage!OnAPage,
     TaskPage!CanAsk
<1>. QED
  BY <1>2, <1>5, TasksAsked DEF TaskPage!ApplyFilters

(* Rows fill a page that exists.                                           *)
LEMMA TasksPaged ==
    ASSUME NEW l, l \in TaskPage!States, TaskPage!OnAPage(l), l.rows.ids # {}
    PROVE  TaskPage!PagedCount(l) > 0
<1> DEFINE total == TaskPage!Cardinality(l.rows.ids)
           start == (l.page.current - 1) * l.page.size
<1>1. l.page.size \in Nat \ {0} /\ l.page.current \in Nat \ {0} /\ l.rows.ids \in SUBSET Tasks
  <2>1. l.page \in TaskPage!Pagination(TaskPage!Cardinality(Tasks)) /\ l.rows.ids \in SUBSET Tasks
    BY DEF TaskPage!States
  <2>. QED
    BY <2>1, PageOf, SamePages, Bounds
<1>2. total \in Nat /\ total > 0
  <2>1. IsFiniteSet(l.rows.ids)
    <3>1. IsFiniteSet(Tasks)
      BY ConsoleAssumption, Zenon
    <3>. QED
      BY <1>1, <3>1, FS_Subset
  <2>. QED
    BY <2>1, FS_EmptySet, FS_CardinalityType, SamePages
<1>3. l.page.current <= TaskPage!MaxPage(total, l.page.size)
  BY DEF TaskPage!OnAPage
<1>. HIDE DEF total
<1>4. start < total /\ start \in Nat
  <2>1. PICK current \in Nat \ {0}, size \in Nat \ {0} : current = l.page.current /\ size = l.page.size
    BY <1>1
  <2>2. (current - 1) * size < total
    BY <1>2, <1>3, <2>1, PagesCover, SamePages
  <2>3. (current - 1) * size \in Nat
    OBVIOUS
  <2>. QED
    BY <2>1, <2>2, <2>3
<1>. HIDE DEF start
<1>. QED
  BY <1>1, <1>2, <1>4 DEF TaskPage!PagedCount, total, start

(* The page the user turns to exists.                                      *)
LEMMA TasksTurned ==
    ASSUME NEW l, GoodTasks(l), NEW m,
           \/ \E current \in 1 .. Cardinality(Tasks) :
                 TaskPage!ChangePage(l, current) /\ m = TaskPage!TurnTo(l, current)
           \/ \E size \in PageSizes : m = TaskPage!Resize(l, size)
    PROVE  /\ GoodTasks(m) /\ m.flights = l.flights /\ m.newest = l.newest
           /\ m.rows = l.rows /\ m.typing = l.typing /\ TaskPage!Payload(m) = TaskPage!Payload(l)
<1>1. l \in TaskPage!States /\ l.page \in TaskPage!Pagination(TaskPage!Cardinality(Tasks))
  BY DEF GoodTasks, TaskPage!States
<1>2. TaskPage!Cardinality(Tasks) \in Nat
  BY Bounds, SamePages
<1>3. l.page.size \in Nat \ {0} /\ l.page.total \in Nat /\ l.page.current \in Nat \ {0}
  BY <1>1, PageOf, SamePages, Bounds
<1>4. ASSUME NEW page, page \in TaskPage!Pagination(TaskPage!Cardinality(Tasks)),
             page.total = l.page.total, page.current <= TaskPage!MaxPage(page.total, page.size),
             m = [l EXCEPT !.page = page]
      PROVE  /\ GoodTasks(m) /\ m.flights = l.flights /\ m.newest = l.newest
             /\ m.rows = l.rows /\ m.typing = l.typing /\ TaskPage!Payload(m) = TaskPage!Payload(l)
  <2>1. /\ m \in TaskPage!States /\ m.name = l.name /\ m.device = l.device
        /\ m.status = l.status /\ m.node = l.node /\ m.manual = l.manual
        /\ m.flights = l.flights /\ m.newest = l.newest /\ m.rows = l.rows /\ m.typing = l.typing
        /\ m.page = page
    BY <1>1, <1>4 DEF TaskPage!States
  <2>. QED
    BY <1>4, <2>1
       DEF GoodTasks, TaskPage!ScopeChosen, TaskPage!ScopeAsked, TaskPage!OnAPage, TaskPage!Payload
<1>5. ASSUME NEW current \in 1 .. Cardinality(Tasks), TaskPage!ChangePage(l, current),
             m = TaskPage!TurnTo(l, current)
      PROVE  \E page : /\ page \in TaskPage!Pagination(TaskPage!Cardinality(Tasks))
                       /\ page.total = l.page.total
                       /\ page.current <= TaskPage!MaxPage(page.total, page.size)
                       /\ m = [l EXCEPT !.page = page]
  <2> DEFINE page == [l.page EXCEPT !.current = current]
  <2>1. current \in Nat \ {0}
    BY Bounds
  <2>2. /\ page \in TaskPage!Pagination(TaskPage!Cardinality(Tasks)) /\ page.total = l.page.total
        /\ page.current = current /\ page.size = l.page.size
    BY <1>1, <2>1 DEF TaskPage!Pagination
  <2>3. current <= TaskPage!MaxPage(l.page.total, l.page.size)
    <3>1. TaskPage!MaxPage(l.page.total, l.page.size) \in Nat
      BY <1>3, PagesCover, SamePages
    <3>. QED
      BY <1>5, <3>1 DEF TaskPage!ChangePage
  <2>4. m = [l EXCEPT !.page = page]
    BY <1>1, <1>5 DEF TaskPage!TurnTo
  <2>. QED
    BY <2>2, <2>3, <2>4
<1>6. ASSUME NEW size \in PageSizes, m = TaskPage!Resize(l, size)
      PROVE  \E page : /\ page \in TaskPage!Pagination(TaskPage!Cardinality(Tasks))
                       /\ page.total = l.page.total
                       /\ page.current <= TaskPage!MaxPage(page.total, page.size)
                       /\ m = [l EXCEPT !.page = page]
  <2>1. PICK page : page = [l.page EXCEPT !.size = size]
    OBVIOUS
  <2>2. /\ page \in TaskPage!Pagination(TaskPage!Cardinality(Tasks))
        /\ l.page.total \in 0 .. TaskPage!Cardinality(Tasks)
    BY <1>1, <2>1 DEF TaskPage!Pagination
  <2>3. m = [l EXCEPT !.page = TaskPage!Clamped(page, l.page.total)]
    BY <1>6, <2>1 DEF TaskPage!Resize
  <2>4. PICK fit : fit = TaskPage!Clamped(page, l.page.total)
    OBVIOUS
  <2>5. /\ fit \in TaskPage!Pagination(TaskPage!Cardinality(Tasks)) /\ fit.total = l.page.total
        /\ fit.current <= TaskPage!MaxPage(fit.total, fit.size)
    BY <1>2, <2>2, <2>4, ClampedPage, SamePages
  <2>. QED
    BY <2>3, <2>4, <2>5
<1>. QED
  BY <1>4, <1>5, <1>6

(* What holds of the list of workloads at every step.                      *)
TasksKept(l) ==
    /\ GoodTasks(l) /\ Len(l.flights) <= MaxLists
    /\ TaskPage!LastAwaited(l) /\ TaskPage!AskedAsFiltered(l)

(* A text being typed is not asked for yet.                                *)
LEMMA TasksTyped ==
    ASSUME NEW l, TasksKept(l), NEW text \in Texts
    PROVE  TasksKept([l EXCEPT !.name = text, !.typing = TRUE])
<1>1. l \in TaskPage!States
  BY DEF TasksKept, GoodTasks
<1>2. PICK m : m = [l EXCEPT !.name = text, !.typing = TRUE]
  OBVIOUS
<1>3. /\ m \in TaskPage!States /\ m.device = l.device /\ m.status = l.status
      /\ m.node = l.node /\ m.manual = l.manual
      /\ m.flights = l.flights /\ m.newest = l.newest /\ m.rows = l.rows /\ m.page = l.page
      /\ m.typing
  BY <1>1, <1>2 DEF TaskPage!States
<1>4. GoodTasks(m)
  BY <1>3 DEF TasksKept, GoodTasks, TaskPage!ScopeChosen, TaskPage!ScopeAsked, TaskPage!OnAPage
<1>. QED
  BY <1>2, <1>3, <1>4 DEF TasksKept, TaskPage!LastAwaited, TaskPage!AskedAsFiltered

(* The options come in.                                                    *)
LEMMA TasksOffered ==
    ASSUME NEW l, TasksKept(l), NEW nodes \in SUBSET Nodes, NEW cards \in SUBSET Cards
    PROVE  TasksKept([l EXCEPT !.options = "in", !.nodes = nodes, !.cards = cards])
<1>1. l \in TaskPage!States
  BY DEF TasksKept, GoodTasks
<1>2. PICK m : m = [l EXCEPT !.options = "in", !.nodes = nodes, !.cards = cards]
  OBVIOUS
<1>3. /\ m \in TaskPage!States /\ m.name = l.name /\ m.device = l.device
      /\ m.status = l.status /\ m.node = l.node
      /\ m.manual = l.manual /\ m.flights = l.flights /\ m.newest = l.newest
      /\ m.rows = l.rows /\ m.page = l.page /\ m.typing = l.typing
  BY <1>1, <1>2 DEF TaskPage!States
<1>4. GoodTasks(m)
  BY <1>3 DEF TasksKept, GoodTasks, TaskPage!ScopeChosen, TaskPage!ScopeAsked, TaskPage!OnAPage
<1>5. TaskPage!Payload(m) = TaskPage!Payload(l)
  BY <1>3 DEF TaskPage!Payload
<1>. QED
  BY <1>2, <1>3, <1>4, <1>5 DEF TasksKept, TaskPage!LastAwaited, TaskPage!AskedAsFiltered

(* An answer, and the rows left as they are or replaced by the answer's:   *)
(* what is left in flight keeps its scope and its last request.            *)
LEMMA TasksLanded ==
    ASSUME NEW l, TasksKept(l), NEW i \in DOMAIN l.flights
    PROVE  LET left == TaskPage!RemoveAt(l.flights, i)
           IN  /\ left \in Seq(TaskPage!Requests) /\ Len(left) <= MaxLists
               /\ \A k \in DOMAIN left :
                     left[k].node # None /\ left[k].device # None
                        => NodeOf[left[k].device] = left[k].node
               /\ i # Len(l.flights) =>
                     left # <<>> /\ TaskPage!Last(left) = TaskPage!Last(l.flights)
<1>1. l.flights \in Seq(TaskPage!Requests) /\ Len(l.flights) \in Nat /\ Len(l.flights) <= MaxLists
  BY DEF TasksKept, GoodTasks, TaskPage!States
<1>2. PICK left : left = RemoveAt(l.flights, i)
  OBVIOUS
<1>3. /\ left \in Seq(TaskPage!Requests) /\ Len(left) = Len(l.flights) - 1
      /\ \A k \in DOMAIN left : \E j \in DOMAIN l.flights : left[k] = l.flights[j]
      /\ i # Len(l.flights) => left # <<>> /\ Last(left) = Last(l.flights)
  BY <1>1, <1>2, Landed
<1>4. TaskPage!RemoveAt(l.flights, i) = left
  BY <1>2 DEF RemoveAt, TaskPage!RemoveAt
<1>5. Len(left) <= MaxLists
  BY <1>1, <1>3, Bounds
<1>6. TaskPage!ScopeAsked(l)
  BY DEF TasksKept, GoodTasks
<1>7. ASSUME NEW k \in DOMAIN left
      PROVE  left[k].node # None /\ left[k].device # None
                => NodeOf[left[k].device] = left[k].node
  <2>1. PICK j \in DOMAIN l.flights : left[k] = l.flights[j]
    BY <1>3, <1>7
  <2>. QED
    BY <2>1, <1>6 DEF TaskPage!ScopeAsked
<1>8. \A s : TaskPage!Last(s) = Last(s)
  BY DEF Last, TaskPage!Last
<1>. QED
  BY <1>3, <1>4, <1>5, <1>7, <1>8

(* A failed call changes no row.                                           *)
LEMMA TasksMissed ==
    ASSUME NEW l, TasksKept(l), NEW i \in DOMAIN l.flights
    PROVE  TasksKept(TaskPage!Miss(l, i))
<1>1. l \in TaskPage!States
  BY DEF TasksKept, GoodTasks
<1>2. PICK left : left = TaskPage!RemoveAt(l.flights, i)
  OBVIOUS
<1>3. /\ left \in Seq(TaskPage!Requests) /\ Len(left) <= MaxLists
      /\ \A k \in DOMAIN left :
            left[k].node # None /\ left[k].device # None
               => NodeOf[left[k].device] = left[k].node
      /\ i # Len(l.flights) =>
            left # <<>> /\ TaskPage!Last(left) = TaskPage!Last(l.flights)
  BY <1>2, TasksLanded
<1>4. PICK newest : newest = IF TaskPage!IsNewest(l, i) THEN "lost" ELSE l.newest
  OBVIOUS
<1>5. PICK m : m = [l EXCEPT !.loading = FALSE, !.flights = left, !.newest = newest]
  OBVIOUS
<1>6. m = TaskPage!Miss(l, i)
  BY <1>1, <1>2, <1>4, <1>5 DEF TaskPage!Miss, TaskPage!States
<1>7. newest \in {"out", "shown", "lost"}
  BY <1>1, <1>4 DEF TaskPage!States
<1>8. /\ m \in TaskPage!States /\ m.name = l.name /\ m.device = l.device
      /\ m.status = l.status /\ m.node = l.node
      /\ m.manual = l.manual /\ m.flights = left /\ m.newest = newest
      /\ m.rows = l.rows /\ m.page = l.page /\ m.typing = l.typing
  BY <1>1, <1>3, <1>5, <1>7 DEF TaskPage!States
<1>9. GoodTasks(m)
  BY <1>3, <1>8 DEF TasksKept, GoodTasks, TaskPage!ScopeChosen, TaskPage!ScopeAsked,
     TaskPage!OnAPage
<1>10. TaskPage!Payload(m) = TaskPage!Payload(l)
  BY <1>8 DEF TaskPage!Payload
<1>11. newest = "out" => l.newest = "out" /\ i # Len(l.flights)
  BY <1>4 DEF TaskPage!IsNewest
<1>12. newest = "shown" => l.newest = "shown"
  BY <1>4
<1>. QED
  BY <1>3, <1>6, <1>8, <1>9, <1>10, <1>11, <1>12
     DEF TasksKept, TaskPage!LastAwaited, TaskPage!AskedAsFiltered

(* The list comes in, and the page is cut down to fit it.                  *)
LEMMA TasksShown ==
    ASSUME NEW l, TasksKept(l), NEW i \in DOMAIN l.flights,
           NEW ids \in TaskPage!TaskAnswers(l.flights[i])
    PROVE  TasksKept(TaskPage!SyncTotalAndClamp(TaskPage!Show(l, i, ids)))
<1>1. l \in TaskPage!States /\ l.page \in TaskPage!Pagination(TaskPage!Cardinality(Tasks))
  BY DEF TasksKept, GoodTasks, TaskPage!States
<1>2. PICK left : left = TaskPage!RemoveAt(l.flights, i)
  OBVIOUS
<1>3. /\ left \in Seq(TaskPage!Requests) /\ Len(left) <= MaxLists
      /\ \A k \in DOMAIN left :
            left[k].node # None /\ left[k].device # None
               => NodeOf[left[k].device] = left[k].node
      /\ i # Len(l.flights) =>
            left # <<>> /\ TaskPage!Last(left) = TaskPage!Last(l.flights)
  BY <1>2, TasksLanded
<1>4. l.flights[i] \in TaskPage!Requests
  BY <1>1 DEF TaskPage!States
<1>5. ids \subseteq TaskPage!MatchingTasks(l.flights[i]) /\ ids \in SUBSET Tasks
  <2>1. \A text \in Texts : TaskHits[text] \subseteq Tasks
    BY ConsoleAssumption, Zenon
  <2>2. l.flights[i].name \in Texts
    BY <1>4 DEF TaskPage!Requests
  <2>3. TaskPage!MatchingTasks(l.flights[i]) \subseteq Tasks
    BY <2>1, <2>2 DEF TaskPage!MatchingTasks
  <2>. QED
    BY <2>3 DEF TaskPage!TaskAnswers
<1>6. PICK rows : rows = [asked |-> l.flights[i], ids |-> ids]
  OBVIOUS
<1>7. PICK newest : newest = IF TaskPage!IsNewest(l, i) THEN "shown"
                             ELSE IF l.newest = "shown" THEN "lost" ELSE l.newest
  OBVIOUS
<1>8. PICK page : page = TaskPage!Clamped(l.page, TaskPage!Cardinality(ids))
  OBVIOUS
<1>9. /\ page \in TaskPage!Pagination(TaskPage!Cardinality(Tasks))
      /\ page.total = TaskPage!Cardinality(ids)
      /\ page.current <= TaskPage!MaxPage(page.total, page.size)
  <2>1. TaskPage!Cardinality(ids) \in 0 .. TaskPage!Cardinality(Tasks)
    BY <1>5, Bounds, SamePages
  <2>. QED
    BY <1>1, <1>8, <2>1, ClampedPage, SamePages, Bounds
<1>10. PICK s : s = [l EXCEPT !.rows = rows, !.loading = FALSE, !.flights = left, !.newest = newest]
  OBVIOUS
<1>11. s = TaskPage!Show(l, i, ids)
  BY <1>1, <1>2, <1>6, <1>7, <1>10 DEF TaskPage!Show, TaskPage!States
<1>12. PICK m : m = [s EXCEPT !.page = page]
  OBVIOUS
<1>13. newest \in {"out", "shown", "lost"}
  BY <1>1, <1>7 DEF TaskPage!States
<1>14. rows \in [asked : TaskPage!Requests, ids : SUBSET Tasks] /\ rows.ids = ids
  BY <1>4, <1>5, <1>6
<1>15. /\ s \in TaskPage!States /\ s.name = l.name /\ s.device = l.device
       /\ s.status = l.status /\ s.node = l.node
       /\ s.manual = l.manual /\ s.flights = left /\ s.newest = newest
       /\ s.rows = rows /\ s.page = l.page /\ s.typing = l.typing
  BY <1>1, <1>3, <1>10, <1>13, <1>14 DEF TaskPage!States
<1>16. m = TaskPage!SyncTotalAndClamp(TaskPage!Show(l, i, ids))
  BY <1>8, <1>11, <1>12, <1>14, <1>15 DEF TaskPage!SyncTotalAndClamp
<1>17. /\ m \in TaskPage!States /\ m.name = l.name /\ m.device = l.device
       /\ m.status = l.status /\ m.node = l.node
       /\ m.manual = l.manual /\ m.flights = left /\ m.newest = newest
       /\ m.rows = rows /\ m.page = page /\ m.typing = l.typing
  BY <1>9, <1>12, <1>15 DEF TaskPage!States
<1>18. GoodTasks(m)
  BY <1>3, <1>9, <1>14, <1>17 DEF TasksKept, GoodTasks, TaskPage!ScopeChosen,
     TaskPage!ScopeAsked, TaskPage!OnAPage
<1>19. TaskPage!Payload(m) = TaskPage!Payload(l)
  BY <1>17 DEF TaskPage!Payload
<1>20. newest = "out" => l.newest = "out" /\ i # Len(l.flights)
  BY <1>7 DEF TaskPage!IsNewest
<1>21. newest = "shown" => l.newest = "out" /\ l.flights[i] = TaskPage!Last(l.flights)
  BY <1>7 DEF TaskPage!IsNewest, TaskPage!Last
<1>22. TaskPage!LastAwaited(m)
  BY <1>3, <1>17, <1>20 DEF TaskPage!LastAwaited
<1>23. TaskPage!AskedAsFiltered(m)
  BY <1>3, <1>5, <1>14, <1>17, <1>19, <1>20, <1>21 DEF TasksKept, TaskPage!AskedAsFiltered
<1>. QED
  BY <1>3, <1>16, <1>17, <1>18, <1>22, <1>23 DEF TasksKept

(* The list of workloads' part of the inductive invariant.                 *)
TasksInv == taskList # None => TasksKept(taskList)

(* The list of workloads keeps it.                                             *)
LEMMA TasksStep ==
    ASSUME TasksInv, [Next]_vars
    PROVE  TasksInv'
<1>1. SUFFICES ASSUME taskList' # None
               PROVE  TasksKept(taskList')
  BY DEF TasksInv
<1>2. ASSUME NEW l, GoodTasks(l), TaskPage!CanAsk(l), NEW m, m = TaskPage!ApplyFilters(l)
      PROVE  TasksKept(m)
  BY <1>2, TasksApplied DEF TasksKept
<1>3. CASE UNCHANGED taskList
  BY <1>1, <1>3 DEF TasksInv
<1>4. CASE TaskPage!Unmount
  BY <1>1, <1>4 DEF TaskPage!Unmount
<1>5. CASE TaskPage!Mount
  <2>1. PICK l : l = TaskPage!ResetToFirstPage(TaskPage!Fresh)
    OBVIOUS
  <2>2. GoodTasks(l) /\ TaskPage!CanAsk(l)
    BY <2>1, TasksFresh
  <2>3. taskList' = TaskPage!FetchTableData(l)
    BY <1>5, <2>1 DEF TaskPage!Mount, TaskPage!ApplyFilters
  <2>. QED
    BY <2>2, <2>3, TasksAsked DEF TasksKept
<1>6. CASE taskList # None
  <2>1. TasksKept(taskList) /\ GoodTasks(taskList)
    BY <1>6 DEF TasksInv, TasksKept
  <2>2. ASSUME NEW l, GoodTasks(l), l.flights = taskList.flights, TaskPage!CanAsk(taskList),
               taskList' = TaskPage!ApplyFilters(l)
        PROVE  TasksKept(taskList')
    BY <1>2, <2>2 DEF TaskPage!CanAsk
  <2>3. ASSUME NEW node \in Nodes \union {None}, TaskPage!OnNodeNameChange(node)
        PROVE  TasksKept(taskList')
    <3>1. PICK l : l = TaskPage!ScopeToNode(taskList, node)
      OBVIOUS
    <3>2. GoodTasks(l) /\ l.flights = taskList.flights
      BY <2>1, <3>1, TasksFiltered
    <3>. QED
      BY <2>2, <2>3, <3>1, <3>2 DEF TaskPage!OnNodeNameChange, TaskPage!MayFetch
  <2>4. ASSUME NEW status \in TaskPage!TaskStatuses \union {None}, TaskPage!OnStatusChange(status)
        PROVE  TasksKept(taskList')
    <3>1. PICK l : l = [taskList EXCEPT !.status = status]
      OBVIOUS
    <3>2. GoodTasks(l) /\ l.flights = taskList.flights
      BY <2>1, <3>1, TasksFiltered
    <3>. QED
      BY <2>2, <2>4, <3>1, <3>2 DEF TaskPage!OnStatusChange, TaskPage!MayFetch
  <2>5. ASSUME NEW device, TaskPage!OnDeviceChange(device)
        PROVE  TasksKept(taskList')
    <3>1. PICK l : l = [taskList EXCEPT !.device = device]
      OBVIOUS
    <3>2. device \in TaskPage!CardOptions(taskList) \union {None}
      BY <2>5 DEF TaskPage!OnDeviceChange
    <3>3. GoodTasks(l) /\ l.flights = taskList.flights
      BY <2>1, <3>1, <3>2, TasksFiltered
    <3>. QED
      BY <2>2, <2>5, <3>1, <3>3 DEF TaskPage!OnDeviceChange, TaskPage!MayFetch
  <2>7. ASSUME NEW text \in Texts, TaskPage!TypeName(text)
        PROVE  TasksKept(taskList')
    BY <2>1, <2>7, TasksTyped DEF TaskPage!TypeName
  <2>8. CASE TaskPage!LeaveName
    <3>1. PICK typing \in BOOLEAN :
            taskList' = TaskPage!ApplyFilters([taskList EXCEPT !.typing = typing])
      BY <2>8 DEF TaskPage!LeaveName
    <3>2. PICK l : l = [taskList EXCEPT !.typing = typing]
      OBVIOUS
    <3>3. GoodTasks(l) /\ l.flights = taskList.flights
      BY <2>1, <3>2, TasksFiltered
    <3>. QED
      BY <1>2, <2>8, <3>1, <3>2, <3>3 DEF TaskPage!LeaveName, TaskPage!MayFetch, TaskPage!CanAsk
  <2>9. CASE TaskPage!RefreshTable
    BY <2>1, <2>9, TasksAsked DEF TasksKept, TaskPage!RefreshTable, TaskPage!MayFetch
  <2>10. CASE TaskPage!Page
    <3>1. \/ \E current \in 1 .. TaskPage!Cardinality(Tasks) :
                TaskPage!ChangePage(taskList, current) /\ taskList' = TaskPage!TurnTo(taskList, current)
          \/ \E size \in PageSizes : taskList' = TaskPage!Resize(taskList, size)
      BY <2>10 DEF TaskPage!Page
    <3>2. TaskPage!Cardinality(Tasks) = Cardinality(Tasks)
      BY SamePages
    <3>3. PICK m : m = taskList'
      OBVIOUS
    <3>4. /\ GoodTasks(m) /\ m.flights = taskList.flights /\ m.newest = taskList.newest
          /\ m.rows = taskList.rows /\ m.typing = taskList.typing
          /\ TaskPage!Payload(m) = TaskPage!Payload(taskList)
      BY <2>1, <3>1, <3>2, <3>3, TasksTurned
    <3>. QED
      BY <2>1, <3>3, <3>4 DEF TasksKept, TaskPage!LastAwaited, TaskPage!AskedAsFiltered
  <2>11. CASE TaskPage!UserStep
    BY <2>3, <2>4, <2>5, <2>7, <2>8, <2>9, <2>10, <2>11
       DEF TaskPage!UserStep, TaskPage!OfferedStatuses
  <2>12. CASE TaskPage!NetworkStep
    <3>1. ASSUME NEW ok, TaskPage!OptionsAnswered(ok)
          PROVE  TasksKept(taskList')
      <4>1. PICK nodes, cards : /\ nodes = IF ok THEN Nodes ELSE {}
                                /\ cards = IF ok THEN Cards ELSE {}
        OBVIOUS
      <4>2. nodes \in SUBSET Nodes /\ cards \in SUBSET Cards
        BY <4>1
      <4>3. taskList' = [taskList EXCEPT !.options = "in", !.nodes = nodes, !.cards = cards]
        BY <3>1, <4>1 DEF TaskPage!OptionsAnswered
      <4>. QED
        BY <2>1, <4>2, <4>3, TasksOffered
    <3>2. ASSUME NEW i, NEW ok, TaskPage!ListAnswered(i, ok)
          PROVE  TasksKept(taskList')
      BY <2>1, <3>2, TasksShown, TasksMissed DEF TaskPage!ListAnswered
    <3>. QED
      BY <2>12, <3>1, <3>2 DEF TaskPage!NetworkStep
  <2>. QED
    BY <1>3, <1>4, <1>5, <2>11, <2>12, TaskListSteps
<1>7. CASE taskList = None
  <2>1. ~TaskPage!UserStep
    BY <1>7 DEF TaskPage!UserStep, TaskPage!OnStatusChange, TaskPage!OnNodeNameChange,
                TaskPage!OnDeviceChange, TaskPage!TypeName, TaskPage!LeaveName, TaskPage!RefreshTable,
                TaskPage!Page, TaskPage!Idle, TaskPage!MayFetch
  <2>2. ~TaskPage!NetworkStep
    BY <1>7 DEF TaskPage!NetworkStep, TaskPage!OptionsAnswered, TaskPage!ListAnswered
  <2>. QED
    BY <1>3, <1>4, <1>5, <1>7, <2>1, <2>2, TaskListSteps
<1>. QED
  BY <1>6, <1>7

(* What the inductive invariant says of the list of workloads.             *)
LEMMA TasksPromises ==
    ASSUME TasksInv, taskList # None
    PROVE  /\ TaskPage!TypeOK
           /\ taskList.newest = "shown" /\ ~ taskList.typing =>
                \A t \in taskList.rows.ids :
                   /\ t \in TaskHits[taskList.name]
                   /\ taskList.status \in {None, StatusOf[t]}
                   /\ taskList.device \in CardsOf[t] \union {None}
                   /\ taskList.node \in {NodeOf[c] : c \in CardsOf[t]} \union {None}
           /\ \A p \in {TaskPage!Payload(taskList)} \union Range(taskList.flights) :
                 p.node # None /\ p.device # None => NodeOf[p.device] = p.node
           /\ taskList.rows.ids # {} => TaskPage!PagedCount(taskList) > 0
<1>1. TasksKept(taskList) /\ taskList \in TaskPage!States
  BY DEF TasksInv, TasksKept, GoodTasks
<1>2. TaskPage!TypeOK
  BY <1>1 DEF TasksKept, TaskPage!TypeOK
<1>3. ASSUME taskList.newest = "shown", ~ taskList.typing, NEW t \in taskList.rows.ids
      PROVE  /\ t \in TaskHits[taskList.name]
             /\ taskList.status \in {None, StatusOf[t]}
             /\ taskList.device \in CardsOf[t] \union {None}
             /\ taskList.node \in {NodeOf[c] : c \in CardsOf[t]} \union {None}
  <2>1. t \in TaskPage!MatchingTasks(TaskPage!Payload(taskList))
    BY <1>1, <1>3 DEF TasksKept, TaskPage!AskedAsFiltered
  <2>2. taskList.node # None => taskList.manual
    BY <1>1 DEF TasksKept, GoodTasks, TaskPage!ScopeChosen
  <2>. QED
    BY <2>1, <2>2 DEF TaskPage!MatchingTasks, TaskPage!Payload
<1>4. ASSUME NEW p \in {TaskPage!Payload(taskList)} \union Range(taskList.flights),
             p.node # None, p.device # None
      PROVE  NodeOf[p.device] = p.node
  <2>1. CASE p = TaskPage!Payload(taskList)
    BY <1>1, <1>4, <2>1 DEF TasksKept, GoodTasks, TaskPage!ScopeChosen, TaskPage!Payload
  <2>2. CASE p \in Range(taskList.flights)
    BY <1>1, <1>4, <2>2 DEF TasksKept, GoodTasks, TaskPage!ScopeAsked, Range
  <2>. QED
    BY <2>1, <2>2
<1>5. taskList.rows.ids # {} => TaskPage!PagedCount(taskList) > 0
  BY <1>1, TasksPaged DEF TasksKept, GoodTasks
<1>. QED
  BY <1>2, <1>3, <1>4, <1>5

-----------------------------------------------------------------------------
(* Node list: what a step of the console does to it.                       *)
LEMMA NodeListSteps ==
    ASSUME [Next]_vars
    PROVE  \/ UNCHANGED nodeList
           \/ NodePage!Unmount
           \/ \E status \in NodePage!Statuses \union {None} :
                 NodePage!Mount(status) \/ NodePage!WatchRouteStatus(status)
           \/ NodePage!Translate \/ NodePage!UserStep \/ NodePage!NetworkStep
<1>1. \A of : of \in Carries["nodes"] => of \in NodePage!Statuses \union {None}
  BY DEF Carries, NodePage!Statuses
<1>2. CASE UNCHANGED vars
  BY <1>2 DEF vars
<1>3. ASSUME NEW page \in Pages, NEW of \in Carries[page], NEW followed, NEW clicked,
             MountPage(page, of, followed, clicked)
      PROVE  NodePage!Unmount \/ \E status \in NodePage!Statuses \union {None} : NodePage!Mount(status)
  BY <1>1, <1>3 DEF MountPage
<1>4. ASSUME NEW of \in Carries[route.page], NEW clicked, ReusePage(of, clicked)
      PROVE  \/ UNCHANGED nodeList
             \/ \E status \in NodePage!Statuses \union {None} : NodePage!WatchRouteStatus(status)
  BY <1>1, <1>4 DEF ReusePage
<1>5. CASE Open
  BY <1>3, <1>5 DEF Open
<1>6. CASE Turn
  BY <1>4, <1>6 DEF Turn
<1>7. CASE Leave
  BY <1>7 DEF Leave
<1>8. CASE UsePage
  BY <1>8 DEF UsePage, OnCardList, OnNodeList, OnTaskList, OnCardDetail, OnNodeDetail,
              OnTaskDetail, OnOverview, OnRanks, Views
<1>9. CASE Translate
  BY <1>9 DEF Translate
<1>10. CASE ClickRank
  <2>1. {"card", "task"} \subseteq Pages
    BY DEF Pages, Carries
  <2>. QED
    BY <1>3, <1>10, <2>1 DEF ClickRank, OnRanks, Views
<1>11. CASE Echo
  BY <1>11 DEF Echo, OnCardDetail, OnNodeDetail, OnTaskDetail, OnOverview
<1>12. CASE Answer
  BY <1>12 DEF Answer, OnCardList, OnNodeList, OnTaskList, OnCardDetail, OnNodeDetail,
               OnTaskDetail, OnOverview, OnRanks, Views
<1>13. ASSUME NEW name \in ranks.clicked, LookupAnswered(name)
       PROVE  UNCHANGED nodeList \/ NodePage!Unmount
  BY <1>13 DEF LookupAnswered, OnRanks, Views, MountPage, ReusePage
<1>. QED
  BY <1>2, <1>5, <1>6, <1>7, <1>8, <1>9, <1>10, <1>11, <1>12, <1>13 DEF Next, User, Network

-----------------------------------------------------------------------------
(* The list of nodes                                                       *)

(* What holds of the list of nodes at every step.                          *)
NodesKept(l) ==
    /\ l \in NodePage!States /\ Len(l.flights) <= MaxLists
    /\ NodePage!LastAwaited(l) /\ NodePage!AskedAsFiltered(l)

(* A page that has just asked.                                             *)
LEMMA NodesAsked ==
    ASSUME NEW l \in NodePage!States, NodePage!CanAsk(l)
    PROVE  NodesKept(NodePage!ApplyFilters(l))
<1> DEFINE p == NodePage!Payload(l)
           m == NodePage!ApplyFilters(l)
<1>1. p \in NodePage!Requests
  BY DEF NodePage!Payload, NodePage!States, NodePage!Requests
<1>2. l.flights \in Seq(NodePage!Requests)
  BY DEF NodePage!States
<1>3. /\ Append(l.flights, p) \in Seq(NodePage!Requests) /\ Append(l.flights, p) # <<>>
      /\ Len(Append(l.flights, p)) = Len(l.flights) + 1 /\ Len(l.flights) \in Nat
      /\ Last(Append(l.flights, p)) = p
  BY <1>1, <1>2, Sent
<1>4. /\ m \in NodePage!States /\ m.flights = Append(l.flights, p) /\ m.newest = "out"
      /\ m.ip = l.ip /\ m.status = l.status /\ m.type = l.type
  BY <1>3 DEF NodePage!ApplyFilters, NodePage!Ask, NodePage!States
<1>5. NodePage!Payload(m) = p
  BY <1>4 DEF NodePage!Payload
<1>. HIDE DEF m, p
<1>6. Len(m.flights) <= MaxLists
  BY <1>3, <1>4, Bounds DEF NodePage!CanAsk
<1>7. NodePage!LastAwaited(m) /\ NodePage!AskedAsFiltered(m)
  BY <1>3, <1>4, <1>5 DEF NodePage!LastAwaited, NodePage!AskedAsFiltered, NodePage!Last, Last
<1>. QED
  BY <1>4, <1>6, <1>7 DEF NodesKept, m

(* setup: nothing is selected but the status of the route.                 *)
LEMMA NodesFresh ==
    ASSUME NEW status \in NodePage!Statuses \union {None}
    PROVE  LET fresh == [NodePage!Fresh EXCEPT !.status = status]
           IN  fresh \in NodePage!States /\ NodePage!CanAsk(fresh)
<1>1. "" \in Texts
  BY ConsoleAssumption, Zenon
<1>2. NodePage!NoRequest \in NodePage!Requests
  BY <1>1 DEF NodePage!NoRequest, NodePage!Requests
<1>3. NodePage!KeepColumns({}, Columns) \subseteq Columns
  BY DEF NodePage!KeepColumns
<1>4. <<>> \in Seq(NodePage!Requests) /\ Len(<<>>) = 0
  OBVIOUS
<1>5. PICK l : l = [NodePage!Fresh EXCEPT !.status = status]
  OBVIOUS
<1>6. l \in NodePage!States /\ l.flights = <<>>
  BY <1>1, <1>2, <1>3, <1>4, <1>5 DEF NodePage!Fresh, NodePage!States, NodePage!Blank
<1>. QED
  BY <1>4, <1>5, <1>6, Bounds DEF NodePage!CanAsk

(* What changes neither the filters nor the lists asked for.               *)
LEMMA NodesSteady ==
    ASSUME NEW l, NodesKept(l), NEW m \in NodePage!States,
           m.flights = l.flights, m.newest = l.newest, m.rows = l.rows,
           \/ m.typing
           \/ m.typing = l.typing /\ m.ip = l.ip /\ m.status = l.status /\ m.type = l.type
    PROVE  NodesKept(m)
<1>1. ~ m.typing => NodePage!Payload(m) = NodePage!Payload(l)
  BY DEF NodePage!Payload
<1>. QED
  BY <1>1 DEF NodesKept, NodePage!LastAwaited, NodePage!AskedAsFiltered

(* An answer: what is left in flight keeps its last request.               *)
LEMMA NodesLanded ==
    ASSUME NEW l, NodesKept(l), NEW i \in DOMAIN l.flights
    PROVE  LET left == NodePage!RemoveAt(l.flights, i)
           IN  /\ left \in Seq(NodePage!Requests) /\ Len(left) <= MaxLists
               /\ i # Len(l.flights) =>
                     left # <<>> /\ NodePage!Last(left) = NodePage!Last(l.flights)
<1>1. l.flights \in Seq(NodePage!Requests) /\ Len(l.flights) \in Nat /\ Len(l.flights) <= MaxLists
  BY DEF NodesKept, NodePage!States
<1>2. PICK left : left = RemoveAt(l.flights, i)
  OBVIOUS
<1>3. /\ left \in Seq(NodePage!Requests) /\ Len(left) = Len(l.flights) - 1
      /\ i # Len(l.flights) => left # <<>> /\ Last(left) = Last(l.flights)
  BY <1>1, <1>2, Landed
<1>4. NodePage!RemoveAt(l.flights, i) = left
  BY <1>2 DEF RemoveAt, NodePage!RemoveAt
<1>5. Len(left) <= MaxLists
  BY <1>1, <1>3, Bounds
<1>6. \A s : NodePage!Last(s) = Last(s)
  BY DEF Last, NodePage!Last
<1>. QED
  BY <1>3, <1>4, <1>5, <1>6

(* A failed call changes no row, an answer replaces them.                  *)
LEMMA NodesAnswered ==
    ASSUME NEW l, NodesKept(l), NEW i \in DOMAIN l.flights
    PROVE  /\ NodesKept(NodePage!Miss(l, i))
           /\ \A ids \in NodePage!NodeAnswers(l.flights[i]) : NodesKept(NodePage!Show(l, i, ids))
<1>1. l \in NodePage!States /\ l.flights[i] \in NodePage!Requests
  BY DEF NodesKept, NodePage!States
<1>2. PICK left : left = NodePage!RemoveAt(l.flights, i)
  OBVIOUS
<1>3. /\ left \in Seq(NodePage!Requests) /\ Len(left) <= MaxLists
      /\ i # Len(l.flights) =>
            left # <<>> /\ NodePage!Last(left) = NodePage!Last(l.flights)
  BY <1>2, NodesLanded
<1>4. ASSUME NEW rows \in [asked : NodePage!Requests, ids : SUBSET Nodes],
             NEW newest \in {"out", "shown", "lost"},
             newest = "out" => l.newest = "out" /\ i # Len(l.flights),
             newest = "shown" =>
                \/ l.newest = "shown" /\ rows = l.rows
                \/ /\ l.newest = "out" /\ i = Len(l.flights)
                   /\ rows.ids \subseteq NodePage!MatchingNodes(l.flights[i]),
             NEW m,
             m = [l EXCEPT !.rows = rows, !.loading = FALSE, !.flights = left, !.newest = newest]
      PROVE  NodesKept(m)
  <2>1. /\ m \in NodePage!States /\ m.ip = l.ip /\ m.status = l.status /\ m.type = l.type
        /\ m.flights = left /\ m.newest = newest /\ m.rows = rows /\ m.typing = l.typing
    BY <1>1, <1>3, <1>4 DEF NodePage!States
  <2>2. NodePage!Payload(m) = NodePage!Payload(l)
    BY <2>1 DEF NodePage!Payload
  <2>. QED
    BY <1>3, <1>4, <2>1, <2>2
       DEF NodesKept, NodePage!LastAwaited, NodePage!AskedAsFiltered, NodePage!Last
<1>5. NodesKept(NodePage!Miss(l, i))
  <2>1. PICK newest : newest = IF NodePage!IsNewest(l, i) THEN "lost" ELSE l.newest
    OBVIOUS
  <2>2. /\ newest \in {"out", "shown", "lost"}
        /\ newest = "out" => l.newest = "out" /\ i # Len(l.flights)
        /\ newest = "shown" => l.newest = "shown"
    BY <1>1, <2>1 DEF NodePage!IsNewest, NodePage!States
  <2>3. l.rows \in [asked : NodePage!Requests, ids : SUBSET Nodes]
    BY <1>1 DEF NodePage!States
  <2>4. NodePage!Miss(l, i) =
           [l EXCEPT !.rows = l.rows, !.loading = FALSE, !.flights = left, !.newest = newest]
    BY <1>1, <1>2, <2>1 DEF NodePage!Miss, NodePage!States
  <2>. QED
    BY <1>4, <2>2, <2>3, <2>4
<1>6. ASSUME NEW ids \in NodePage!NodeAnswers(l.flights[i])
      PROVE  NodesKept(NodePage!Show(l, i, ids))
  <2>1. ids \subseteq NodePage!MatchingNodes(l.flights[i]) /\ ids \subseteq Nodes
    <3>1. \A text \in Texts : NodeHits[text] \subseteq Nodes
      BY ConsoleAssumption, Zenon
    <3>2. l.flights[i].ip \in Texts
      BY <1>1 DEF NodePage!Requests
    <3>3. NodePage!MatchingNodes(l.flights[i]) \subseteq Nodes
      BY <3>1, <3>2 DEF NodePage!MatchingNodes
    <3>. QED
      BY <3>3 DEF NodePage!NodeAnswers
  <2>2. PICK rows : rows = [asked |-> l.flights[i], ids |-> ids]
    OBVIOUS
  <2>3. rows \in [asked : NodePage!Requests, ids : SUBSET Nodes] /\ rows.ids = ids
    BY <1>1, <2>1, <2>2
  <2>4. PICK newest : newest = IF NodePage!IsNewest(l, i) THEN "shown"
                               ELSE IF l.newest = "shown" THEN "lost" ELSE l.newest
    OBVIOUS
  <2>5. /\ newest \in {"out", "shown", "lost"}
        /\ newest = "out" => l.newest = "out" /\ i # Len(l.flights)
        /\ newest = "shown" => l.newest = "out" /\ i = Len(l.flights)
    BY <1>1, <2>4 DEF NodePage!IsNewest, NodePage!States
  <2>6. NodePage!Show(l, i, ids) =
           [l EXCEPT !.rows = rows, !.loading = FALSE, !.flights = left, !.newest = newest]
    BY <1>1, <1>2, <2>2, <2>4 DEF NodePage!Show, NodePage!States
  <2>. QED
    BY <1>4, <2>1, <2>3, <2>5, <2>6
<1>. QED
  BY <1>5, <1>6

(* The list of nodes' part of the inductive invariant.                     *)
NodesInv == nodeList # None => NodesKept(nodeList)

(* The list of nodes keeps it.                                             *)
LEMMA NodesStep ==
    ASSUME NodesInv, [Next]_vars
    PROVE  NodesInv'
<1>1. SUFFICES ASSUME nodeList' # None
               PROVE  NodesKept(nodeList')
  BY DEF NodesInv
<1>2. CASE UNCHANGED nodeList
  BY <1>1, <1>2 DEF NodesInv
<1>3. CASE NodePage!Unmount
  BY <1>1, <1>3 DEF NodePage!Unmount
<1>4. ASSUME NEW status \in NodePage!Statuses \union {None}, NodePage!Mount(status)
      PROVE  NodesKept(nodeList')
  BY <1>4, NodesFresh, NodesAsked DEF NodePage!Mount
<1>5. CASE nodeList # None
  <2>1. NodesKept(nodeList) /\ nodeList \in NodePage!States
    BY <1>5 DEF NodesInv, NodesKept
  <2>2. ASSUME NEW l \in NodePage!States, l.flights = nodeList.flights, NodePage!CanAsk(nodeList),
               nodeList' = NodePage!ApplyFilters(l)
        PROVE  NodesKept(nodeList')
    BY <2>2, NodesAsked DEF NodePage!CanAsk
  <2>3. ASSUME NEW status \in NodePage!Statuses \union {None}, NodePage!CanAsk(nodeList),
               nodeList' = NodePage!ApplyFilters([nodeList EXCEPT !.status = status])
        PROVE  NodesKept(nodeList')
    <3>1. PICK l : l = [nodeList EXCEPT !.status = status]
      OBVIOUS
    <3>2. l \in NodePage!States /\ l.flights = nodeList.flights
      BY <2>1, <3>1 DEF NodePage!States
    <3>. QED
      BY <2>2, <2>3, <3>1, <3>2
  <2>4. ASSUME NEW status \in NodePage!Statuses \union {None}, NodePage!WatchRouteStatus(status)
        PROVE  NodesKept(nodeList')
    BY <2>1, <2>3, <2>4 DEF NodePage!WatchRouteStatus
  <2>5. ASSUME NEW status \in NodePage!Statuses \union {None}, NodePage!OnStatusChange(status)
        PROVE  NodesKept(nodeList')
    BY <2>3, <2>5 DEF NodePage!OnStatusChange, NodePage!MayFetch
  <2>6. ASSUME NEW type \in NodePage!CardTypes \union {None}, NodePage!OnTypeChange(type)
        PROVE  NodesKept(nodeList')
    <3>1. PICK l : l = [nodeList EXCEPT !.type = type]
      OBVIOUS
    <3>2. l \in NodePage!States /\ l.flights = nodeList.flights
      BY <2>1, <3>1 DEF NodePage!States
    <3>. QED
      BY <2>2, <2>6, <3>1, <3>2 DEF NodePage!OnTypeChange, NodePage!MayFetch
  <2>7. ASSUME NEW text \in Texts, NodePage!TypeIp(text)
        PROVE  NodesKept(nodeList')
    <3>1. PICK m : m = [nodeList EXCEPT !.ip = text, !.typing = TRUE]
      OBVIOUS
    <3>2. /\ m \in NodePage!States /\ m.flights = nodeList.flights /\ m.newest = nodeList.newest
          /\ m.rows = nodeList.rows /\ m.typing
      BY <2>1, <3>1 DEF NodePage!States
    <3>. QED
      BY <2>1, <2>7, <3>1, <3>2, NodesSteady DEF NodePage!TypeIp
  <2>8. CASE NodePage!LeaveIp
    <3>1. PICK typing \in BOOLEAN :
            nodeList' = NodePage!ApplyFilters([nodeList EXCEPT !.typing = typing])
      BY <2>8 DEF NodePage!LeaveIp
    <3>2. PICK l : l = [nodeList EXCEPT !.typing = typing]
      OBVIOUS
    <3>3. l \in NodePage!States /\ l.flights = nodeList.flights
      BY <2>1, <3>2 DEF NodePage!States
    <3>. QED
      BY <2>2, <2>8, <3>1, <3>2, <3>3 DEF NodePage!LeaveIp, NodePage!MayFetch
  <2>9. CASE NodePage!RefreshTable
    BY <2>1, <2>9, NodesAsked DEF NodePage!RefreshTable, NodePage!MayFetch
  <2>10. ASSUME NEW columns \in SUBSET Columns, nodeList' = [nodeList EXCEPT !.columns = columns]
         PROVE  NodesKept(nodeList')
    <3>1. PICK m : m = [nodeList EXCEPT !.columns = columns]
      OBVIOUS
    <3>2. /\ m \in NodePage!States /\ m.flights = nodeList.flights /\ m.newest = nodeList.newest
          /\ m.rows = nodeList.rows /\ m.typing = nodeList.typing
          /\ m.ip = nodeList.ip /\ m.status = nodeList.status /\ m.type = nodeList.type
      BY <2>1, <3>1 DEF NodePage!States
    <3>. QED
      BY <2>1, <2>10, <3>1, <3>2, NodesSteady
  <2>11. CASE NodePage!Translate
    <3>1. NodePage!KeepColumns(nodeList.columns, Columns) \in SUBSET Columns
      BY DEF NodePage!KeepColumns
    <3>2. nodeList' = [nodeList EXCEPT !.columns = NodePage!KeepColumns(nodeList.columns, Columns)]
      BY <1>5, <2>11 DEF NodePage!Translate
    <3>. QED
      BY <2>10, <3>1, <3>2
  <2>12. CASE NodePage!UserStep
    BY <2>5, <2>6, <2>7, <2>8, <2>9, <2>10, <2>12 DEF NodePage!UserStep, NodePage!ChooseColumns
  <2>13. CASE NodePage!NetworkStep
    <3>1. ASSUME NEW types \in SUBSET NodePage!CardTypes, NEW known \in SUBSET Nodes, NEW m,
                 \/ m = [nodeList EXCEPT !.typesAsked = FALSE, !.types = types]
                 \/ m = [nodeList EXCEPT !.mapAsked = FALSE, !.known = known]
          PROVE  NodesKept(m)
      <4>1. CASE m = [nodeList EXCEPT !.typesAsked = FALSE, !.types = types]
        <5>1. /\ m \in NodePage!States /\ m.flights = nodeList.flights /\ m.newest = nodeList.newest
              /\ m.rows = nodeList.rows /\ m.typing = nodeList.typing
              /\ m.ip = nodeList.ip /\ m.status = nodeList.status /\ m.type = nodeList.type
          BY <2>1, <4>1 DEF NodePage!States
        <5>. QED
          BY <2>1, <5>1, NodesSteady
      <4>2. CASE m = [nodeList EXCEPT !.mapAsked = FALSE, !.known = known]
        <5>1. /\ m \in NodePage!States /\ m.flights = nodeList.flights /\ m.newest = nodeList.newest
              /\ m.rows = nodeList.rows /\ m.typing = nodeList.typing
              /\ m.ip = nodeList.ip /\ m.status = nodeList.status /\ m.type = nodeList.type
          BY <2>1, <4>2 DEF NodePage!States
        <5>. QED
          BY <2>1, <5>1, NodesSteady
      <4>. QED
        BY <3>1, <4>1, <4>2
    <3>2. ASSUME NEW ok, NodePage!TypesAnswered(ok) \/ NodePage!MapAnswered(ok)
          PROVE  NodesKept(nodeList')
      <4>1. PICK types, known : /\ types = IF ok THEN NodePage!CardTypes ELSE {}
                                /\ known = IF ok THEN Nodes ELSE {}
        OBVIOUS
      <4>2. \/ nodeList' = [nodeList EXCEPT !.typesAsked = FALSE, !.types = types]
            \/ nodeList' = [nodeList EXCEPT !.mapAsked = FALSE, !.known = known]
        BY <3>2, <4>1 DEF NodePage!TypesAnswered, NodePage!MapAnswered
      <4>3. types \in SUBSET NodePage!CardTypes /\ known \in SUBSET Nodes
        BY <4>1
      <4>. QED
        BY <3>1, <4>2, <4>3
    <3>3. ASSUME NEW i, NEW ok, NodePage!ListAnswered(i, ok)
          PROVE  NodesKept(nodeList')
      BY <2>1, <3>3, NodesAnswered DEF NodePage!ListAnswered
    <3>. QED
      BY <2>13, <3>2, <3>3 DEF NodePage!NetworkStep
  <2>. QED
    BY <1>2, <1>3, <1>4, <2>4, <2>11, <2>12, <2>13, NodeListSteps
<1>6. CASE nodeList = None
  <2>1. ~NodePage!UserStep
    BY <1>6 DEF NodePage!UserStep, NodePage!OnStatusChange, NodePage!OnTypeChange, NodePage!TypeIp,
                NodePage!LeaveIp, NodePage!RefreshTable, NodePage!ChooseColumns, NodePage!Idle,
                NodePage!MayFetch
  <2>2. ~NodePage!NetworkStep
    BY <1>6 DEF NodePage!NetworkStep, NodePage!TypesAnswered, NodePage!MapAnswered,
                NodePage!ListAnswered
  <2>3. ~NodePage!Translate
    BY <1>1, <1>6 DEF NodePage!Translate
  <2>. QED
    BY <1>2, <1>3, <1>4, <1>6, <2>1, <2>2, <2>3, NodeListSteps DEF NodePage!WatchRouteStatus
<1>. QED
  BY <1>5, <1>6

(* What the inductive invariant says of the list of nodes.                 *)
LEMMA NodesPromises ==
    ASSUME NodesInv, nodeList # None
    PROVE  /\ NodePage!TypeOK
           /\ nodeList.newest = "shown" /\ ~ nodeList.typing =>
                \A n \in nodeList.rows.ids :
                   /\ n \in NodeHits[nodeList.ip]
                   /\ \/ nodeList.status = None
                      \/ (nodeList.status = "true") = (n \in Schedulable)
                   /\ nodeList.type \in NodePage!TypesOn(n) \union {None}
<1>1. NodesKept(nodeList)
  BY DEF NodesInv
<1>2. NodePage!TypeOK
  BY <1>1 DEF NodesKept, NodePage!TypeOK
<1>3. ASSUME nodeList.newest = "shown", ~ nodeList.typing, NEW n \in nodeList.rows.ids
      PROVE  /\ n \in NodeHits[nodeList.ip]
             /\ \/ nodeList.status = None
                \/ (nodeList.status = "true") = (n \in Schedulable)
             /\ nodeList.type \in NodePage!TypesOn(n) \union {None}
  <2>1. n \in NodePage!MatchingNodes(NodePage!Payload(nodeList))
    BY <1>1, <1>3 DEF NodesKept, NodePage!AskedAsFiltered
  <2>. QED
    BY <2>1 DEF NodePage!MatchingNodes, NodePage!Payload
<1>. QED
  BY <1>2, <1>3

-----------------------------------------------------------------------------
(* The promises of the list pages                                          *)

(* The inductive invariant of the three lists.                             *)
ListsInv == CardsInv /\ NodesInv /\ TasksInv

(* It holds whatever the user does on whichever page and in whatever order *)
(* the network answers.                                                    *)
THEOREM Lists == Spec => []ListsInv
<1>1. Init => ListsInv
  BY DEF Init, CardPage!Init, NodePage!Init, TaskPage!Init, ListsInv, CardsInv, NodesInv, TasksInv
<1>2. ListsInv /\ [Next]_vars => ListsInv'
  BY CardsStep, NodesStep, TasksStep DEF ListsInv
<1>. QED
  BY <1>1, <1>2, PTL DEF Spec

(* The list pages' part of the type invariant.                             *)
THEOREM ListsTyped == Spec => [](CardPage!TypeOK /\ NodePage!TypeOK /\ TaskPage!TypeOK)
<1>1. ListsInv => CardPage!TypeOK /\ NodePage!TypeOK /\ TaskPage!TypeOK
  BY CardsPromises, NodesPromises, TasksPromises
     DEF ListsInv, CardPage!TypeOK, NodePage!TypeOK, TaskPage!TypeOK
<1>. QED
  BY <1>1, Lists, PTL

(* A table that shows the answer to its page's last request shows nothing  *)
(* the filters on the screen exclude: fetchTableData and applyFilters of   *)
(* the three list pages, with any number of requests in flight.            *)
THEOREM AnswersOfFilters == Spec => []ListsAnswerTheirFilters
<1>1. ListsInv => ListsAnswerTheirFilters
  BY CardsPromises, NodesPromises, TasksPromises DEF ListsInv, ListsAnswerTheirFilters
<1>. QED
  BY <1>1, Lists, PTL

(* Filters that exclude each other never stand together, on the screen or  *)
(* in a request: pruneNodeScopeByType of the cards, the watch on the node  *)
(* of the workloads.                                                       *)
THEOREM ScopesKept == Spec => []ScopeKept
<1>1. ListsInv => ScopeKept
  BY CardsPromises, TasksPromises DEF ListsInv, ScopeKept
<1>. QED
  BY <1>1, Lists, PTL

(* A table that has rows shows some: syncTotalAndClamp and the pagination  *)
(* control of useLocalPagination, whatever the sizes of the answers.       *)
THEOREM NeverBlank == Spec => []NoBlankPage
<1>1. ListsInv => NoBlankPage
  BY CardsPromises, TasksPromises DEF ListsInv, NoBlankPage
<1>. QED
  BY <1>1, Lists, PTL


-----------------------------------------------------------------------------
(* The step of a range query                                               *)

(* A quotient is no more than what times the divisor is no less.           *)
LEMMA QuotientBound ==
    ASSUME NEW a \in Nat, NEW b \in Nat \ {0}, NEW c \in Nat, a <= c * b
    PROVE  a \div b \in Nat /\ a \div b <= c
<1> DEFINE q == a \div b
           r == a % b
<1>1. q \in Int /\ r \in Int /\ a = q * b + r /\ r >= 0 /\ r < b
  OBVIOUS
<1>. HIDE DEF q, r
<1>2. q >= 0
  <2>1. CASE q < 0
    <3>1. PICK k \in Nat : q = 0 - 1 - k
      BY <1>1, <2>1
    <3>2. q * b = 0 - b - k * b /\ k * b \in Nat
      BY <3>1
    <3>. QED
      BY <1>1, <3>2
  <2>. QED
    BY <1>1, <2>1
<1>3. CASE q > c
  <2>1. PICK k \in Nat : q = c + 1 + k
    BY <1>1, <1>3
  <2>2. q * b = c * b + b + k * b /\ k * b \in Nat /\ c * b \in Nat
    BY <2>1
  <2>. QED
    BY <1>1, <2>2
<1>. QED
  BY <1>1, <1>2, <1>3 DEF q

(* Rounding up loses nothing, and leaves something of what there is.       *)
LEMMA RoundedUp ==
    ASSUME NEW n \in Nat \ {0}, NEW d \in Nat \ {0}
    PROVE  OneCard!RoundUp(n, d) \in Nat \ {0} /\ n <= OneCard!RoundUp(n, d) * d
<1> DEFINE q == (n + d - 1) \div d
           r == (n + d - 1) % d
<1>1. n + d - 1 \in Nat
  OBVIOUS
<1>2. q \in Int /\ r \in Int /\ n + d - 1 = q * d + r /\ r >= 0 /\ r < d
  BY <1>1
<1>. HIDE DEF q, r
<1>3. n <= q * d
  <2>1. q * d \in Int
    BY <1>2
  <2>. QED
    BY <1>2, <2>1
<1>4. q > 0
  <2>1. CASE q <= 0
    <3>1. PICK k \in Nat : q = 0 - k
      BY <1>2, <2>1
    <3>2. q * d = 0 - k * d /\ k * d \in Nat
      BY <3>1
    <3>. QED
      BY <1>3, <3>2
  <2>. QED
    BY <1>2, <2>1
<1>. QED
  BY <1>2, <1>3, <1>4 DEF q, OneCard!RoundUp

(* A range of at most 30 days has a tier, whose steps are a minute for an  *)
(* hour at most and no less than five minutes for more.                    *)
LEMMA TierOfRange ==
    ASSUME NEW minutes \in Nat, minutes <= 43200
    PROVE  LET tier == OneCard!Tier(minutes)
           IN  /\ {tier.step, tier.coarser} \subseteq Nat
               /\ (tier.step >= 5 /\ tier.coarser >= 5) \/ (minutes <= 60 /\ tier.step = 1)
<1> DEFINE Fits(tier) ==
             /\ minutes <= tier.upTo
             /\ \A t \in OneCard!Tiers : minutes <= t.upTo => tier.upTo <= t.upTo
<1>1. /\ \A t \in OneCard!Tiers : t.upTo \in {60, 360, 1440, 10080, 43200}
      /\ \A t \in OneCard!Tiers :
            \/ t.upTo = 60 /\ t.step = 1 /\ t.coarser = 5
            \/ {t.step, t.coarser} \subseteq {5, 15, 30, 60, 360}
  BY DEF OneCard!Tiers
<1>2. \A upTo \in {60, 360, 1440, 10080, 43200} : \E t \in OneCard!Tiers : t.upTo = upTo
  BY DEF OneCard!Tiers
<1>3. \E tier \in OneCard!Tiers : Fits(tier)
  <2>1. PICK upTo \in {60, 360, 1440, 10080, 43200} :
          minutes <= upTo /\ \A u \in {60, 360, 1440, 10080, 43200} : minutes <= u => upTo <= u
    <3>1. \/ minutes <= 60
          \/ minutes > 60 /\ minutes <= 360
          \/ minutes > 360 /\ minutes <= 1440
          \/ minutes > 1440 /\ minutes <= 10080
          \/ minutes > 10080 /\ minutes <= 43200
      OBVIOUS
    <3>. QED
      BY <3>1
  <2>. QED
    BY <1>1, <1>2, <2>1
<1>4. OneCard!Tier(minutes) = CHOOSE tier \in OneCard!Tiers : Fits(tier)
  BY DEF OneCard!Tier
<1>5. minutes <= OneCard!Tier(minutes).upTo /\ OneCard!Tier(minutes) \in OneCard!Tiers
  <2>. HIDE DEF Fits
  <2>1. OneCard!Tier(minutes) \in OneCard!Tiers /\ Fits(OneCard!Tier(minutes))
    BY <1>3, <1>4
  <2>. QED
    BY <2>1 DEF Fits
<1>6. PICK tier : tier = OneCard!Tier(minutes)
  OBVIOUS
<1>7. tier \in OneCard!Tiers /\ minutes <= tier.upTo
  BY <1>5, <1>6
<1>8. \/ tier.upTo = 60 /\ tier.step = 1 /\ tier.coarser = 5
      \/ {tier.step, tier.coarser} \subseteq {5, 15, 30, 60, 360}
  BY <1>1, <1>7
<1>9. /\ {tier.step, tier.coarser} \subseteq Nat
      /\ (tier.step >= 5 /\ tier.coarser >= 5) \/ (minutes <= 60 /\ tier.step = 1)
  <2>1. CASE tier.upTo = 60 /\ tier.step = 1 /\ tier.coarser = 5
    BY <1>7, <2>1
  <2>2. CASE tier.step \in {5, 15, 30, 60, 360} /\ tier.coarser \in {5, 15, 30, 60, 360}
    BY <2>2
  <2>. QED
    BY <1>8, <2>1, <2>2
<1>. QED
  BY <1>6, <1>9

(* A range of any length has no more steps than Prometheus answers for.    *)
LEMMA StepsBounded ==
    ASSUME NEW minutes \in Nat \ {0}
    PROVE  OneCard!Steps(minutes) <= 11000
<1>1. CASE minutes <= 15
  <2>1. OneCard!CalculatePrometheusStep(minutes, 11000) = 15
    BY <1>1 DEF OneCard!CalculatePrometheusStep
  <2>. QED
    BY <1>1, <2>1 DEF OneCard!Steps
<1>2. CASE minutes > 15 /\ minutes <= 43200
  <2>1. PICK tier : tier = OneCard!Tier(minutes)
    OBVIOUS
  <2>2. /\ tier.step \in Nat /\ tier.coarser \in Nat
        /\ (tier.step >= 5 /\ tier.coarser >= 5) \/ (minutes <= 60 /\ tier.step = 1)
    BY <1>2, <2>1, TierOfRange
  <2>3. PICK step : step = IF OneCard!RoundUp(minutes, 11000) <= tier.step
                           THEN tier.step ELSE tier.coarser
    OBVIOUS
  <2>4. OneCard!RoundUp(minutes, 11000) \in Nat /\ (minutes <= 60 => OneCard!RoundUp(minutes, 11000) = 1)
    BY DEF OneCard!RoundUp
  <2>5. step \in Nat \ {0} /\ (minutes <= 60 \/ step >= 5)
    BY <2>2, <2>3, <2>4
  <2>6. OneCard!CalculatePrometheusStep(minutes, 11000) = 60 * step
    BY <1>2, <2>1, <2>3 DEF OneCard!CalculatePrometheusStep
  <2>7. 60 * minutes <= 11000 * (60 * step)
    BY <1>2, <2>5
  <2>. QED
    BY <2>5, <2>6, <2>7, QuotientBound DEF OneCard!Steps
<1>3. CASE minutes > 43200
  <2>1. PICK days : days = OneCard!RoundUp(minutes, 1440)
    OBVIOUS
  <2>2. days \in Nat \ {0} /\ minutes <= days * 1440
    BY <2>1, RoundedUp
  <2>3. PICK step : step = OneCard!RoundUp(days, 11000)
    OBVIOUS
  <2>4. step \in Nat \ {0} /\ days <= step * 11000
    BY <2>2, <2>3, RoundedUp
  <2>5. OneCard!CalculatePrometheusStep(minutes, 11000) = 86400 * step
    BY <1>3, <2>1, <2>3 DEF OneCard!CalculatePrometheusStep
  <2>6. 60 * minutes <= 11000 * (86400 * step)
    BY <2>2, <2>4
  <2>7. (60 * minutes) \div (86400 * step) <= 11000
    <3>1. 60 * minutes \in Nat /\ 86400 * step \in Nat \ {0}
      BY <2>4
    <3>. QED
      BY <2>6, <3>1, QuotientBound
  <2>. QED
    BY <2>5, <2>7 DEF OneCard!Steps
<1>. QED
  BY <1>1, <1>2, <1>3

-----------------------------------------------------------------------------
(* Fields and gauges, as the page of a card has them                       *)

(* The last request of the field, while it is awaited and while its answer *)
(* is shown, is one of W.                                                  *)
FieldFor(f, W) ==
    /\ f.newest = "out" => f.flights # <<>> /\ Last(f.flights) \in W
    /\ f.newest = "shown" => f.of \in W

(* Nothing was asked for.                                                  *)
Untouched(g) ==
    g.used = OneCard!Empty /\ g.total = OneCard!Empty /\ g.series = OneCard!Empty

(* The last requests of the gauge are about the subject and the times; the *)
(* percentage is of the figure and the total that are shown.               *)
GaugeFor(g, subject, times) ==
    /\ FieldFor(g.used, {subject}) /\ FieldFor(g.total, {subject})
    /\ FieldFor(g.series, {OneCard!Span(subject, times)})
    /\ g.hasTotal /\ g.used.newest = "shown" /\ g.total.newest = "shown"
         => g.percent = <<g.used.of, g.total.of>>
    /\ subject = None => Untouched(g)

(* A request is the last, and what the field waits for.                    *)
LEMMA FieldAsked ==
    ASSUME NEW S, NEW f \in OneCard!FieldStates(S), NEW w \in S
    PROVE  LET m == OneCard!Ask(f, w)
           IN  m \in OneCard!FieldStates(S) /\ FieldFor(m, {w}) /\ m.newest = "out"
<1>1. f.flights \in Seq(S)
  BY DEF OneCard!FieldStates
<1>2. PICK flights : flights = Append(f.flights, w)
  OBVIOUS
<1>3. flights \in Seq(S) /\ flights # <<>> /\ Last(flights) = w
  BY <1>1, <1>2, Sent
<1>4. PICK m : m = [f EXCEPT !.flights = flights, !.newest = "out"]
  OBVIOUS
<1>5. m = OneCard!Ask(f, w)
  BY <1>2, <1>4 DEF OneCard!Ask, OneCard!FieldStates
<1>6. m \in OneCard!FieldStates(S) /\ m.flights = flights /\ m.newest = "out"
  BY <1>3, <1>4 DEF OneCard!FieldStates
<1>. QED
  BY <1>3, <1>5, <1>6 DEF FieldFor

(* An answer is shown, or is none; either way what is shown as the answer  *)
(* to the last request is.                                                 *)
LEMMA FieldAnswered ==
    ASSUME NEW S, NEW f \in OneCard!FieldStates(S), NEW i \in DOMAIN f.flights
    PROVE  /\ LET m == OneCard!Show(f, i)
              IN  /\ m \in OneCard!FieldStates(S) /\ m.of = f.flights[i] /\ m.of \in S
                  /\ \A W : FieldFor(f, W) => FieldFor(m, W)
           /\ LET m == OneCard!Miss(f, i)
              IN  /\ m \in OneCard!FieldStates(S) /\ m.of = f.of
                  /\ m.newest = "shown" => f.newest = "shown"
                  /\ \A W : FieldFor(f, W) => FieldFor(m, W)
<1>1. f.flights \in Seq(S) /\ f.flights[i] \in S
  BY DEF OneCard!FieldStates
<1>2. PICK left : left = RemoveAt(f.flights, i)
  OBVIOUS
<1>3. left \in Seq(S) /\ (i # Len(f.flights) => left # <<>> /\ Last(left) = Last(f.flights))
  BY <1>1, <1>2, Landed
<1>4. OneCard!RemoveAt(f.flights, i) = left
  BY <1>2 DEF RemoveAt, OneCard!RemoveAt
<1>5. PICK shown, missed :
        /\ shown = IF OneCard!IsNewest(f, i) THEN "shown"
                   ELSE IF f.newest = "shown" THEN "lost" ELSE f.newest
        /\ missed = IF OneCard!IsNewest(f, i) THEN "lost" ELSE f.newest
  OBVIOUS
<1>6. /\ {shown, missed} \subseteq {"none", "due", "out", "shown", "lost"}
      /\ "out" \in {shown, missed} => f.newest = "out" /\ i # Len(f.flights)
      /\ shown = "shown" => f.newest = "out" /\ i = Len(f.flights)
      /\ missed = "shown" => f.newest = "shown"
  BY <1>5 DEF OneCard!IsNewest, OneCard!FieldStates
<1>7. PICK m : m = [f EXCEPT !.of = f.flights[i], !.flights = left, !.newest = shown]
  OBVIOUS
<1>8. m = OneCard!Show(f, i)
  BY <1>4, <1>5, <1>7 DEF OneCard!Show, OneCard!FieldStates
<1>9. /\ m \in OneCard!FieldStates(S)
      /\ m.of = f.flights[i] /\ m.flights = left /\ m.newest = shown
  BY <1>1, <1>3, <1>6, <1>7 DEF OneCard!FieldStates
<1>10. \A W : FieldFor(f, W) => FieldFor(m, W)
  BY <1>3, <1>6, <1>9 DEF FieldFor, Last
<1>11. PICK n : n = [f EXCEPT !.flights = left, !.newest = missed]
  OBVIOUS
<1>12. n = OneCard!Miss(f, i)
  BY <1>4, <1>5, <1>11 DEF OneCard!Miss, OneCard!FieldStates
<1>13. /\ n \in OneCard!FieldStates(S)
       /\ n.of = f.of /\ n.flights = left /\ n.newest = missed
  BY <1>3, <1>6, <1>11 DEF OneCard!FieldStates
<1>14. \A W : FieldFor(f, W) => FieldFor(n, W)
  BY <1>3, <1>6, <1>13 DEF FieldFor
<1>. QED
  BY <1>1, <1>6, <1>8, <1>9, <1>10, <1>12, <1>13, <1>14

(* So it is with whichever request is settled.                             *)
LEMMA FieldSettled ==
    ASSUME NEW S, NEW f \in OneCard!FieldStates(S), NEW ok, NEW m \in OneCard!FieldsAfter(f, ok)
    PROVE  /\ m \in OneCard!FieldStates(S)
           /\ ok => m.of \in S
           /\ \A W : FieldFor(f, W) => FieldFor(m, W)
<1>1. PICK i \in DOMAIN f.flights : m = IF ok THEN OneCard!Show(f, i) ELSE OneCard!Miss(f, i)
  BY DEF OneCard!FieldsAfter
<1>. QED
  BY <1>1, FieldAnswered

(* A gauge or a chart of a page that was just mounted.                     *)
LEMMA FreshGauge ==
    ASSUME NEW S, NEW hasTotal \in BOOLEAN
    PROVE  /\ OneCard!Empty \in OneCard!FieldStates(S)
           /\ OneCard!Gauge(hasTotal) \in OneCard!GaugeStates(S)
           /\ Untouched(OneCard!Gauge(hasTotal)) /\ OneCard!Gauge(hasTotal).hasTotal = hasTotal
           /\ OneCard!Empty.newest = "none" /\ OneCard!Empty.flights = <<>>
<1>1. \A T : OneCard!Empty \in OneCard!FieldStates(T)
  BY DEF OneCard!Empty, OneCard!FieldStates
<1>2. OneCard!Gauge(hasTotal) \in OneCard!GaugeStates(S)
  BY <1>1 DEF OneCard!Gauge, OneCard!GaugeStates
<1>. QED
  BY <1>1, <1>2 DEF OneCard!Gauge, Untouched, OneCard!Empty

(* Nothing asked for is nothing out of date.                               *)
LEMMA UntouchedFor ==
    ASSUME NEW g, Untouched(g)
    PROVE  /\ \A subject, times : GaugeFor(g, subject, times)
           /\ \A ok, subject, times : OneCard!GaugesAfter(g, subject, times, ok) = {}
<1>1. /\ g.used.newest = "none" /\ g.total.newest = "none" /\ g.series.newest = "none"
      /\ g.used.flights = <<>> /\ g.total.flights = <<>> /\ g.series.flights = <<>>
  BY DEF Untouched, OneCard!Empty
<1>2. DOMAIN g.used.flights = {} /\ DOMAIN g.total.flights = {} /\ DOMAIN g.series.flights = {}
  BY <1>1
<1>3. \A ok, subject, times : OneCard!GaugesAfter(g, subject, times, ok) = {}
  BY <1>2 DEF OneCard!GaugesAfter
<1>. QED
  BY <1>1, <1>3 DEF GaugeFor, FieldFor

(* The lengths a page may show, and a page that has none.                  *)
Times == Presets \union Customs

(* A page shows a length in minutes, an hour at first.                     *)
LEMMA TimesGiven == Times \subseteq Nat \ {0} /\ 60 \in Times /\ 60 \in Presets /\ None \notin Times
<1>1. 60 \in Presets
  BY ConsoleAssumption, Zenon
<1>2. Presets \union Customs \subseteq Nat \ {0}
  BY ConsoleAssumption, Zenon
<1>3. None \notin Presets \union Customs \union Nodes \union Cards \union Tasks
  BY ConsoleAssumption, Zenon
<1>. QED
  BY <1>1, <1>2, <1>3 DEF Times

(* The total and the series of a gauge that is fetched are due, and are    *)
(* not taken for current until they are asked for again.                   *)
LEMMA GaugeFetched ==
    ASSUME NEW S, None \notin S, NEW g \in OneCard!GaugeStates(S),
           NEW subject \in S \union {None}, subject = None => Untouched(g)
    PROVE  LET m == OneCard!FetchInstantData(g, subject)
           IN  /\ m \in OneCard!GaugeStates(S) /\ m.hasTotal = g.hasTotal
               /\ \A times : GaugeFor(m, subject, times)
<1>1. CASE subject = None
  BY <1>1, UntouchedFor DEF OneCard!FetchInstantData, OneCard!Resolved
<1>2. CASE subject # None
  <2>1. PICK used : used = OneCard!Ask(g.used, subject)
    OBVIOUS
  <2>2. used \in OneCard!FieldStates(S) /\ FieldFor(used, {subject}) /\ used.newest = "out"
    <3>1. g.used \in OneCard!FieldStates(S)
      BY DEF OneCard!GaugeStates
    <3>. QED
      BY <1>2, <2>1, <3>1, FieldAsked
  <2>3. PICK total, series : /\ total = [g.total EXCEPT !.newest = "due"]
                             /\ series = [g.series EXCEPT !.newest = "due"]
    OBVIOUS
  <2>4. /\ total \in OneCard!FieldStates(S) /\ total.newest = "due"
        /\ series \in OneCard!FieldStates(OneCard!SpansOf(S)) /\ series.newest = "due"
    <3>1. /\ g.total \in OneCard!FieldStates(S)
          /\ g.series \in OneCard!FieldStates(OneCard!SpansOf(S))
      BY DEF OneCard!GaugeStates
    <3>. QED
      BY <2>3, <3>1 DEF OneCard!FieldStates
  <2>5. PICK m : m = [g EXCEPT !.used = used, !.total = total, !.series = series]
    OBVIOUS
  <2>6. m = OneCard!FetchInstantData(g, subject)
    BY <1>2, <2>1, <2>3, <2>5 DEF OneCard!FetchInstantData, OneCard!Resolved, OneCard!GaugeStates
  <2>7. /\ m \in OneCard!GaugeStates(S) /\ m.hasTotal = g.hasTotal
        /\ m.used = used /\ m.total = total /\ m.series = series
    BY <2>2, <2>4, <2>5 DEF OneCard!GaugeStates
  <2>8. \A times : GaugeFor(m, subject, times)
    BY <1>2, <2>2, <2>4, <2>7 DEF GaugeFor, FieldFor
  <2>. QED
    BY <2>6, <2>7, <2>8
<1>. QED
  BY <1>1, <1>2

(* The series is asked for over the range the page shows.                  *)
LEMMA SeriesAsked ==
    ASSUME NEW S, None \notin S, NEW g \in OneCard!GaugeStates(S),
           NEW subject \in S \union {None}, NEW before, GaugeFor(g, subject, before),
           NEW times \in Times \union {None}, times = None => before = None
    PROVE  LET m == OneCard!AskSeries(g, subject, times)
           IN  /\ m \in OneCard!GaugeStates(S) /\ m.hasTotal = g.hasTotal
               /\ GaugeFor(m, subject, times)
<1>1. CASE subject = None
  <2>1. OneCard!AskSeries(g, subject, times) = g
    BY <1>1 DEF OneCard!AskSeries, OneCard!Resolved
  <2>2. Untouched(g)
    BY <1>1 DEF GaugeFor
  <2>. QED
    BY <2>1, <2>2, UntouchedFor
<1>2. CASE times = None
  BY <1>2 DEF OneCard!AskSeries
<1>3. CASE subject # None /\ times # None
  <2>1. PICK span : span = OneCard!Span(subject, times)
    OBVIOUS
  <2>2. span \in OneCard!SpansOf(S)
    BY <1>3, <2>1 DEF OneCard!Span, OneCard!SpansOf, Times
  <2>3. PICK series : series = OneCard!Ask(g.series, span)
    OBVIOUS
  <2>4. series \in OneCard!FieldStates(OneCard!SpansOf(S)) /\ FieldFor(series, {span})
    <3>1. g.series \in OneCard!FieldStates(OneCard!SpansOf(S))
      BY DEF OneCard!GaugeStates
    <3>. QED
      BY <2>2, <2>3, <3>1, FieldAsked
  <2>5. PICK m : m = [g EXCEPT !.series = series]
    OBVIOUS
  <2>6. m = OneCard!AskSeries(g, subject, times)
    BY <1>3, <2>1, <2>3, <2>5 DEF OneCard!AskSeries, OneCard!Resolved, OneCard!GaugeStates
  <2>7. /\ m \in OneCard!GaugeStates(S) /\ m.hasTotal = g.hasTotal /\ m.series = series
        /\ m.used = g.used /\ m.total = g.total /\ m.percent = g.percent
    BY <2>4, <2>5 DEF OneCard!GaugeStates
  <2>8. GaugeFor(m, subject, times)
    BY <1>3, <2>1, <2>4, <2>7 DEF GaugeFor
  <2>. QED
    BY <2>6, <2>7, <2>8
<1>. QED
  BY <1>1, <1>2, <1>3

(* The last answer of the pair: the percentage is computed anew, then the  *)
(* series is asked for.                                                    *)
LEMMA PairFinished ==
    ASSUME NEW S, None \notin S, NEW g \in OneCard!GaugeStates(S), NEW subject \in S,
           NEW times \in Times \union {None},
           FieldFor(g.used, {subject}), FieldFor(g.total, {subject}),
           FieldFor(g.series, {OneCard!Span(subject, times)})
    PROVE  LET m == OneCard!PairDone(g, subject, times)
           IN  /\ m \in OneCard!GaugeStates(S) /\ m.hasTotal = g.hasTotal
               /\ GaugeFor(m, subject, times)
<1>1. PICK m : m = OneCard!ComputePercent(g)
  OBVIOUS
<1>2. /\ m \in OneCard!GaugeStates(S) /\ m.hasTotal = g.hasTotal
      /\ m.used = g.used /\ m.total = g.total /\ m.series = g.series
      /\ \/ m.percent = <<g.used.of, g.total.of>>
         \/ g.hasTotal /\ g.total.of = None
  <2>1. CASE g.hasTotal /\ g.total.of = None
    BY <1>1, <2>1 DEF OneCard!ComputePercent
  <2>2. CASE ~ (g.hasTotal /\ g.total.of = None)
    <3>1. PICK percent : percent = <<g.used.of, g.total.of>>
      OBVIOUS
    <3>2. percent \in (S \union {None}) \X (S \union {None})
      BY <3>1 DEF OneCard!GaugeStates, OneCard!FieldStates
    <3>3. m = [g EXCEPT !.percent = percent]
      BY <1>1, <2>2, <3>1 DEF OneCard!ComputePercent
    <3>. QED
      BY <3>1, <3>2, <3>3 DEF OneCard!GaugeStates
  <2>. QED
    BY <2>1, <2>2
<1>3. GaugeFor(m, subject, times)
  BY <1>2 DEF GaugeFor, FieldFor
<1>. QED
  BY <1>1, <1>2, <1>3, SeriesAsked DEF OneCard!PairDone

(* The figure has come: its total is asked for, or the pair is complete.   *)
LEMMA UsedCame ==
    ASSUME NEW S, None \notin S, NEW g \in OneCard!GaugeStates(S), NEW subject \in S,
           NEW times \in Times \union {None}, GaugeFor(g, subject, times),
           NEW i \in DOMAIN g.used.flights
    PROVE  LET m == OneCard!UsedAnswered(g, i, subject, times)
           IN  /\ m \in OneCard!GaugeStates(S) /\ m.hasTotal = g.hasTotal
               /\ GaugeFor(m, subject, times)
<1>1. /\ g.used \in OneCard!FieldStates(S) /\ g.total \in OneCard!FieldStates(S)
      /\ FieldFor(g.used, {subject}) /\ FieldFor(g.total, {subject})
      /\ FieldFor(g.series, {OneCard!Span(subject, times)})
  BY DEF OneCard!GaugeStates, GaugeFor
<1>2. PICK used : used = OneCard!Show(g.used, i)
  OBVIOUS
<1>3. used \in OneCard!FieldStates(S) /\ FieldFor(used, {subject})
  BY <1>1, <1>2, FieldAnswered
<1>4. PICK h : h = [g EXCEPT !.used = used]
  OBVIOUS
<1>5. /\ h \in OneCard!GaugeStates(S) /\ h.used = used
      /\ h.total = g.total /\ h.series = g.series /\ h.hasTotal = g.hasTotal
  BY <1>3, <1>4 DEF OneCard!GaugeStates
<1>6. OneCard!UsedAnswered(g, i, subject, times) =
         IF g.hasTotal THEN OneCard!AskTotal(h, subject) ELSE OneCard!PairDone(h, subject, times)
  BY <1>2, <1>4 DEF OneCard!UsedAnswered, OneCard!GaugeStates
<1>7. CASE g.hasTotal
  <2>1. PICK total : total = OneCard!Ask(g.total, subject)
    OBVIOUS
  <2>2. /\ total \in OneCard!FieldStates(S) /\ FieldFor(total, {subject})
        /\ total.newest = "out"
    BY <1>1, <2>1, FieldAsked
  <2>3. PICK m : m = [h EXCEPT !.total = total]
    OBVIOUS
  <2>4. m = OneCard!AskTotal(h, subject)
    BY <1>5, <2>1, <2>3 DEF OneCard!AskTotal, OneCard!Resolved, OneCard!GaugeStates
  <2>5. /\ m \in OneCard!GaugeStates(S) /\ m.used = used /\ m.total = total
        /\ m.series = g.series /\ m.hasTotal = g.hasTotal
    BY <1>5, <2>2, <2>3 DEF OneCard!GaugeStates
  <2>6. GaugeFor(m, subject, times)
    BY <1>1, <1>3, <2>2, <2>5 DEF GaugeFor
  <2>. QED
    BY <1>6, <1>7, <2>4, <2>5, <2>6
<1>8. CASE ~ g.hasTotal
  <2>1. /\ FieldFor(h.used, {subject}) /\ FieldFor(h.total, {subject})
        /\ FieldFor(h.series, {OneCard!Span(subject, times)})
    BY <1>1, <1>3, <1>5
  <2>2. PICK m : m = OneCard!PairDone(h, subject, times)
    OBVIOUS
  <2>3. m \in OneCard!GaugeStates(S) /\ m.hasTotal = h.hasTotal /\ GaugeFor(m, subject, times)
    BY <1>5, <2>1, <2>2, PairFinished
  <2>. QED
    BY <1>5, <1>6, <1>8, <2>2, <2>3
<1>. QED
  BY <1>7, <1>8

(* The total has come, is missing from its answer, or is zero.             *)
LEMMA TotalCame ==
    ASSUME NEW S, None \notin S, NEW g \in OneCard!GaugeStates(S), NEW subject \in S,
           NEW times \in Times \union {None}, GaugeFor(g, subject, times),
           NEW i \in DOMAIN g.total.flights,
           NEW m \in {OneCard!TotalAnswered(g, i, subject, times),
                      OneCard!TotalEmpty(g, i, subject, times),
                      OneCard!TotalZero(g, i, subject, times)}
    PROVE  /\ m \in OneCard!GaugeStates(S) /\ m.hasTotal = g.hasTotal
           /\ GaugeFor(m, subject, times)
<1>1. /\ g.total \in OneCard!FieldStates(S)
      /\ FieldFor(g.used, {subject}) /\ FieldFor(g.total, {subject})
      /\ FieldFor(g.series, {OneCard!Span(subject, times)})
  BY DEF OneCard!GaugeStates, GaugeFor
<1>2. ASSUME NEW total \in OneCard!FieldStates(S), FieldFor(total, {subject}),
             m = OneCard!PairDone([g EXCEPT !.total = total], subject, times)
      PROVE  /\ m \in OneCard!GaugeStates(S) /\ m.hasTotal = g.hasTotal
             /\ GaugeFor(m, subject, times)
  <2>1. PICK h : h = [g EXCEPT !.total = total]
    OBVIOUS
  <2>2. /\ h \in OneCard!GaugeStates(S) /\ h.total = total
        /\ h.used = g.used /\ h.series = g.series /\ h.hasTotal = g.hasTotal
    BY <2>1 DEF OneCard!GaugeStates
  <2>3. /\ FieldFor(h.used, {subject}) /\ FieldFor(h.total, {subject})
        /\ FieldFor(h.series, {OneCard!Span(subject, times)})
    BY <1>1, <1>2, <2>2
  <2>4. m = OneCard!PairDone(h, subject, times)
    BY <1>2, <2>1
  <2>5. m \in OneCard!GaugeStates(S) /\ m.hasTotal = h.hasTotal /\ GaugeFor(m, subject, times)
    BY <2>2, <2>3, <2>4, PairFinished
  <2>. QED
    BY <2>2, <2>5
<1>3. PICK shown, missed : shown = OneCard!Show(g.total, i) /\ missed = OneCard!Miss(g.total, i)
  OBVIOUS
<1>4. /\ shown \in OneCard!FieldStates(S) /\ FieldFor(shown, {subject})
      /\ missed \in OneCard!FieldStates(S) /\ FieldFor(missed, {subject})
  BY <1>1, <1>3, FieldAnswered
<1>5. PICK newest : newest = IF shown.newest = "shown" THEN "lost" ELSE shown.newest
  OBVIOUS
<1>6. PICK zero : zero = [shown EXCEPT !.of = None, !.newest = newest]
  OBVIOUS
<1>7. zero \in OneCard!FieldStates(S) /\ FieldFor(zero, {subject})
  BY <1>4, <1>5, <1>6 DEF OneCard!FieldStates, FieldFor
<1>8. CASE m = OneCard!TotalAnswered(g, i, subject, times)
  <2>1. m = OneCard!PairDone([g EXCEPT !.total = shown], subject, times)
    BY <1>3, <1>8 DEF OneCard!TotalAnswered, OneCard!GaugeStates
  <2>. QED
    BY <1>2, <1>4, <2>1
<1>9. CASE m = OneCard!TotalEmpty(g, i, subject, times)
  <2>1. m = OneCard!PairDone([g EXCEPT !.total = missed], subject, times)
    BY <1>3, <1>9 DEF OneCard!TotalEmpty, OneCard!GaugeStates
  <2>. QED
    BY <1>2, <1>4, <2>1
<1>10. CASE m = OneCard!TotalZero(g, i, subject, times)
  <2>1. [OneCard!Show(g.total, i) EXCEPT !.of = None, !.newest = IF @ = "shown" THEN "lost" ELSE @] = zero
    BY <1>3, <1>4, <1>5, <1>6 DEF OneCard!FieldStates
  <2>2. m = OneCard!PairDone([g EXCEPT !.total = zero], subject, times)
    BY <1>10, <2>1 DEF OneCard!TotalZero
  <2>. QED
    BY <1>2, <1>7, <2>2
<1>. QED
  BY <1>8, <1>9, <1>10

(* Whichever request of a gauge is settled.                                *)
LEMMA GaugeSettled ==
    ASSUME NEW S, None \notin S, NEW g \in OneCard!GaugeStates(S),
           NEW subject \in S \union {None}, NEW times \in Times \union {None},
           GaugeFor(g, subject, times), NEW ok,
           NEW m \in OneCard!GaugesAfter(g, subject, times, ok)
    PROVE  /\ m \in OneCard!GaugeStates(S) /\ m.hasTotal = g.hasTotal
           /\ GaugeFor(m, subject, times)
<1>1. ~ Untouched(g)
  BY UntouchedFor
<1>2. subject \in S
  BY <1>1 DEF GaugeFor
<1>3. /\ g.used \in OneCard!FieldStates(S) /\ g.total \in OneCard!FieldStates(S)
      /\ g.series \in OneCard!FieldStates(OneCard!SpansOf(S))
      /\ FieldFor(g.used, {subject}) /\ FieldFor(g.total, {subject})
      /\ FieldFor(g.series, {OneCard!Span(subject, times)})
  BY DEF OneCard!GaugeStates, GaugeFor
<1>4. ASSUME NEW i \in DOMAIN g.used.flights, m = OneCard!UsedAnswered(g, i, subject, times)
      PROVE  /\ m \in OneCard!GaugeStates(S) /\ m.hasTotal = g.hasTotal
             /\ GaugeFor(m, subject, times)
  BY <1>2, <1>4, UsedCame
<1>5. ASSUME NEW i \in DOMAIN g.total.flights,
             m \in {OneCard!TotalAnswered(g, i, subject, times),
                    OneCard!TotalEmpty(g, i, subject, times),
                    OneCard!TotalZero(g, i, subject, times)}
      PROVE  /\ m \in OneCard!GaugeStates(S) /\ m.hasTotal = g.hasTotal
             /\ GaugeFor(m, subject, times)
  BY <1>2, <1>5, TotalCame
<1>6. ASSUME NEW i \in DOMAIN g.series.flights,
             NEW series \in {OneCard!Show(g.series, i), OneCard!Miss(g.series, i)},
             m = [g EXCEPT !.series = series]
      PROVE  /\ m \in OneCard!GaugeStates(S) /\ m.hasTotal = g.hasTotal
             /\ GaugeFor(m, subject, times)
  <2>1. /\ series \in OneCard!FieldStates(OneCard!SpansOf(S))
        /\ FieldFor(series, {OneCard!Span(subject, times)})
    BY <1>3, FieldAnswered
  <2>2. /\ m \in OneCard!GaugeStates(S) /\ m.hasTotal = g.hasTotal /\ m.series = series
        /\ m.used = g.used /\ m.total = g.total /\ m.percent = g.percent
    BY <1>6, <2>1 DEF OneCard!GaugeStates
  <2>. QED
    BY <1>2, <2>1, <2>2 DEF GaugeFor
<1>7. ASSUME NEW i \in DOMAIN g.used.flights, m = [g EXCEPT !.used = OneCard!Miss(g.used, i)]
      PROVE  /\ m \in OneCard!GaugeStates(S) /\ m.hasTotal = g.hasTotal
             /\ GaugeFor(m, subject, times)
  <2>1. PICK used : used = OneCard!Miss(g.used, i)
    OBVIOUS
  <2>2. /\ used \in OneCard!FieldStates(S) /\ FieldFor(used, {subject})
        /\ used.of = g.used.of /\ (used.newest = "shown" => g.used.newest = "shown")
    BY <1>3, <2>1, FieldAnswered
  <2>3. /\ m \in OneCard!GaugeStates(S) /\ m.hasTotal = g.hasTotal /\ m.used = used
        /\ m.total = g.total /\ m.series = g.series /\ m.percent = g.percent
    BY <1>7, <2>1, <2>2 DEF OneCard!GaugeStates
  <2>. QED
    BY <1>2, <2>2, <2>3 DEF GaugeFor
<1>8. ASSUME NEW i \in DOMAIN g.total.flights, m = [g EXCEPT !.total = OneCard!Miss(g.total, i)]
      PROVE  /\ m \in OneCard!GaugeStates(S) /\ m.hasTotal = g.hasTotal
             /\ GaugeFor(m, subject, times)
  <2>1. PICK total : total = OneCard!Miss(g.total, i)
    OBVIOUS
  <2>2. /\ total \in OneCard!FieldStates(S) /\ FieldFor(total, {subject})
        /\ total.of = g.total.of /\ (total.newest = "shown" => g.total.newest = "shown")
    BY <1>3, <2>1, FieldAnswered
  <2>3. /\ m \in OneCard!GaugeStates(S) /\ m.hasTotal = g.hasTotal /\ m.total = total
        /\ m.used = g.used /\ m.series = g.series /\ m.percent = g.percent
    BY <1>8, <2>1, <2>2 DEF OneCard!GaugeStates
  <2>. QED
    BY <1>2, <2>2, <2>3 DEF GaugeFor
<1>9. CASE ok
  <2>1. \/ \E i \in DOMAIN g.used.flights : m = OneCard!UsedAnswered(g, i, subject, times)
        \/ \E i \in DOMAIN g.total.flights :
             m \in {OneCard!TotalAnswered(g, i, subject, times),
                    OneCard!TotalEmpty(g, i, subject, times),
                    OneCard!TotalZero(g, i, subject, times)}
        \/ \E i \in DOMAIN g.series.flights :
             m = [g EXCEPT !.series = OneCard!Show(g.series, i)]
    BY <1>9 DEF OneCard!GaugesAfter, OneCard!GaugeStates
  <2>. QED
    BY <1>4, <1>5, <1>6, <2>1
<1>10. CASE ~ ok
  <2>1. \/ \E i \in DOMAIN g.used.flights : m = [g EXCEPT !.used = OneCard!Miss(g.used, i)]
        \/ \E i \in DOMAIN g.total.flights : m = [g EXCEPT !.total = OneCard!Miss(g.total, i)]
        \/ \E i \in DOMAIN g.series.flights :
             m = [g EXCEPT !.series = OneCard!Miss(g.series, i)]
    BY <1>10 DEF OneCard!GaugesAfter
  <2>. QED
    BY <1>6, <1>7, <1>8, <2>1
<1>. QED
  BY <1>9, <1>10

-----------------------------------------------------------------------------
(* Fields and gauges of the other pages                                    *)

(* The page of a node has fields and gauges of its own, from an instance   *)
(* of ChartHooks that computes what that of the page of a card does.       *)
LEMMA SameOnNodes ==
    /\ OneNode!Empty = OneCard!Empty
    /\ \A subject, times : OneNode!Span(subject, times) = OneCard!Span(subject, times)
    /\ \A S : OneNode!FieldStates(S) = OneCard!FieldStates(S)
    /\ \A S : OneNode!SpansOf(S) = OneCard!SpansOf(S)
    /\ \A S : OneNode!GaugeStates(S) = OneCard!GaugeStates(S)
    /\ \A hasTotal : OneNode!Gauge(hasTotal) = OneCard!Gauge(hasTotal)
    /\ \A f, w : OneNode!Ask(f, w) = OneCard!Ask(f, w)
    /\ \A f, ok : OneNode!FieldsAfter(f, ok) = OneCard!FieldsAfter(f, ok)
    /\ \A g, subject : OneNode!FetchInstantData(g, subject) = OneCard!FetchInstantData(g, subject)
    /\ \A g, subject, times :
           OneNode!FetchRangeData(g, subject, times) = OneCard!FetchRangeData(g, subject, times)
    /\ \A g, subject, times, ok :
           OneNode!GaugesAfter(g, subject, times, ok) = OneCard!GaugesAfter(g, subject, times, ok)
<1>1. /\ OneNode!Empty = OneCard!Empty
      /\ \A subject, times : OneNode!Span(subject, times) = OneCard!Span(subject, times)
      /\ \A S : OneNode!FieldStates(S) = OneCard!FieldStates(S)
      /\ \A S : OneNode!SpansOf(S) = OneCard!SpansOf(S)
      /\ \A f, w : OneNode!Ask(f, w) = OneCard!Ask(f, w)
      /\ \A subject : OneNode!Resolved(subject) = OneCard!Resolved(subject)
      /\ \A s, i : OneNode!RemoveAt(s, i) = OneCard!RemoveAt(s, i)
      /\ \A f, i : OneNode!IsNewest(f, i) = OneCard!IsNewest(f, i)
      /\ \A g : OneNode!ComputePercent(g) = OneCard!ComputePercent(g)
  BY DEF OneNode!Empty, OneCard!Empty, OneNode!Span, OneCard!Span,
         OneNode!FieldStates, OneCard!FieldStates, OneNode!SpansOf, OneCard!SpansOf,
         OneNode!Ask, OneCard!Ask, OneNode!Resolved, OneCard!Resolved,
         OneNode!RemoveAt, OneCard!RemoveAt, OneNode!IsNewest, OneCard!IsNewest,
         OneNode!ComputePercent, OneCard!ComputePercent
<1>2. /\ \A S : OneNode!GaugeStates(S) = OneCard!GaugeStates(S)
      /\ \A hasTotal : OneNode!Gauge(hasTotal) = OneCard!Gauge(hasTotal)
  BY <1>1 DEF OneNode!GaugeStates, OneCard!GaugeStates, OneNode!Gauge, OneCard!Gauge
<1>3. /\ \A f, i : OneNode!Show(f, i) = OneCard!Show(f, i)
      /\ \A f, i : OneNode!Miss(f, i) = OneCard!Miss(f, i)
  BY <1>1 DEF OneNode!Show, OneCard!Show, OneNode!Miss, OneCard!Miss
<1>4. \A f, ok : OneNode!FieldsAfter(f, ok) = OneCard!FieldsAfter(f, ok)
  BY <1>3 DEF OneNode!FieldsAfter, OneCard!FieldsAfter
<1>5. ASSUME NEW g, NEW subject, NEW times
      PROVE  /\ OneNode!FetchInstantData(g, subject) = OneCard!FetchInstantData(g, subject)
             /\ OneNode!AskTotal(g, subject) = OneCard!AskTotal(g, subject)
             /\ OneNode!AskSeries(g, subject, times) = OneCard!AskSeries(g, subject, times)
  <2>1. OneNode!FetchInstantData(g, subject) = OneCard!FetchInstantData(g, subject)
    <3>1. /\ OneNode!Ask(g.used, subject) = OneCard!Ask(g.used, subject)
          /\ OneNode!Resolved(subject) = OneCard!Resolved(subject)
      BY <1>1
    <3>. QED
      BY <3>1 DEF OneNode!FetchInstantData, OneCard!FetchInstantData
  <2>2. OneNode!AskTotal(g, subject) = OneCard!AskTotal(g, subject)
    <3>1. /\ OneNode!Ask(g.total, subject) = OneCard!Ask(g.total, subject)
          /\ OneNode!Resolved(subject) = OneCard!Resolved(subject)
      BY <1>1
    <3>. QED
      BY <3>1 DEF OneNode!AskTotal, OneCard!AskTotal
  <2>3. OneNode!AskSeries(g, subject, times) = OneCard!AskSeries(g, subject, times)
    <3>1. /\ OneNode!Ask(g.series, OneNode!Span(subject, times))
               = OneCard!Ask(g.series, OneCard!Span(subject, times))
          /\ OneNode!Resolved(subject) = OneCard!Resolved(subject)
      BY <1>1
    <3>. QED
      BY <3>1 DEF OneNode!AskSeries, OneCard!AskSeries
  <2>. QED
    BY <2>1, <2>2, <2>3
<1>6. /\ \A g, subject, times :
             OneNode!FetchRangeData(g, subject, times) = OneCard!FetchRangeData(g, subject, times)
      /\ \A g, subject, times :
             OneNode!PairDone(g, subject, times) = OneCard!PairDone(g, subject, times)
  BY <1>1, <1>5 DEF OneNode!FetchRangeData, OneCard!FetchRangeData, OneNode!PairDone,
     OneCard!PairDone
<1>7. /\ \A g, i, subject, times :
             OneNode!UsedAnswered(g, i, subject, times) = OneCard!UsedAnswered(g, i, subject, times)
      /\ \A g, i, subject, times :
             OneNode!TotalAnswered(g, i, subject, times)
               = OneCard!TotalAnswered(g, i, subject, times)
      /\ \A g, i, subject, times :
             OneNode!TotalEmpty(g, i, subject, times) = OneCard!TotalEmpty(g, i, subject, times)
      /\ \A g, i, subject, times :
             OneNode!TotalZero(g, i, subject, times) = OneCard!TotalZero(g, i, subject, times)
  BY <1>3, <1>5, <1>6
     DEF OneNode!UsedAnswered, OneCard!UsedAnswered, OneNode!TotalAnswered, OneCard!TotalAnswered,
         OneNode!TotalEmpty, OneCard!TotalEmpty, OneNode!TotalZero, OneCard!TotalZero
<1>8. ASSUME NEW g, NEW subject, NEW times, NEW ok
      PROVE  OneNode!GaugesAfter(g, subject, times, ok) = OneCard!GaugesAfter(g, subject, times, ok)
  <2>1. {OneNode!UsedAnswered(g, i, subject, times) : i \in DOMAIN g.used.flights}
          = {OneCard!UsedAnswered(g, i, subject, times) : i \in DOMAIN g.used.flights}
    BY <1>7
  <2>2. (UNION {{OneNode!TotalAnswered(g, i, subject, times),
                   OneNode!TotalEmpty(g, i, subject, times),
                   OneNode!TotalZero(g, i, subject, times)} : i \in DOMAIN g.total.flights})
          = (UNION {{OneCard!TotalAnswered(g, i, subject, times),
                       OneCard!TotalEmpty(g, i, subject, times),
                       OneCard!TotalZero(g, i, subject, times)} : i \in DOMAIN g.total.flights})
    BY <1>7
  <2>3. {[g EXCEPT !.series = OneNode!Show(g.series, i)] : i \in DOMAIN g.series.flights}
          = {[g EXCEPT !.series = OneCard!Show(g.series, i)] : i \in DOMAIN g.series.flights}
    BY <1>3
  <2>4. {[g EXCEPT !.used = OneNode!Miss(g.used, i)] : i \in DOMAIN g.used.flights}
          = {[g EXCEPT !.used = OneCard!Miss(g.used, i)] : i \in DOMAIN g.used.flights}
    BY <1>3
  <2>5. {[g EXCEPT !.total = OneNode!Miss(g.total, i)] : i \in DOMAIN g.total.flights}
          = {[g EXCEPT !.total = OneCard!Miss(g.total, i)] : i \in DOMAIN g.total.flights}
    BY <1>3
  <2>6. {[g EXCEPT !.series = OneNode!Miss(g.series, i)] : i \in DOMAIN g.series.flights}
          = {[g EXCEPT !.series = OneCard!Miss(g.series, i)] : i \in DOMAIN g.series.flights}
    BY <1>3
  <2>. QED
    BY <2>1, <2>2, <2>3, <2>4, <2>5, <2>6 DEF OneNode!GaugesAfter, OneCard!GaugesAfter
<1>. QED
  BY <1>1, <1>2, <1>4, <1>5, <1>6, <1>8

(* So does the page of a workload.                                         *)
LEMMA SameOnTasks ==
    /\ OneTask!Empty = OneCard!Empty
    /\ \A subject, times : OneTask!Span(subject, times) = OneCard!Span(subject, times)
    /\ \A S : OneTask!FieldStates(S) = OneCard!FieldStates(S)
    /\ \A S : OneTask!SpansOf(S) = OneCard!SpansOf(S)
    /\ \A S : OneTask!GaugeStates(S) = OneCard!GaugeStates(S)
    /\ \A hasTotal : OneTask!Gauge(hasTotal) = OneCard!Gauge(hasTotal)
    /\ \A f, w : OneTask!Ask(f, w) = OneCard!Ask(f, w)
    /\ \A f, ok : OneTask!FieldsAfter(f, ok) = OneCard!FieldsAfter(f, ok)
    /\ \A g, subject : OneTask!FetchInstantData(g, subject) = OneCard!FetchInstantData(g, subject)
    /\ \A g, subject, times :
           OneTask!FetchRangeData(g, subject, times) = OneCard!FetchRangeData(g, subject, times)
    /\ \A g, subject, times, ok :
           OneTask!GaugesAfter(g, subject, times, ok) = OneCard!GaugesAfter(g, subject, times, ok)
<1>1. /\ OneTask!Empty = OneCard!Empty
      /\ \A subject, times : OneTask!Span(subject, times) = OneCard!Span(subject, times)
      /\ \A S : OneTask!FieldStates(S) = OneCard!FieldStates(S)
      /\ \A S : OneTask!SpansOf(S) = OneCard!SpansOf(S)
      /\ \A f, w : OneTask!Ask(f, w) = OneCard!Ask(f, w)
      /\ \A subject : OneTask!Resolved(subject) = OneCard!Resolved(subject)
      /\ \A s, i : OneTask!RemoveAt(s, i) = OneCard!RemoveAt(s, i)
      /\ \A f, i : OneTask!IsNewest(f, i) = OneCard!IsNewest(f, i)
      /\ \A g : OneTask!ComputePercent(g) = OneCard!ComputePercent(g)
  BY DEF OneTask!Empty, OneCard!Empty, OneTask!Span, OneCard!Span,
         OneTask!FieldStates, OneCard!FieldStates, OneTask!SpansOf, OneCard!SpansOf,
         OneTask!Ask, OneCard!Ask, OneTask!Resolved, OneCard!Resolved,
         OneTask!RemoveAt, OneCard!RemoveAt, OneTask!IsNewest, OneCard!IsNewest,
         OneTask!ComputePercent, OneCard!ComputePercent
<1>2. /\ \A S : OneTask!GaugeStates(S) = OneCard!GaugeStates(S)
      /\ \A hasTotal : OneTask!Gauge(hasTotal) = OneCard!Gauge(hasTotal)
  BY <1>1 DEF OneTask!GaugeStates, OneCard!GaugeStates, OneTask!Gauge, OneCard!Gauge
<1>3. /\ \A f, i : OneTask!Show(f, i) = OneCard!Show(f, i)
      /\ \A f, i : OneTask!Miss(f, i) = OneCard!Miss(f, i)
  BY <1>1 DEF OneTask!Show, OneCard!Show, OneTask!Miss, OneCard!Miss
<1>4. \A f, ok : OneTask!FieldsAfter(f, ok) = OneCard!FieldsAfter(f, ok)
  BY <1>3 DEF OneTask!FieldsAfter, OneCard!FieldsAfter
<1>5. ASSUME NEW g, NEW subject, NEW times
      PROVE  /\ OneTask!FetchInstantData(g, subject) = OneCard!FetchInstantData(g, subject)
             /\ OneTask!AskTotal(g, subject) = OneCard!AskTotal(g, subject)
             /\ OneTask!AskSeries(g, subject, times) = OneCard!AskSeries(g, subject, times)
  <2>1. OneTask!FetchInstantData(g, subject) = OneCard!FetchInstantData(g, subject)
    <3>1. /\ OneTask!Ask(g.used, subject) = OneCard!Ask(g.used, subject)
          /\ OneTask!Resolved(subject) = OneCard!Resolved(subject)
      BY <1>1
    <3>. QED
      BY <3>1 DEF OneTask!FetchInstantData, OneCard!FetchInstantData
  <2>2. OneTask!AskTotal(g, subject) = OneCard!AskTotal(g, subject)
    <3>1. /\ OneTask!Ask(g.total, subject) = OneCard!Ask(g.total, subject)
          /\ OneTask!Resolved(subject) = OneCard!Resolved(subject)
      BY <1>1
    <3>. QED
      BY <3>1 DEF OneTask!AskTotal, OneCard!AskTotal
  <2>3. OneTask!AskSeries(g, subject, times) = OneCard!AskSeries(g, subject, times)
    <3>1. /\ OneTask!Ask(g.series, OneTask!Span(subject, times))
               = OneCard!Ask(g.series, OneCard!Span(subject, times))
          /\ OneTask!Resolved(subject) = OneCard!Resolved(subject)
      BY <1>1
    <3>. QED
      BY <3>1 DEF OneTask!AskSeries, OneCard!AskSeries
  <2>. QED
    BY <2>1, <2>2, <2>3
<1>6. /\ \A g, subject, times :
             OneTask!FetchRangeData(g, subject, times) = OneCard!FetchRangeData(g, subject, times)
      /\ \A g, subject, times :
             OneTask!PairDone(g, subject, times) = OneCard!PairDone(g, subject, times)
  BY <1>1, <1>5 DEF OneTask!FetchRangeData, OneCard!FetchRangeData, OneTask!PairDone,
     OneCard!PairDone
<1>7. /\ \A g, i, subject, times :
             OneTask!UsedAnswered(g, i, subject, times) = OneCard!UsedAnswered(g, i, subject, times)
      /\ \A g, i, subject, times :
             OneTask!TotalAnswered(g, i, subject, times)
               = OneCard!TotalAnswered(g, i, subject, times)
      /\ \A g, i, subject, times :
             OneTask!TotalEmpty(g, i, subject, times) = OneCard!TotalEmpty(g, i, subject, times)
      /\ \A g, i, subject, times :
             OneTask!TotalZero(g, i, subject, times) = OneCard!TotalZero(g, i, subject, times)
  BY <1>3, <1>5, <1>6
     DEF OneTask!UsedAnswered, OneCard!UsedAnswered, OneTask!TotalAnswered, OneCard!TotalAnswered,
         OneTask!TotalEmpty, OneCard!TotalEmpty, OneTask!TotalZero, OneCard!TotalZero
<1>8. ASSUME NEW g, NEW subject, NEW times, NEW ok
      PROVE  OneTask!GaugesAfter(g, subject, times, ok) = OneCard!GaugesAfter(g, subject, times, ok)
  <2>1. {OneTask!UsedAnswered(g, i, subject, times) : i \in DOMAIN g.used.flights}
          = {OneCard!UsedAnswered(g, i, subject, times) : i \in DOMAIN g.used.flights}
    BY <1>7
  <2>2. (UNION {{OneTask!TotalAnswered(g, i, subject, times),
                   OneTask!TotalEmpty(g, i, subject, times),
                   OneTask!TotalZero(g, i, subject, times)} : i \in DOMAIN g.total.flights})
          = (UNION {{OneCard!TotalAnswered(g, i, subject, times),
                       OneCard!TotalEmpty(g, i, subject, times),
                       OneCard!TotalZero(g, i, subject, times)} : i \in DOMAIN g.total.flights})
    BY <1>7
  <2>3. {[g EXCEPT !.series = OneTask!Show(g.series, i)] : i \in DOMAIN g.series.flights}
          = {[g EXCEPT !.series = OneCard!Show(g.series, i)] : i \in DOMAIN g.series.flights}
    BY <1>3
  <2>4. {[g EXCEPT !.used = OneTask!Miss(g.used, i)] : i \in DOMAIN g.used.flights}
          = {[g EXCEPT !.used = OneCard!Miss(g.used, i)] : i \in DOMAIN g.used.flights}
    BY <1>3
  <2>5. {[g EXCEPT !.total = OneTask!Miss(g.total, i)] : i \in DOMAIN g.total.flights}
          = {[g EXCEPT !.total = OneCard!Miss(g.total, i)] : i \in DOMAIN g.total.flights}
    BY <1>3
  <2>6. {[g EXCEPT !.series = OneTask!Miss(g.series, i)] : i \in DOMAIN g.series.flights}
          = {[g EXCEPT !.series = OneCard!Miss(g.series, i)] : i \in DOMAIN g.series.flights}
    BY <1>3
  <2>. QED
    BY <2>1, <2>2, <2>3, <2>4, <2>5, <2>6 DEF OneTask!GaugesAfter, OneCard!GaugesAfter
<1>. QED
  BY <1>1, <1>2, <1>4, <1>5, <1>6, <1>8

(* So does the overview.                                                   *)
LEMMA SameOnOverview ==
    /\ Landing!Empty = OneCard!Empty
    /\ \A subject, times : Landing!Span(subject, times) = OneCard!Span(subject, times)
    /\ \A S : Landing!FieldStates(S) = OneCard!FieldStates(S)
    /\ \A S : Landing!SpansOf(S) = OneCard!SpansOf(S)
    /\ \A S : Landing!GaugeStates(S) = OneCard!GaugeStates(S)
    /\ \A hasTotal : Landing!Gauge(hasTotal) = OneCard!Gauge(hasTotal)
    /\ \A f, w : Landing!Ask(f, w) = OneCard!Ask(f, w)
    /\ \A f, ok : Landing!FieldsAfter(f, ok) = OneCard!FieldsAfter(f, ok)
    /\ \A g, subject : Landing!FetchInstantData(g, subject) = OneCard!FetchInstantData(g, subject)
    /\ \A g, subject, times :
           Landing!FetchRangeData(g, subject, times) = OneCard!FetchRangeData(g, subject, times)
    /\ \A g, subject, times, ok :
           Landing!GaugesAfter(g, subject, times, ok) = OneCard!GaugesAfter(g, subject, times, ok)
<1>1. /\ Landing!Empty = OneCard!Empty
      /\ \A subject, times : Landing!Span(subject, times) = OneCard!Span(subject, times)
      /\ \A S : Landing!FieldStates(S) = OneCard!FieldStates(S)
      /\ \A S : Landing!SpansOf(S) = OneCard!SpansOf(S)
      /\ \A f, w : Landing!Ask(f, w) = OneCard!Ask(f, w)
      /\ \A subject : Landing!Resolved(subject) = OneCard!Resolved(subject)
      /\ \A s, i : Landing!RemoveAt(s, i) = OneCard!RemoveAt(s, i)
      /\ \A f, i : Landing!IsNewest(f, i) = OneCard!IsNewest(f, i)
      /\ \A g : Landing!ComputePercent(g) = OneCard!ComputePercent(g)
  BY DEF Landing!Empty, OneCard!Empty, Landing!Span, OneCard!Span,
         Landing!FieldStates, OneCard!FieldStates, Landing!SpansOf, OneCard!SpansOf,
         Landing!Ask, OneCard!Ask, Landing!Resolved, OneCard!Resolved,
         Landing!RemoveAt, OneCard!RemoveAt, Landing!IsNewest, OneCard!IsNewest,
         Landing!ComputePercent, OneCard!ComputePercent
<1>2. /\ \A S : Landing!GaugeStates(S) = OneCard!GaugeStates(S)
      /\ \A hasTotal : Landing!Gauge(hasTotal) = OneCard!Gauge(hasTotal)
  BY <1>1 DEF Landing!GaugeStates, OneCard!GaugeStates, Landing!Gauge, OneCard!Gauge
<1>3. /\ \A f, i : Landing!Show(f, i) = OneCard!Show(f, i)
      /\ \A f, i : Landing!Miss(f, i) = OneCard!Miss(f, i)
  BY <1>1 DEF Landing!Show, OneCard!Show, Landing!Miss, OneCard!Miss
<1>4. \A f, ok : Landing!FieldsAfter(f, ok) = OneCard!FieldsAfter(f, ok)
  BY <1>3 DEF Landing!FieldsAfter, OneCard!FieldsAfter
<1>5. ASSUME NEW g, NEW subject, NEW times
      PROVE  /\ Landing!FetchInstantData(g, subject) = OneCard!FetchInstantData(g, subject)
             /\ Landing!AskTotal(g, subject) = OneCard!AskTotal(g, subject)
             /\ Landing!AskSeries(g, subject, times) = OneCard!AskSeries(g, subject, times)
  <2>1. Landing!FetchInstantData(g, subject) = OneCard!FetchInstantData(g, subject)
    <3>1. /\ Landing!Ask(g.used, subject) = OneCard!Ask(g.used, subject)
          /\ Landing!Resolved(subject) = OneCard!Resolved(subject)
      BY <1>1
    <3>. QED
      BY <3>1 DEF Landing!FetchInstantData, OneCard!FetchInstantData
  <2>2. Landing!AskTotal(g, subject) = OneCard!AskTotal(g, subject)
    <3>1. /\ Landing!Ask(g.total, subject) = OneCard!Ask(g.total, subject)
          /\ Landing!Resolved(subject) = OneCard!Resolved(subject)
      BY <1>1
    <3>. QED
      BY <3>1 DEF Landing!AskTotal, OneCard!AskTotal
  <2>3. Landing!AskSeries(g, subject, times) = OneCard!AskSeries(g, subject, times)
    <3>1. /\ Landing!Ask(g.series, Landing!Span(subject, times))
               = OneCard!Ask(g.series, OneCard!Span(subject, times))
          /\ Landing!Resolved(subject) = OneCard!Resolved(subject)
      BY <1>1
    <3>. QED
      BY <3>1 DEF Landing!AskSeries, OneCard!AskSeries
  <2>. QED
    BY <2>1, <2>2, <2>3
<1>6. /\ \A g, subject, times :
             Landing!FetchRangeData(g, subject, times) = OneCard!FetchRangeData(g, subject, times)
      /\ \A g, subject, times :
             Landing!PairDone(g, subject, times) = OneCard!PairDone(g, subject, times)
  BY <1>1, <1>5 DEF Landing!FetchRangeData, OneCard!FetchRangeData, Landing!PairDone,
     OneCard!PairDone
<1>7. /\ \A g, i, subject, times :
             Landing!UsedAnswered(g, i, subject, times) = OneCard!UsedAnswered(g, i, subject, times)
      /\ \A g, i, subject, times :
             Landing!TotalAnswered(g, i, subject, times)
               = OneCard!TotalAnswered(g, i, subject, times)
      /\ \A g, i, subject, times :
             Landing!TotalEmpty(g, i, subject, times) = OneCard!TotalEmpty(g, i, subject, times)
      /\ \A g, i, subject, times :
             Landing!TotalZero(g, i, subject, times) = OneCard!TotalZero(g, i, subject, times)
  BY <1>3, <1>5, <1>6
     DEF Landing!UsedAnswered, OneCard!UsedAnswered, Landing!TotalAnswered, OneCard!TotalAnswered,
         Landing!TotalEmpty, OneCard!TotalEmpty, Landing!TotalZero, OneCard!TotalZero
<1>8. ASSUME NEW g, NEW subject, NEW times, NEW ok
      PROVE  Landing!GaugesAfter(g, subject, times, ok) = OneCard!GaugesAfter(g, subject, times, ok)
  <2>1. {Landing!UsedAnswered(g, i, subject, times) : i \in DOMAIN g.used.flights}
          = {OneCard!UsedAnswered(g, i, subject, times) : i \in DOMAIN g.used.flights}
    BY <1>7
  <2>2. (UNION {{Landing!TotalAnswered(g, i, subject, times),
                   Landing!TotalEmpty(g, i, subject, times),
                   Landing!TotalZero(g, i, subject, times)} : i \in DOMAIN g.total.flights})
          = (UNION {{OneCard!TotalAnswered(g, i, subject, times),
                       OneCard!TotalEmpty(g, i, subject, times),
                       OneCard!TotalZero(g, i, subject, times)} : i \in DOMAIN g.total.flights})
    BY <1>7
  <2>3. {[g EXCEPT !.series = Landing!Show(g.series, i)] : i \in DOMAIN g.series.flights}
          = {[g EXCEPT !.series = OneCard!Show(g.series, i)] : i \in DOMAIN g.series.flights}
    BY <1>3
  <2>4. {[g EXCEPT !.used = Landing!Miss(g.used, i)] : i \in DOMAIN g.used.flights}
          = {[g EXCEPT !.used = OneCard!Miss(g.used, i)] : i \in DOMAIN g.used.flights}
    BY <1>3
  <2>5. {[g EXCEPT !.total = Landing!Miss(g.total, i)] : i \in DOMAIN g.total.flights}
          = {[g EXCEPT !.total = OneCard!Miss(g.total, i)] : i \in DOMAIN g.total.flights}
    BY <1>3
  <2>6. {[g EXCEPT !.series = Landing!Miss(g.series, i)] : i \in DOMAIN g.series.flights}
          = {[g EXCEPT !.series = OneCard!Miss(g.series, i)] : i \in DOMAIN g.series.flights}
    BY <1>3
  <2>. QED
    BY <2>1, <2>2, <2>3, <2>4, <2>5, <2>6 DEF Landing!GaugesAfter, OneCard!GaugesAfter
<1>. QED
  BY <1>1, <1>2, <1>4, <1>5, <1>6, <1>8

-----------------------------------------------------------------------------
(* What a step of the console does to the route and to the detail pages    *)

(* What is assumed of the objects of the cluster.                          *)
LEMMA Named ==
    /\ None \notin Nodes /\ None \notin Cards /\ None \notin Tasks
    /\ NoName \notin Tasks /\ NoName \notin Cards /\ NoName # None
    /\ \A c \in Cards : NodeOf[c] \in Nodes
    /\ \A t \in Tasks : CardsOf[t] \subseteq Cards /\ CardsOf[t] # {}
    /\ Opened \subseteq Cards /\ LookedUp \subseteq Nodes
<1>1. None \notin Presets \union Customs \union Nodes \union Cards \union Tasks
  BY ConsoleAssumption, Zenon
<1>2. NoName \notin Tasks \union Cards \union {None}
  BY ConsoleAssumption, Zenon
<1>3. \A c \in Cards : NodeOf[c] \in Nodes
  BY ConsoleAssumption, Zenon
<1>4. \A t \in Tasks : CardsOf[t] \subseteq Cards /\ CardsOf[t] # {}
  BY ConsoleAssumption, Zenon
<1>5. Opened \subseteq Cards /\ LookedUp \subseteq Nodes
  BY ConsoleAssumption, Zenon
<1>. QED
  BY <1>1, <1>2, <1>3, <1>4, <1>5

(* The route is that of a page, or none.                                   *)
RouteInv == route \in [page : Pages \union {None}, of : {route.of}]

(* The pages the route leads to, the page that is reused, and what happens *)
(* on a page.                                                              *)
LEMMA ConsoleSteps ==
    ASSUME ranks.clicked \subseteq Nodes, [Next]_vars
    PROVE  \/ UNCHANGED <<route, Views, ranks>>
           \/ \E page \in Pages, clicked \in SUBSET Nodes :
                \E of \in Carries[page], followed \in Parts(page) :
                  MountPage(page, of, followed, clicked)
           \/ \E of \in Carries[route.page], clicked \in SUBSET Nodes :
                ReusePage(of, clicked)
           \/ Leave
           \/ OnCardList(CardPage!UserStep \/ CardPage!NetworkStep)
           \/ OnNodeList(NodePage!UserStep \/ NodePage!NetworkStep)
           \/ OnTaskList(TaskPage!UserStep \/ TaskPage!NetworkStep)
           \/ OnCardDetail(OneCard!UserStep \/ OneCard!Echo \/ OneCard!NetworkStep)
           \/ OnNodeDetail(OneNode!UserStep \/ OneNode!Echo \/ OneNode!NetworkStep)
           \/ OnTaskDetail(OneTask!UserStep \/ OneTask!Echo \/ OneTask!NetworkStep)
           \/ OnOverview(Landing!UserStep \/ Landing!Echo \/ Landing!NetworkStep)
           \/ OnRanks(Ranking!UserStep \/ Ranking!NetworkStep)
           \/ \E name \in Nodes :
                OnRanks(Ranking!ClickNode(name) \/ Ranking!NotFound(name))
           \/ Translate
<1>1. CASE UNCHANGED vars
  BY <1>1 DEF vars, Views
<1>2. CASE Open
  BY <1>2 DEF Open
<1>3. CASE Turn
  BY <1>3 DEF Turn
<1>4. CASE UsePage
  BY <1>4 DEF UsePage, OnCardList, OnNodeList, OnTaskList, OnCardDetail, OnNodeDetail,
              OnTaskDetail, OnOverview, OnRanks
<1>5. CASE ClickRank
  <2>1. LookedUp \subseteq Nodes
    BY Named
  <2>2. {"card", "task"} \subseteq Pages
    BY DEF Pages, Carries
  <2>. QED
    BY <1>5, <2>1, <2>2 DEF ClickRank, OnRanks
<1>6. CASE Echo
  BY <1>6 DEF Echo, OnCardDetail, OnNodeDetail, OnTaskDetail, OnOverview
<1>7. CASE Answer
  BY <1>7 DEF Answer, OnCardList, OnNodeList, OnTaskList, OnCardDetail, OnNodeDetail,
              OnTaskDetail, OnOverview, OnRanks
<1>8. ASSUME NEW name \in ranks.clicked, LookupAnswered(name)
      PROVE  \/ \E page \in Pages, clicked \in SUBSET Nodes :
                  \E of \in Carries[page], followed \in Parts(page) :
                    MountPage(page, of, followed, clicked)
             \/ \E of \in Carries[route.page], clicked \in SUBSET Nodes :
                  ReusePage(of, clicked)
             \/ OnRanks(Ranking!ClickNode(name) \/ Ranking!NotFound(name))
  <2>1. name \in Nodes /\ ranks.clicked \ {name} \in SUBSET Nodes
    BY <1>8
  <2>2. "node" \in Pages /\ Carries["node"] = Nodes
    BY DEF Pages, Carries
  <2>3. CASE \E followed \in Parts("node") :
               MountPage("node", name, followed, ranks.clicked \ {name})
    BY <2>1, <2>2, <2>3
  <2>4. CASE route.page = "node" /\ ReusePage(name, ranks.clicked \ {name})
    BY <2>1, <2>2, <2>4
  <2>5. CASE OnRanks(Ranking!NotFound(name))
    BY <2>5 DEF OnRanks
  <2>. QED
    BY <1>8, <2>3, <2>4, <2>5 DEF LookupAnswered
<1>. QED
  BY <1>1, <1>2, <1>3, <1>4, <1>5, <1>6, <1>7, <1>8 DEF Next, User, Network

-----------------------------------------------------------------------------
(* The page of a card                                                      *)

(* What a step of the console does to it.                                  *)
LEMMA CardDetailSteps ==
    ASSUME RouteInv, cardDetail # None => route.page = "card",
           ranks.clicked \subseteq Nodes, [Next]_vars, cardDetail' # None
    PROVE  \/ UNCHANGED <<route, cardDetail>>
           \/ \E uuid \in Cards, panel \in OneCard!Panels :
                /\ OneCard!Mount(uuid, panel)
                /\ route' = [page |-> "card", of |-> uuid]
           \/ \E uuid \in Cards :
                /\ route.page = "card" /\ OneCard!WatchRoute(uuid)
                /\ route' = [page |-> "card", of |-> uuid]
           \/ /\ OneCard!UserStep \/ OneCard!Echo \/ OneCard!NetworkStep
              /\ UNCHANGED route
<1>1. Carries["card"] \subseteq Cards /\ Parts("card") = OneCard!Panels
  BY Named DEF Carries, Parts
<1>2. ASSUME NEW page, NEW of \in Carries[page], NEW followed \in Parts(page), NEW clicked,
             MountPage(page, of, followed, clicked)
      PROVE  \E uuid \in Cards, panel \in OneCard!Panels :
                /\ OneCard!Mount(uuid, panel)
                /\ route' = [page |-> "card", of |-> uuid]
  <2>1. page = "card"
    BY <1>2 DEF MountPage, OneCard!Unmount
  <2>. QED
    BY <1>1, <1>2, <2>1 DEF MountPage
<1>3. ASSUME NEW of \in Carries[route.page], NEW clicked, ReusePage(of, clicked)
      PROVE  \E uuid \in Cards :
                /\ route.page = "card" /\ OneCard!WatchRoute(uuid)
                /\ route' = [page |-> "card", of |-> uuid]
  <2>1. route.page = "card" /\ OneCard!WatchRoute(of)
    BY <1>3 DEF ReusePage
  <2>2. route' = [page |-> "card", of |-> of]
    BY <1>3, <2>1 DEF ReusePage, RouteInv
  <2>. QED
    BY <1>1, <2>1, <2>2
<1>4. CASE Leave
  BY <1>4 DEF Leave, OneCard!Unmount
<1>5. CASE Translate
  BY <1>5 DEF Translate
<1>. QED
  BY <1>2, <1>3, <1>4, <1>5, ConsoleSteps
     DEF Views, OnCardList, OnNodeList, OnTaskList, OnCardDetail, OnNodeDetail,
         OnTaskDetail, OnOverview, OnRanks

(* What is known of the card: the record and what followed from it.  A     *)
(* page that was not reused knows of one card only.                        *)
CardAbout(d) ==
    /\ d.asked # None => d.detail = None /\ d.nodeUid = None /\ d.lookup = None
    /\ d.nodeUid # None => OneCard!Filled(d) /\ d.nodeUid = NodeOf[d.detail]
    /\ d.lookup # None => OneCard!Filled(d) /\ d.lookup = NodeOf[d.detail]
    /\ ~ d.reused =>
         /\ d.detail \in {None, NoName, d.uuid}
         /\ {d.asked, d.deviceNo} \subseteq {None, d.uuid}
         /\ d.line \in OneCard!FieldStates(OneCard!SpansOf({d.uuid}))
         /\ d.reading \in OneCard!FieldStates({d.uuid})

(* The gauge is about the card of the route, the charts are over the range *)
(* of the page.                                                            *)
CardCharts(d) ==
    /\ GaugeFor(d.gauge, d.uuid, d.times)
    /\ ~ OneCard!HasGauge(d) => Untouched(d.gauge)
    /\ FieldFor(d.line, [of : Cards, times : {d.times}])
    /\ d.panel # "trend" => d.line = OneCard!Empty

(* The readings and the charts ask; nothing else changes.                  *)
LEMMA CardLinesFetched ==
    ASSUME NEW d \in OneCard!States, CardAbout(d), d.panel # "trend" => d.line = OneCard!Empty
    PROVE  LET m == OneCard!FetchLineData(d)
           IN  /\ m \in OneCard!States /\ CardAbout(m)
               /\ m.uuid = d.uuid /\ m.panel = d.panel /\ m.times = d.times /\ m.gauge = d.gauge
               /\ FieldFor(m.line, [of : Cards, times : {d.times}])
               /\ d.panel # "trend" => m.line = OneCard!Empty
<1>1. /\ d.uuid \in Cards /\ d.times \in Times /\ d.reading \in OneCard!FieldStates(Cards)
      /\ d.line \in OneCard!FieldStates(OneCard!SpansOf(Cards))
  BY DEF OneCard!States, Times
<1>2. FieldFor(OneCard!Empty, [of : Cards, times : {d.times}])
  BY DEF OneCard!Empty, FieldFor
<1>3. CASE d.panel = "trend"
  <2>1. PICK span : span = OneCard!Span(d.uuid, d.times)
    OBVIOUS
  <2>2. /\ span \in OneCard!SpansOf(Cards) /\ span \in OneCard!SpansOf({d.uuid})
        /\ span \in [of : Cards, times : {d.times}]
    BY <1>1, <2>1 DEF OneCard!Span, OneCard!SpansOf, Times
  <2>3. PICK line : line = OneCard!Ask(d.line, span)
    OBVIOUS
  <2>4. /\ line \in OneCard!FieldStates(OneCard!SpansOf(Cards)) /\ FieldFor(line, {span})
        /\ ~ d.reused => line \in OneCard!FieldStates(OneCard!SpansOf({d.uuid}))
    BY <1>1, <2>2, <2>3, FieldAsked DEF CardAbout, OneCard!Filled
  <2>5. PICK m : m = [d EXCEPT !.line = line]
    OBVIOUS
  <2>6. m = OneCard!FetchLineData(d)
    BY <1>3, <2>1, <2>3, <2>5 DEF OneCard!FetchLineData, OneCard!States
  <2>7. /\ m \in OneCard!States /\ m.line = line
        /\ m.uuid = d.uuid /\ m.panel = d.panel /\ m.times = d.times /\ m.gauge = d.gauge
        /\ m.asked = d.asked /\ m.detail = d.detail /\ m.nodeUid = d.nodeUid
        /\ m.lookup = d.lookup /\ m.deviceNo = d.deviceNo /\ m.reused = d.reused
        /\ m.reading = d.reading
    BY <2>4, <2>5 DEF OneCard!States
  <2>8. FieldFor(m.line, [of : Cards, times : {d.times}])
    BY <2>2, <2>4, <2>7 DEF FieldFor
  <2>9. CardAbout(m)
    BY <2>4, <2>7 DEF CardAbout, OneCard!Filled
  <2>. QED
    BY <1>3, <2>6, <2>7, <2>8, <2>9
<1>4. CASE d.panel = "reading"
  <2>1. PICK reading : reading = OneCard!Ask(d.reading, d.uuid)
    OBVIOUS
  <2>2. /\ reading \in OneCard!FieldStates(Cards)
        /\ ~ d.reused => reading \in OneCard!FieldStates({d.uuid})
    BY <1>1, <2>1, FieldAsked DEF CardAbout, OneCard!Filled
  <2>3. PICK m : m = [d EXCEPT !.reading = reading]
    OBVIOUS
  <2>4. m = OneCard!FetchLineData(d)
    BY <1>4, <2>1, <2>3 DEF OneCard!FetchLineData, OneCard!States
  <2>5. /\ m \in OneCard!States /\ m.line = d.line
        /\ m.uuid = d.uuid /\ m.panel = d.panel /\ m.times = d.times /\ m.gauge = d.gauge
        /\ m.asked = d.asked /\ m.detail = d.detail /\ m.nodeUid = d.nodeUid
        /\ m.lookup = d.lookup /\ m.deviceNo = d.deviceNo /\ m.reused = d.reused
        /\ m.reading = reading
    BY <2>2, <2>3 DEF OneCard!States
  <2>6. CardAbout(m)
    BY <2>2, <2>5 DEF CardAbout, OneCard!Filled
  <2>. QED
    BY <1>2, <1>4, <2>4, <2>5, <2>6
<1>5. CASE d.panel \notin {"trend", "reading"}
  BY <1>2, <1>5 DEF OneCard!FetchLineData
<1>. QED
  BY <1>3, <1>4, <1>5

(* The gauge is asked about the card of the route.                         *)
LEMMA CardGaugeFetched ==
    ASSUME NEW d \in OneCard!States, CardAbout(d), ~ OneCard!HasGauge(d) => Untouched(d.gauge)
    PROVE  LET m == OneCard!FetchInstant(d)
           IN  /\ m \in OneCard!States /\ CardAbout(m)
               /\ m.uuid = d.uuid /\ m.panel = d.panel /\ m.times = d.times /\ m.line = d.line
               /\ \A times : GaugeFor(m.gauge, d.uuid, times)
               /\ ~ OneCard!HasGauge(m) => Untouched(m.gauge)
<1>1. CASE ~ OneCard!HasGauge(d)
  BY <1>1, UntouchedFor DEF OneCard!FetchInstant
<1>2. CASE OneCard!HasGauge(d)
  <2>1. d.uuid \in Cards /\ None \notin Cards /\ d.gauge \in OneCard!GaugeStates(Cards)
    BY Named DEF OneCard!States
  <2>2. PICK gauge : gauge = OneCard!FetchInstantData(d.gauge, d.uuid)
    OBVIOUS
  <2>3. gauge \in OneCard!GaugeStates(Cards) /\ \A times : GaugeFor(gauge, d.uuid, times)
    BY <2>1, <2>2, GaugeFetched
  <2>4. PICK m : m = [d EXCEPT !.gauge = gauge]
    OBVIOUS
  <2>5. m = OneCard!FetchInstant(d)
    BY <1>2, <2>2, <2>4 DEF OneCard!FetchInstant, OneCard!States
  <2>6. /\ m \in OneCard!States /\ m.line = d.line
        /\ m.uuid = d.uuid /\ m.panel = d.panel /\ m.times = d.times /\ m.gauge = gauge
        /\ m.asked = d.asked /\ m.detail = d.detail /\ m.nodeUid = d.nodeUid
        /\ m.lookup = d.lookup /\ m.deviceNo = d.deviceNo /\ m.reused = d.reused
        /\ m.reading = d.reading
    BY <2>3, <2>4 DEF OneCard!States
  <2>7. CardAbout(m)
    BY <2>6 DEF CardAbout, OneCard!Filled
  <2>8. OneCard!HasGauge(m)
    BY <1>2, <2>6 DEF OneCard!HasGauge
  <2>. QED
    BY <2>3, <2>5, <2>6, <2>7, <2>8
<1>. QED
  BY <1>1, <1>2

(* The watch on the times asks for all that has a range.                   *)
LEMMA CardTimesWatched ==
    ASSUME NEW d \in OneCard!States, CardAbout(d), d.panel # "trend" => d.line = OneCard!Empty,
           ~ OneCard!HasGauge(d) => Untouched(d.gauge),
           NEW before, GaugeFor(d.gauge, d.uuid, before)
    PROVE  LET m == OneCard!WatchTimes(d)
           IN  m \in OneCard!States /\ CardAbout(m) /\ CardCharts(m) /\ m.uuid = d.uuid
<1>1. PICK l : l = OneCard!FetchLineData(d)
  OBVIOUS
<1>2. /\ l \in OneCard!States /\ CardAbout(l)
      /\ l.uuid = d.uuid /\ l.panel = d.panel /\ l.times = d.times /\ l.gauge = d.gauge
      /\ FieldFor(l.line, [of : Cards, times : {d.times}])
      /\ d.panel # "trend" => l.line = OneCard!Empty
  BY <1>1, CardLinesFetched
<1>3. CASE ~ OneCard!HasGauge(d)
  <2>1. OneCard!WatchTimes(d) = l
    BY <1>1, <1>2, <1>3 DEF OneCard!WatchTimes, OneCard!FetchRange, OneCard!HasGauge
  <2>2. CardCharts(l)
    BY <1>2, <1>3, UntouchedFor DEF CardCharts
  <2>. QED
    BY <1>2, <2>1, <2>2
<1>4. CASE OneCard!HasGauge(d)
  <2>1. /\ d.uuid \in Cards \union {None} /\ None \notin Cards /\ d.times \in Times \union {None}
        /\ d.times # None /\ d.gauge \in OneCard!GaugeStates(Cards)
    BY Named, TimesGiven DEF OneCard!States, Times
  <2>2. PICK gauge : gauge = OneCard!AskSeries(d.gauge, d.uuid, d.times)
    OBVIOUS
  <2>3. gauge \in OneCard!GaugeStates(Cards) /\ GaugeFor(gauge, d.uuid, d.times)
    BY <2>1, <2>2, SeriesAsked
  <2>4. PICK m : m = [l EXCEPT !.gauge = gauge]
    OBVIOUS
  <2>5. m = OneCard!WatchTimes(d)
    <3>1. OneCard!HasGauge(l)
      BY <1>2, <1>4 DEF OneCard!HasGauge
    <3>. QED
      BY <1>1, <1>2, <2>2, <2>4, <3>1
         DEF OneCard!WatchTimes, OneCard!FetchRange, OneCard!FetchRangeData, OneCard!States
  <2>6. /\ m \in OneCard!States /\ m.line = l.line
        /\ m.uuid = l.uuid /\ m.panel = l.panel /\ m.times = l.times /\ m.gauge = gauge
        /\ m.asked = l.asked /\ m.detail = l.detail /\ m.nodeUid = l.nodeUid
        /\ m.lookup = l.lookup /\ m.deviceNo = l.deviceNo /\ m.reused = l.reused
        /\ m.reading = l.reading
    BY <1>2, <2>3, <2>4 DEF OneCard!States
  <2>7. CardAbout(m)
    BY <1>2, <2>6 DEF CardAbout, OneCard!Filled
  <2>8. CardCharts(m)
    BY <1>2, <1>4, <2>3, <2>6 DEF CardCharts, OneCard!HasGauge
  <2>. QED
    BY <1>2, <2>5, <2>6, <2>7, <2>8
<1>. QED
  BY <1>3, <1>4

(* The page is the one of the route's card.                                *)
CardKept(d) ==
    /\ d \in OneCard!States /\ CardAbout(d) /\ CardCharts(d)
    /\ route = [page |-> "card", of |-> d.uuid]

(* The invariant of the page of a card, if there is one.                   *)
CardDetailInv == cardDetail # None => CardKept(cardDetail)

(* setup asks for the figures of the card, and the time filter hands over  *)
(* an hour.                                                                *)
LEMMA CardMounted ==
    ASSUME NEW uuid \in Cards, NEW panel \in OneCard!Panels
    PROVE  LET m == OneCard!WatchTimes(OneCard!EmitPresetRange(
                      OneCard!FetchLineData(OneCard!FetchInstant(OneCard!Fresh(uuid, panel))), 60))
           IN  m \in OneCard!States /\ CardAbout(m) /\ CardCharts(m) /\ m.uuid = uuid
<1>1. PICK f : f = OneCard!Fresh(uuid, panel)
  OBVIOUS
<1>2. /\ f \in OneCard!States
      /\ f.uuid = uuid /\ f.panel = panel /\ f.line = OneCard!Empty /\ Untouched(f.gauge)
  <2>1. PICK hasTotal \in BOOLEAN : hasTotal = (panel = "rate")
    OBVIOUS
  <2>2. /\ OneCard!Gauge(hasTotal) \in OneCard!GaugeStates(Cards)
        /\ Untouched(OneCard!Gauge(hasTotal))
        /\ OneCard!Empty \in OneCard!FieldStates(Cards)
        /\ OneCard!Empty \in OneCard!FieldStates(OneCard!SpansOf(Cards))
    BY FreshGauge
  <2>. QED
    BY <1>1, <2>1, <2>2, TimesGiven DEF OneCard!Fresh, OneCard!States, Times, OneCard!Custom
<1>3. CardAbout(f)
  <2>1. /\ f.asked = uuid /\ f.detail = None /\ f.deviceNo = None /\ f.nodeUid = None
        /\ f.lookup = None
        /\ f.reading = OneCard!Empty
    BY <1>1 DEF OneCard!Fresh
  <2>2. /\ OneCard!Empty \in OneCard!FieldStates({uuid})
        /\ OneCard!Empty \in OneCard!FieldStates(OneCard!SpansOf({uuid}))
    BY FreshGauge
  <2>. QED
    BY <1>2, <2>1, <2>2 DEF CardAbout, OneCard!Filled
<1>4. PICK g : g = OneCard!FetchInstant(f)
  OBVIOUS
<1>5. /\ g \in OneCard!States /\ CardAbout(g)
      /\ g.uuid = uuid /\ g.panel = panel /\ g.line = OneCard!Empty
      /\ \A times : GaugeFor(g.gauge, uuid, times)
      /\ ~ OneCard!HasGauge(g) => Untouched(g.gauge)
  BY <1>2, <1>3, <1>4, CardGaugeFetched
<1>6. PICK l : l = OneCard!FetchLineData(g)
  OBVIOUS
<1>7. /\ l \in OneCard!States /\ CardAbout(l)
      /\ l.uuid = uuid /\ l.panel = panel /\ l.gauge = g.gauge
      /\ panel # "trend" => l.line = OneCard!Empty
  BY <1>5, <1>6, CardLinesFetched
<1>8. PICK e : e = OneCard!EmitPresetRange(l, 60)
  OBVIOUS
<1>9. /\ e \in OneCard!States
      /\ e.uuid = l.uuid /\ e.panel = l.panel /\ e.line = l.line /\ e.gauge = l.gauge
      /\ e.asked = l.asked /\ e.detail = l.detail /\ e.nodeUid = l.nodeUid
      /\ e.lookup = l.lookup /\ e.deviceNo = l.deviceNo /\ e.reused = l.reused
      /\ e.reading = l.reading
  BY <1>7, <1>8, TimesGiven DEF OneCard!EmitPresetRange, OneCard!States
<1>10. CardAbout(e)
  BY <1>7, <1>9 DEF CardAbout, OneCard!Filled
<1>11. /\ ~ OneCard!HasGauge(e) => Untouched(e.gauge)
       /\ GaugeFor(e.gauge, e.uuid, 60) /\ (e.panel # "trend" => e.line = OneCard!Empty)
  BY <1>5, <1>7, <1>9 DEF OneCard!HasGauge
<1>12. PICK m : m = OneCard!WatchTimes(e)
  OBVIOUS
<1>13. m \in OneCard!States /\ CardAbout(m) /\ CardCharts(m) /\ m.uuid = e.uuid
  BY <1>9, <1>10, <1>11, <1>12, CardTimesWatched
<1>. QED
  BY <1>1, <1>4, <1>6, <1>7, <1>8, <1>9, <1>12, <1>13

(* Another range, whichever way it was picked.                             *)
LEMMA CardTimesPicked ==
    ASSUME NEW d \in OneCard!States, CardAbout(d), CardCharts(d),
           NEW e, e = [d EXCEPT !.times = e.times, !.choice = e.choice, !.echo = e.echo],
           e.times \in Times, e.choice \in Presets \union {0}, e.echo \in BOOLEAN
    PROVE  LET m == OneCard!WatchTimes(e)
           IN  m \in OneCard!States /\ CardAbout(m) /\ CardCharts(m) /\ m.uuid = d.uuid
<1>2. /\ e \in OneCard!States
      /\ e.uuid = d.uuid /\ e.panel = d.panel /\ e.line = d.line /\ e.gauge = d.gauge
      /\ e.asked = d.asked /\ e.detail = d.detail /\ e.nodeUid = d.nodeUid
      /\ e.lookup = d.lookup /\ e.deviceNo = d.deviceNo /\ e.reused = d.reused
      /\ e.reading = d.reading
  <2>1. PICK times, choice, echo : times = e.times /\ choice = e.choice /\ echo = e.echo
    OBVIOUS
  <2>2. e = [d EXCEPT !.times = times, !.choice = choice, !.echo = echo]
    BY <2>1
  <2>. QED
    BY <2>1, <2>2 DEF OneCard!States, Times, OneCard!Custom
<1>3. CardAbout(e)
  BY <1>2 DEF CardAbout, OneCard!Filled
<1>4. /\ ~ OneCard!HasGauge(e) => Untouched(e.gauge)
      /\ GaugeFor(e.gauge, e.uuid, d.times) /\ (e.panel # "trend" => e.line = OneCard!Empty)
  BY <1>2 DEF OneCard!HasGauge, CardCharts
<1>5. PICK m : m = OneCard!WatchTimes(e)
  OBVIOUS
<1>6. m \in OneCard!States /\ CardAbout(m) /\ CardCharts(m) /\ m.uuid = e.uuid
  BY <1>2, <1>3, <1>4, <1>5, CardTimesWatched
<1>. QED
  BY <1>2, <1>5, <1>6

(* The record of the card, and what it says of its node.                   *)
LEMMA CardRecorded ==
    ASSUME NEW d \in OneCard!States, CardAbout(d), CardCharts(d), NEW m,
           m = [d EXCEPT !.asked = m.asked, !.detail = m.detail, !.nodeUid = m.nodeUid, !.lookup = m.lookup],
           m.asked \in {d.asked, None}, m.detail \in {d.asked, d.detail, NoName},
           m.asked # None => m.detail = None /\ m.nodeUid = None /\ m.lookup = None,
           m.nodeUid # None => OneCard!Filled(m) /\ m.nodeUid = NodeOf[m.detail],
           m.lookup # None => OneCard!Filled(m) /\ m.lookup = NodeOf[m.detail]
    PROVE  m \in OneCard!States /\ CardAbout(m) /\ CardCharts(m) /\ m.uuid = d.uuid
<1>1. /\ m.asked \in Cards \union {None} /\ m.detail \in Cards \union {None, NoName}
      /\ m.nodeUid \in Nodes \union {None} /\ m.lookup \in Nodes \union {None}
  BY Named DEF OneCard!States, OneCard!Filled
<1>2. /\ m \in OneCard!States
      /\ m.uuid = d.uuid /\ m.panel = d.panel /\ m.times = d.times
      /\ m.line = d.line /\ m.gauge = d.gauge /\ m.reading = d.reading
      /\ m.deviceNo = d.deviceNo /\ m.reused = d.reused
  <2>1. PICK asked, detail, nodeUid, lookup :
          asked = m.asked /\ detail = m.detail /\ nodeUid = m.nodeUid /\ lookup = m.lookup
    OBVIOUS
  <2>2. m = [d EXCEPT !.asked = asked, !.detail = detail, !.nodeUid = nodeUid, !.lookup = lookup]
    BY <2>1
  <2>3. /\ asked \in Cards \union {None} /\ detail \in Cards \union {None, NoName}
        /\ nodeUid \in Nodes \union {None} /\ lookup \in Nodes \union {None}
    BY <1>1, <2>1
  <2>4. m \in OneCard!States
    BY <2>2, <2>3 DEF OneCard!States
  <2>. QED
    BY <2>2, <2>4 DEF OneCard!States
<1>3. CardAbout(m)
  BY <1>2 DEF CardAbout, OneCard!Filled
<1>4. CardCharts(m)
  BY <1>2 DEF CardCharts, OneCard!HasGauge
<1>. QED
  BY <1>2, <1>3, <1>4

(* The answers the page waits for, in any order.                           *)
LEMMA CardAnswered ==
    ASSUME NEW d, d = cardDetail, d \in OneCard!States, CardAbout(d), CardCharts(d),
           OneCard!NetworkStep, NEW m, m = cardDetail'
    PROVE  m \in OneCard!States /\ CardAbout(m) /\ CardCharts(m) /\ m.uuid = d.uuid
<1>. DEFINE Goal == m \in OneCard!States /\ CardAbout(m) /\ CardCharts(m) /\ m.uuid = d.uuid
<1>1. ASSUME NEW ok, NEW record, NEW carriesUid,
             OneCard!DetailAnswered(ok, record, carriesUid)
      PROVE  Goal
  <2>1. /\ d.asked # None /\ d.detail = None /\ d.nodeUid = None /\ d.lookup = None
        /\ record \in {d.asked, NoName} /\ record # None
    BY <1>1, Named DEF OneCard!DetailAnswered, CardAbout, OneCard!Filled
  <2>2. PICK detail, nodeUid, lookup :
          /\ detail = IF ok THEN record ELSE None
          /\ nodeUid = IF ok /\ record # NoName /\ carriesUid THEN NodeOf[record] ELSE None
          /\ lookup = IF ok /\ record # NoName /\ ~ carriesUid THEN NodeOf[record] ELSE None
    OBVIOUS
  <2>3. m = [d EXCEPT !.asked = None, !.detail = detail, !.nodeUid = nodeUid, !.lookup = lookup]
    BY <1>1, <2>1, <2>2 DEF OneCard!DetailAnswered, OneCard!States
  <2>4. m.asked = None /\ m.detail = detail /\ m.nodeUid = nodeUid /\ m.lookup = lookup
    BY <2>3 DEF OneCard!States
  <2>5. /\ m.detail \in {d.asked, d.detail, NoName}
        /\ m.nodeUid # None => OneCard!Filled(m) /\ m.nodeUid = NodeOf[m.detail]
        /\ m.lookup # None => OneCard!Filled(m) /\ m.lookup = NodeOf[m.detail]
    BY <2>1, <2>2, <2>4 DEF OneCard!Filled
  <2>. QED
    BY <2>3, <2>4, <2>5, CardRecorded
<1>2. ASSUME NEW ok, NEW present, OneCard!NodesAnswered(ok, present)
      PROVE  Goal
  <2>1. d.lookup # None /\ OneCard!Filled(d) /\ d.lookup = NodeOf[d.detail] /\ d.asked = None
    BY <1>2 DEF OneCard!NodesAnswered, CardAbout, OneCard!Filled
  <2>2. PICK nodeUid : nodeUid = IF ok /\ present THEN d.lookup ELSE None
    OBVIOUS
  <2>3. m = [d EXCEPT !.asked = d.asked, !.detail = d.detail, !.nodeUid = nodeUid, !.lookup = None]
    BY <1>2, <2>2 DEF OneCard!NodesAnswered, OneCard!States
  <2>4. m.asked = None /\ m.detail = d.detail /\ m.nodeUid = nodeUid /\ m.lookup = None
    BY <2>1, <2>3 DEF OneCard!States
  <2>5. m.nodeUid # None => OneCard!Filled(m) /\ m.nodeUid = NodeOf[m.detail]
    BY <2>1, <2>2, <2>4 DEF OneCard!Filled
  <2>6. m = [d EXCEPT !.asked = m.asked, !.detail = m.detail, !.nodeUid = m.nodeUid, !.lookup = m.lookup]
    BY <2>1, <2>3, <2>4
  <2>. QED
    BY <2>1, <2>4, <2>5, <2>6, CardRecorded
<1>3. ASSUME NEW ok, OneCard!GaugeAnswered(ok)
      PROVE  Goal
  <2>1. PICK gauge \in OneCard!GaugesAfter(d.gauge, d.uuid, d.times, ok) : m = [d EXCEPT !.gauge = gauge]
    BY <1>3 DEF OneCard!GaugeAnswered
  <2>2. /\ d.uuid \in Cards \union {None} /\ None \notin Cards /\ d.times \in Times \union {None}
        /\ d.gauge \in OneCard!GaugeStates(Cards) /\ GaugeFor(d.gauge, d.uuid, d.times)
    BY Named DEF OneCard!States, Times, CardCharts
  <2>3. gauge \in OneCard!GaugeStates(Cards) /\ GaugeFor(gauge, d.uuid, d.times)
    BY <2>1, <2>2, GaugeSettled
  <2>4. OneCard!HasGauge(d)
    BY <2>1, UntouchedFor DEF CardCharts
  <2>5. /\ m \in OneCard!States
        /\ m.uuid = d.uuid /\ m.panel = d.panel /\ m.times = d.times
        /\ m.line = d.line /\ m.gauge = gauge /\ m.reading = d.reading
        /\ m.asked = d.asked /\ m.detail = d.detail /\ m.nodeUid = d.nodeUid
        /\ m.lookup = d.lookup /\ m.deviceNo = d.deviceNo /\ m.reused = d.reused
    BY <2>1, <2>3 DEF OneCard!States
  <2>6. CardAbout(m)
    BY <2>5 DEF CardAbout, OneCard!Filled
  <2>7. CardCharts(m)
    BY <2>3, <2>4, <2>5 DEF CardCharts, OneCard!HasGauge
  <2>. QED
    BY <2>5, <2>6, <2>7
<1>4. ASSUME NEW ok, OneCard!LineAnswered(ok)
      PROVE  Goal
  <2>1. PICK line \in OneCard!FieldsAfter(d.line, ok), named \in BOOLEAN :
          m = [d EXCEPT !.line = line,
                        !.deviceNo = IF ok /\ named THEN line.of.of ELSE d.deviceNo]
    BY <1>4 DEF OneCard!LineAnswered, OneCard!States
  <2>2. /\ line \in OneCard!FieldStates(OneCard!SpansOf(Cards))
        /\ ok => line.of \in OneCard!SpansOf(Cards)
        /\ FieldFor(line, [of : Cards, times : {d.times}])
    <3>1. /\ d.line \in OneCard!FieldStates(OneCard!SpansOf(Cards))
          /\ FieldFor(d.line, [of : Cards, times : {d.times}])
      BY DEF OneCard!States, CardCharts
    <3>. QED
      BY <2>1, <3>1, FieldSettled
  <2>3. ASSUME ~ d.reused
        PROVE  /\ line \in OneCard!FieldStates(OneCard!SpansOf({d.uuid}))
               /\ ok => line.of \in OneCard!SpansOf({d.uuid})
    <3>1. d.line \in OneCard!FieldStates(OneCard!SpansOf({d.uuid}))
      BY <2>3 DEF CardAbout, OneCard!Filled
    <3>. QED
      BY <2>1, <3>1, FieldSettled
  <2>4. PICK deviceNo : deviceNo = IF ok /\ named THEN line.of.of ELSE d.deviceNo
    OBVIOUS
  <2>5. deviceNo \in Cards \union {None} /\ (~ d.reused => deviceNo \in {None, d.uuid})
    BY <2>2, <2>3, <2>4 DEF OneCard!SpansOf, OneCard!States, CardAbout, OneCard!Filled
  <2>6. d.panel = "trend"
    <3>1. CASE d.line = OneCard!Empty
      <4>1. DOMAIN d.line.flights = {}
        BY <3>1 DEF OneCard!Empty
      <4>. QED
        BY <2>1, <4>1 DEF OneCard!FieldsAfter
    <3>. QED
      BY <3>1 DEF CardCharts
  <2>7. m = [d EXCEPT !.line = line, !.deviceNo = deviceNo]
    BY <2>1, <2>4
  <2>8. /\ m \in OneCard!States
        /\ m.uuid = d.uuid /\ m.panel = d.panel /\ m.times = d.times
        /\ m.line = line /\ m.gauge = d.gauge /\ m.reading = d.reading
        /\ m.asked = d.asked /\ m.detail = d.detail /\ m.nodeUid = d.nodeUid
        /\ m.lookup = d.lookup /\ m.deviceNo = deviceNo /\ m.reused = d.reused
    BY <2>2, <2>5, <2>7 DEF OneCard!States
  <2>9. CardAbout(m)
    BY <2>3, <2>5, <2>8 DEF CardAbout, OneCard!Filled
  <2>10. CardCharts(m)
    BY <2>2, <2>6, <2>8 DEF CardCharts, OneCard!HasGauge
  <2>. QED
    BY <2>8, <2>9, <2>10
<1>5. ASSUME NEW ok, OneCard!ReadingAnswered(ok)
      PROVE  Goal
  <2>1. PICK reading \in OneCard!FieldsAfter(d.reading, ok) : m = [d EXCEPT !.reading = reading]
    BY <1>5 DEF OneCard!ReadingAnswered
  <2>2. reading \in OneCard!FieldStates(Cards)
    <3>1. d.reading \in OneCard!FieldStates(Cards)
      BY DEF OneCard!States
    <3>. QED
      BY <2>1, <3>1, FieldSettled
  <2>3. ASSUME ~ d.reused PROVE reading \in OneCard!FieldStates({d.uuid})
    <3>1. d.reading \in OneCard!FieldStates({d.uuid})
      BY <2>3 DEF CardAbout, OneCard!Filled
    <3>. QED
      BY <2>1, <3>1, FieldSettled
  <2>4. /\ m \in OneCard!States
        /\ m.uuid = d.uuid /\ m.panel = d.panel /\ m.times = d.times
        /\ m.line = d.line /\ m.gauge = d.gauge /\ m.reading = reading
        /\ m.asked = d.asked /\ m.detail = d.detail /\ m.nodeUid = d.nodeUid
        /\ m.lookup = d.lookup /\ m.deviceNo = d.deviceNo /\ m.reused = d.reused
    BY <2>1, <2>2 DEF OneCard!States
  <2>5. CardAbout(m)
    BY <2>3, <2>4 DEF CardAbout, OneCard!Filled
  <2>6. CardCharts(m)
    BY <2>4 DEF CardCharts, OneCard!HasGauge
  <2>. QED
    BY <2>4, <2>5, <2>6
<1>. QED
  BY <1>1, <1>2, <1>3, <1>4, <1>5 DEF OneCard!NetworkStep

(* The route changes under the page: the gauge asks about the new card.    *)
LEMMA CardReused ==
    ASSUME NEW d \in OneCard!States, CardAbout(d), CardCharts(d), NEW uuid \in Cards
    PROVE  LET m == OneCard!FetchInstant([d EXCEPT !.uuid = uuid, !.reused = TRUE])
           IN  m \in OneCard!States /\ CardAbout(m) /\ CardCharts(m) /\ m.uuid = uuid
<1>1. PICK e : e = [d EXCEPT !.uuid = uuid, !.reused = TRUE]
  OBVIOUS
<1>2. /\ e \in OneCard!States
      /\ e.uuid = uuid /\ e.panel = d.panel /\ e.times = d.times
      /\ e.line = d.line /\ e.gauge = d.gauge /\ e.reading = d.reading
      /\ e.asked = d.asked /\ e.detail = d.detail /\ e.nodeUid = d.nodeUid
      /\ e.lookup = d.lookup /\ e.deviceNo = d.deviceNo /\ e.reused = TRUE
  BY <1>1 DEF OneCard!States
<1>3. CardAbout(e) /\ (~ OneCard!HasGauge(e) => Untouched(e.gauge))
  BY <1>2 DEF CardAbout, OneCard!Filled, CardCharts, OneCard!HasGauge
<1>4. PICK m : m = OneCard!FetchInstant(e)
  OBVIOUS
<1>5. /\ m \in OneCard!States /\ CardAbout(m)
      /\ m.uuid = uuid /\ m.panel = d.panel /\ m.times = d.times /\ m.line = d.line
      /\ \A times : GaugeFor(m.gauge, uuid, times)
      /\ ~ OneCard!HasGauge(m) => Untouched(m.gauge)
  BY <1>2, <1>3, <1>4, CardGaugeFetched
<1>6. CardCharts(m)
  BY <1>5 DEF CardCharts
<1>. QED
  BY <1>1, <1>4, <1>5, <1>6

(* The page of a card keeps its invariant.                                 *)
LEMMA CardDetailStep ==
    ASSUME RouteInv, CardDetailInv, ranks.clicked \subseteq Nodes, [Next]_vars
    PROVE  CardDetailInv'
<1>1. SUFFICES ASSUME cardDetail' # None
               PROVE  CardKept(cardDetail)'
  BY DEF CardDetailInv
<1>2. PICK m : m = cardDetail'
  OBVIOUS
<1>. DEFINE Good(uuid) == m \in OneCard!States /\ CardAbout(m) /\ CardCharts(m) /\ m.uuid = uuid
<1>3. CASE UNCHANGED <<route, cardDetail>>
  BY <1>1, <1>3 DEF CardDetailInv, CardKept, CardAbout, OneCard!Filled, CardCharts, OneCard!HasGauge
<1>4. ASSUME NEW uuid, Good(uuid), route' = [page |-> "card", of |-> uuid]
      PROVE  CardKept(cardDetail)'
  BY <1>2, <1>4 DEF CardKept, CardAbout, OneCard!Filled, CardCharts, OneCard!HasGauge
<1>5. ASSUME NEW uuid \in Cards, NEW panel \in OneCard!Panels, OneCard!Mount(uuid, panel)
      PROVE  Good(uuid)
  BY <1>2, <1>5, CardMounted DEF OneCard!Mount
<1>6. CASE cardDetail # None
  <2>1. PICK d : d = cardDetail
    OBVIOUS
  <2>2. /\ d \in OneCard!States /\ CardAbout(d) /\ CardCharts(d)
        /\ route = [page |-> "card", of |-> d.uuid]
    BY <1>6, <2>1 DEF CardDetailInv, CardKept
  <2>3. ASSUME NEW uuid \in Cards, OneCard!WatchRoute(uuid)
        PROVE  Good(uuid)
    BY <1>2, <2>1, <2>2, <2>3, CardReused DEF OneCard!WatchRoute
  <2>4. ASSUME NEW e, e = [d EXCEPT !.times = e.times, !.choice = e.choice, !.echo = e.echo],
               e.times \in Times, e.choice \in Presets \union {0}, e.echo \in BOOLEAN,
               m = OneCard!WatchTimes(e)
        PROVE  Good(d.uuid)
    BY <2>2, <2>4, CardTimesPicked
  <2>5. d.times \in Times /\ d.choice \in Presets \union {0} /\ d.echo \in BOOLEAN
    BY <2>2 DEF OneCard!States, Times, OneCard!Custom
  <2>6. ASSUME NEW preset \in Presets, OneCard!PickPreset(preset)
        PROVE  Good(d.uuid)
    <3>1. PICK e : e = OneCard!EmitPresetRange(d, preset)
      OBVIOUS
    <3>2. /\ e = [d EXCEPT !.times = e.times, !.choice = e.choice, !.echo = e.echo]
          /\ e.times = preset /\ e.choice = preset /\ e.echo = FALSE
      BY <2>2, <3>1 DEF OneCard!EmitPresetRange, OneCard!States
    <3>. QED
      BY <1>2, <2>1, <2>4, <2>6, <3>1, <3>2 DEF OneCard!PickPreset, Times
  <2>7. ASSUME NEW minutes \in Customs, OneCard!PickCustom(minutes)
        PROVE  Good(d.uuid)
    <3>1. PICK e : e = OneCard!EmitCustomRange(d, minutes)
      OBVIOUS
    <3>2. /\ e = [d EXCEPT !.times = e.times, !.choice = e.choice, !.echo = e.echo]
          /\ e.times = minutes /\ e.choice = d.choice /\ e.echo = TRUE
      BY <2>2, <3>1 DEF OneCard!EmitCustomRange, OneCard!States
    <3>. QED
      BY <1>2, <2>1, <2>4, <2>5, <2>7, <3>1, <3>2 DEF OneCard!PickCustom, Times
  <2>8. ASSUME OneCard!Echo
        PROVE  Good(d.uuid)
    <3>1. d = [d EXCEPT !.times = d.times, !.choice = d.choice, !.echo = d.echo]
      BY <2>2 DEF OneCard!States
    <3>2. m = OneCard!WatchTimes(d)
      BY <1>2, <2>1, <2>8 DEF OneCard!Echo
    <3>. HIDE DEF Good
    <3>. QED
      BY <2>4, <2>5, <3>1, <3>2
  <2>9. ASSUME OneCard!PressCustom
        PROVE  Good(d.uuid)
    <3>1. m = [d EXCEPT !.choice = 0]
      BY <1>2, <2>1, <2>9 DEF OneCard!PressCustom, OneCard!ShowPicker, OneCard!Custom
    <3>2. /\ m \in OneCard!States
          /\ m.uuid = d.uuid /\ m.panel = d.panel /\ m.times = d.times
          /\ m.line = d.line /\ m.gauge = d.gauge /\ m.reading = d.reading
          /\ m.asked = d.asked /\ m.detail = d.detail /\ m.nodeUid = d.nodeUid
          /\ m.lookup = d.lookup /\ m.deviceNo = d.deviceNo /\ m.reused = d.reused
      BY <2>2, <3>1 DEF OneCard!States, OneCard!Custom
    <3>3. CardAbout(m)
      BY <2>2, <3>2 DEF CardAbout, OneCard!Filled
    <3>4. CardCharts(m)
      BY <2>2, <3>2 DEF CardCharts, OneCard!HasGauge
    <3>. QED
      BY <3>2, <3>3, <3>4
  <2>10. ASSUME OneCard!NetworkStep
         PROVE  Good(d.uuid)
    BY <1>2, <2>1, <2>2, <2>10, CardAnswered
  <2>. HIDE DEF Good
  <2>11. ASSUME OneCard!UserStep
         PROVE  Good(d.uuid)
    BY <2>6, <2>7, <2>9, <2>11 DEF OneCard!UserStep
  <2>12. ASSUME OneCard!UserStep \/ OneCard!Echo \/ OneCard!NetworkStep, UNCHANGED route
         PROVE  CardKept(cardDetail)'
    BY <1>4, <2>2, <2>8, <2>10, <2>11, <2>12
  <2>13. cardDetail # None => route.page = "card"
    BY <2>2
  <2>. QED
    BY <1>1, <1>3, <1>4, <1>5, <2>3, <2>12, <2>13, CardDetailSteps
<1>7. CASE cardDetail = None
  <2>1. ~ (OneCard!UserStep \/ OneCard!Echo \/ OneCard!NetworkStep)
    BY <1>7 DEF OneCard!UserStep, OneCard!PickPreset, OneCard!PressCustom, OneCard!PickCustom,
                OneCard!Echo, OneCard!NetworkStep, OneCard!DetailAnswered, OneCard!NodesAnswered,
                OneCard!GaugeAnswered, OneCard!LineAnswered, OneCard!ReadingAnswered
  <2>2. \A uuid : ~ OneCard!WatchRoute(uuid)
    BY <1>7 DEF OneCard!WatchRoute
  <2>. QED
    BY <1>1, <1>3, <1>4, <1>5, <1>7, <2>1, <2>2, CardDetailSteps
<1>. QED
  BY <1>6, <1>7

-----------------------------------------------------------------------------
(* The page of a node                                                      *)

(* What a step of the console does to it.                                  *)
LEMMA NodeDetailSteps ==
    ASSUME RouteInv, nodeDetail # None => route.page = "node",
           ranks.clicked \subseteq Nodes, [Next]_vars, nodeDetail' # None
    PROVE  \/ UNCHANGED <<route, nodeDetail>>
           \/ \E uid \in Nodes, panel \in OneNode!Panels :
                /\ OneNode!Mount(uid, panel)
                /\ route' = [page |-> "node", of |-> uid]
           \/ \E uid \in Nodes :
                /\ route.page = "node" /\ OneNode!WatchRoute(uid)
                /\ route' = [page |-> "node", of |-> uid]
           \/ /\ OneNode!UserStep \/ OneNode!Echo \/ OneNode!NetworkStep
              /\ UNCHANGED route
<1>1. Carries["node"] \subseteq Nodes /\ Parts("node") = OneNode!Panels
  BY DEF Carries, Parts
<1>2. ASSUME NEW page, NEW of \in Carries[page], NEW followed \in Parts(page), NEW clicked,
             MountPage(page, of, followed, clicked)
      PROVE  \E uid \in Nodes, panel \in OneNode!Panels :
                /\ OneNode!Mount(uid, panel)
                /\ route' = [page |-> "node", of |-> uid]
  <2>1. page = "node"
    BY <1>2 DEF MountPage, OneNode!Unmount
  <2>. QED
    BY <1>1, <1>2, <2>1 DEF MountPage
<1>3. ASSUME NEW of \in Carries[route.page], NEW clicked, ReusePage(of, clicked)
      PROVE  \E uid \in Nodes :
                /\ route.page = "node" /\ OneNode!WatchRoute(uid)
                /\ route' = [page |-> "node", of |-> uid]
  <2>1. route.page = "node" /\ OneNode!WatchRoute(of)
    BY <1>3 DEF ReusePage
  <2>2. route' = [page |-> "node", of |-> of]
    BY <1>3, <2>1 DEF ReusePage, RouteInv
  <2>. QED
    BY <1>1, <2>1, <2>2
<1>4. CASE Leave
  BY <1>4 DEF Leave, OneNode!Unmount
<1>5. CASE Translate
  BY <1>5 DEF Translate
<1>. QED
  BY <1>2, <1>3, <1>4, <1>5, ConsoleSteps
     DEF Views, OnCardList, OnNodeList, OnTaskList, OnCardDetail, OnNodeDetail,
         OnTaskDetail, OnOverview, OnRanks

(* The record comes once, and nothing asks for it again.  A page that was  *)
(* not reused knows of one node only.                                      *)
NodeAbout(d) ==
    /\ d.asked # None => d.detail = None
    /\ ~ d.reused => {d.asked, d.detail} \subseteq {None, d.uid}

(* The gauge is about the node of the record, and has a total.             *)
NodeCharts(d) == GaugeFor(d.gauge, d.detail, d.times) /\ d.gauge.hasTotal

(* The page is the one of the route's node.                                *)
NodeKept(d) ==
    /\ d \in OneNode!States /\ NodeAbout(d) /\ NodeCharts(d)
    /\ route = [page |-> "node", of |-> d.uid]

(* The invariant of the page of a node, if there is one.                   *)
NodeDetailInv == nodeDetail # None => NodeKept(nodeDetail)

(* The states of the page, in terms of those of a gauge.                   *)
LEMMA NodeStates ==
    OneNode!States =
      [uid : Nodes, panel : OneNode!Panels, reused : BOOLEAN,
       times : Times, choice : Presets \union {0}, echo : BOOLEAN,
       detail : Nodes \union {None}, asked : Nodes \union {None},
       gauge : OneCard!GaugeStates(Nodes)]
BY SameOnNodes DEF OneNode!States, Times, OneNode!Custom

(* The watch on the times asks for the series.                             *)
LEMMA NodeTimesWatched ==
    ASSUME NEW d \in OneNode!States, NodeAbout(d), NEW before,
           GaugeFor(d.gauge, d.detail, before), d.gauge.hasTotal
    PROVE  LET m == OneNode!WatchTimes(d)
           IN  m \in OneNode!States /\ NodeAbout(m) /\ NodeCharts(m) /\ m.uid = d.uid
<1>1. /\ d.detail \in Nodes \union {None} /\ None \notin Nodes /\ d.times \in Times \union {None}
      /\ d.times # None /\ d.gauge \in OneCard!GaugeStates(Nodes)
  BY Named, TimesGiven, NodeStates
<1>2. PICK gauge : gauge = OneCard!AskSeries(d.gauge, d.detail, d.times)
  OBVIOUS
<1>3. /\ gauge \in OneCard!GaugeStates(Nodes) /\ GaugeFor(gauge, d.detail, d.times)
      /\ gauge.hasTotal
  BY <1>1, <1>2, SeriesAsked
<1>4. PICK m : m = [d EXCEPT !.gauge = gauge]
  OBVIOUS
<1>5. m = OneNode!WatchTimes(d)
  <2>1. OneNode!FetchRangeData(d.gauge, d.detail, d.times) = gauge
    BY <1>2, SameOnNodes DEF OneCard!FetchRangeData
  <2>. QED
    BY <1>4, <2>1, NodeStates DEF OneNode!WatchTimes
<1>6. /\ m \in OneNode!States
      /\ m.uid = d.uid /\ m.reused = d.reused /\ m.times = d.times
      /\ m.detail = d.detail /\ m.asked = d.asked /\ m.gauge = gauge
  BY <1>3, <1>4, NodeStates
<1>7. NodeAbout(m) /\ NodeCharts(m)
  BY <1>3, <1>6 DEF NodeAbout, NodeCharts
<1>. QED
  BY <1>5, <1>6, <1>7

(* setup asks for nothing: the record is not there.                        *)
LEMMA NodeMounted ==
    ASSUME NEW uid \in Nodes, NEW panel \in OneNode!Panels
    PROVE  LET f == OneNode!Fresh(uid, panel)
               a == [f EXCEPT !.gauge = OneNode!FetchInstantData(f.gauge, f.detail)]
               m == OneNode!WatchTimes(OneNode!EmitPresetRange(a, 60))
           IN  m \in OneNode!States /\ NodeAbout(m) /\ NodeCharts(m) /\ m.uid = uid
<1>1. PICK g : g = OneCard!Gauge(TRUE)
  OBVIOUS
<1>2. /\ g \in OneCard!GaugeStates(Nodes) /\ Untouched(g) /\ g.hasTotal
      /\ \A times : GaugeFor(g, None, times)
  BY <1>1, FreshGauge, UntouchedFor
<1>3. PICK f : f = OneNode!Fresh(uid, panel)
  OBVIOUS
<1>4. f = [uid |-> uid, panel |-> panel, reused |-> FALSE,
           times |-> 60, choice |-> 60, echo |-> FALSE,
           detail |-> None, asked |-> uid, gauge |-> g]
  BY <1>1, <1>3, SameOnNodes DEF OneNode!Fresh
<1>5. /\ f \in OneNode!States /\ f.uid = uid /\ f.reused = FALSE
      /\ f.detail = None /\ f.asked = uid /\ f.gauge = g
  BY <1>2, <1>4, TimesGiven, NodeStates
<1>6. OneNode!FetchInstantData(f.gauge, f.detail) = g
  BY <1>5, SameOnNodes DEF OneCard!FetchInstantData, OneCard!Resolved
<1>7. [f EXCEPT !.gauge = OneNode!FetchInstantData(f.gauge, f.detail)] = f
  <2>1. [f EXCEPT !.gauge = g] = f
    BY <1>5, NodeStates
  <2>. QED
    BY <1>6, <2>1
<1>8. OneNode!EmitPresetRange(f, 60) = f
  <2>1. f.times = 60 /\ f.choice = 60 /\ f.echo = FALSE
    BY <1>4
  <2>. QED
    BY <1>5, <2>1, NodeStates DEF OneNode!EmitPresetRange
<1>9. NodeAbout(f) /\ GaugeFor(f.gauge, f.detail, 60) /\ f.gauge.hasTotal
  BY <1>2, <1>5 DEF NodeAbout
<1>10. PICK m : m = OneNode!WatchTimes(f)
  OBVIOUS
<1>11. m \in OneNode!States /\ NodeAbout(m) /\ NodeCharts(m) /\ m.uid = f.uid
  BY <1>5, <1>9, <1>10, NodeTimesWatched
<1>. QED
  BY <1>3, <1>5, <1>7, <1>8, <1>10, <1>11

(* Another range, whichever way it was picked.                             *)
LEMMA NodeTimesPicked ==
    ASSUME NEW d \in OneNode!States, NodeAbout(d), NodeCharts(d),
           NEW e, e = [d EXCEPT !.times = e.times, !.choice = e.choice, !.echo = e.echo],
           e.times \in Times, e.choice \in Presets \union {0}, e.echo \in BOOLEAN
    PROVE  LET m == OneNode!WatchTimes(e)
           IN  m \in OneNode!States /\ NodeAbout(m) /\ NodeCharts(m) /\ m.uid = d.uid
<1>1. /\ e \in OneNode!States
      /\ e.uid = d.uid /\ e.reused = d.reused
      /\ e.detail = d.detail /\ e.asked = d.asked /\ e.gauge = d.gauge
  <2>1. PICK times, choice, echo : times = e.times /\ choice = e.choice /\ echo = e.echo
    OBVIOUS
  <2>2. e = [d EXCEPT !.times = times, !.choice = choice, !.echo = echo]
    BY <2>1
  <2>. QED
    BY <2>1, <2>2, NodeStates
<1>2. NodeAbout(e) /\ GaugeFor(e.gauge, e.detail, d.times) /\ e.gauge.hasTotal
  BY <1>1 DEF NodeAbout, NodeCharts
<1>3. PICK m : m = OneNode!WatchTimes(e)
  OBVIOUS
<1>4. m \in OneNode!States /\ NodeAbout(m) /\ NodeCharts(m) /\ m.uid = e.uid
  BY <1>1, <1>2, <1>3, NodeTimesWatched
<1>. QED
  BY <1>1, <1>3, <1>4

(* The answers the page waits for, in any order: with the record the hook  *)
(* asks for the figures.                                                   *)
LEMMA NodeAnswered ==
    ASSUME NEW d, d = nodeDetail, d \in OneNode!States, NodeAbout(d), NodeCharts(d),
           OneNode!NetworkStep, NEW m, m = nodeDetail'
    PROVE  m \in OneNode!States /\ NodeAbout(m) /\ NodeCharts(m) /\ m.uid = d.uid
<1>. DEFINE Goal == m \in OneNode!States /\ NodeAbout(m) /\ NodeCharts(m) /\ m.uid = d.uid
<1>1. /\ d.detail \in Nodes \union {None} /\ None \notin Nodes /\ d.times \in Times \union {None}
      /\ d.gauge \in OneCard!GaugeStates(Nodes) /\ GaugeFor(d.gauge, d.detail, d.times)
      /\ d.gauge.hasTotal
  BY Named, NodeStates DEF NodeCharts
<1>2. ASSUME NEW ok, OneNode!DetailAnswered(ok)
      PROVE  Goal
  <2>1. d.asked # None /\ d.detail = None /\ d.asked \in Nodes
    BY <1>2, NodeStates DEF OneNode!DetailAnswered, NodeAbout
  <2>2. CASE ok
    <3>1. PICK gauge : gauge = OneCard!FetchInstantData(d.gauge, d.asked)
      OBVIOUS
    <3>2. /\ gauge \in OneCard!GaugeStates(Nodes) /\ GaugeFor(gauge, d.asked, d.times)
          /\ gauge.hasTotal
      BY <1>1, <2>1, <3>1, GaugeFetched
    <3>3. OneNode!FetchInstantData(d.gauge, d.asked) = gauge
      BY <3>1, SameOnNodes
    <3>4. m = [d EXCEPT !.asked = None, !.detail = d.asked, !.gauge = gauge]
      BY <1>2, <2>2, <3>3, NodeStates DEF OneNode!DetailAnswered
    <3>5. /\ m \in OneNode!States
          /\ m.uid = d.uid /\ m.reused = d.reused /\ m.times = d.times
          /\ m.detail = d.asked /\ m.asked = None /\ m.gauge = gauge
      BY <2>1, <3>2, <3>4, NodeStates
    <3>6. NodeAbout(m) /\ NodeCharts(m)
      BY <3>2, <3>5 DEF NodeAbout, NodeCharts
    <3>. QED
      BY <3>5, <3>6
  <2>3. CASE ~ ok
    <3>1. m = [d EXCEPT !.asked = None]
      BY <1>2, <2>3 DEF OneNode!DetailAnswered
    <3>2. /\ m \in OneNode!States
          /\ m.uid = d.uid /\ m.reused = d.reused /\ m.times = d.times
          /\ m.detail = d.detail /\ m.asked = None /\ m.gauge = d.gauge
      BY <3>1, NodeStates
    <3>3. NodeAbout(m) /\ NodeCharts(m)
      BY <3>2 DEF NodeAbout, NodeCharts
    <3>. QED
      BY <3>2, <3>3
  <2>. QED
    BY <2>2, <2>3
<1>3. ASSUME NEW ok, OneNode!GaugeAnswered(ok)
      PROVE  Goal
  <2>1. PICK gauge \in OneCard!GaugesAfter(d.gauge, d.detail, d.times, ok) : m = [d EXCEPT !.gauge = gauge]
    BY <1>3, SameOnNodes DEF OneNode!GaugeAnswered
  <2>2. /\ gauge \in OneCard!GaugeStates(Nodes) /\ GaugeFor(gauge, d.detail, d.times)
        /\ gauge.hasTotal
    BY <1>1, <2>1, GaugeSettled
  <2>3. /\ m \in OneNode!States
        /\ m.uid = d.uid /\ m.reused = d.reused /\ m.times = d.times
        /\ m.detail = d.detail /\ m.asked = d.asked /\ m.gauge = gauge
    BY <2>1, <2>2, NodeStates
  <2>4. NodeAbout(m) /\ NodeCharts(m)
    BY <2>2, <2>3 DEF NodeAbout, NodeCharts
  <2>. QED
    BY <2>3, <2>4
<1>. QED
  BY <1>2, <1>3 DEF OneNode!NetworkStep

(* The page of a node keeps its invariant.                                 *)
LEMMA NodeDetailStep ==
    ASSUME RouteInv, NodeDetailInv, ranks.clicked \subseteq Nodes, [Next]_vars
    PROVE  NodeDetailInv'
<1>1. SUFFICES ASSUME nodeDetail' # None
               PROVE  NodeKept(nodeDetail)'
  BY DEF NodeDetailInv
<1>2. PICK m : m = nodeDetail'
  OBVIOUS
<1>. DEFINE Good(uid) == m \in OneNode!States /\ NodeAbout(m) /\ NodeCharts(m) /\ m.uid = uid
<1>3. CASE UNCHANGED <<route, nodeDetail>>
  BY <1>1, <1>3 DEF NodeDetailInv, NodeKept, NodeAbout, NodeCharts
<1>4. ASSUME NEW uid, Good(uid), route' = [page |-> "node", of |-> uid]
      PROVE  NodeKept(nodeDetail)'
  BY <1>2, <1>4 DEF NodeKept, NodeAbout, NodeCharts
<1>5. ASSUME NEW uid \in Nodes, NEW panel \in OneNode!Panels, OneNode!Mount(uid, panel)
      PROVE  Good(uid)
  BY <1>2, <1>5, NodeMounted DEF OneNode!Mount
<1>6. CASE nodeDetail # None
  <2>1. PICK d : d = nodeDetail
    OBVIOUS
  <2>2. /\ d \in OneNode!States /\ NodeAbout(d) /\ NodeCharts(d)
        /\ route = [page |-> "node", of |-> d.uid]
    BY <1>6, <2>1 DEF NodeDetailInv, NodeKept
  <2>3. ASSUME NEW uid \in Nodes, OneNode!WatchRoute(uid)
        PROVE  Good(uid)
    <3>1. m = [d EXCEPT !.uid = uid, !.reused = TRUE]
      BY <1>2, <2>1, <2>3 DEF OneNode!WatchRoute
    <3>2. /\ m \in OneNode!States
          /\ m.uid = uid /\ m.reused = TRUE /\ m.times = d.times
          /\ m.detail = d.detail /\ m.asked = d.asked /\ m.gauge = d.gauge
      BY <2>2, <3>1, NodeStates
    <3>3. NodeAbout(m) /\ NodeCharts(m)
      BY <2>2, <3>2 DEF NodeAbout, NodeCharts
    <3>. QED
      BY <3>2, <3>3
  <2>4. ASSUME NEW e, e = [d EXCEPT !.times = e.times, !.choice = e.choice, !.echo = e.echo],
               e.times \in Times, e.choice \in Presets \union {0}, e.echo \in BOOLEAN,
               m = OneNode!WatchTimes(e)
        PROVE  Good(d.uid)
    BY <2>2, <2>4, NodeTimesPicked
  <2>5. d.times \in Times /\ d.choice \in Presets \union {0} /\ d.echo \in BOOLEAN
    BY <2>2, NodeStates
  <2>6. ASSUME NEW preset \in Presets, OneNode!PickPreset(preset)
        PROVE  Good(d.uid)
    <3>1. PICK e : e = OneNode!EmitPresetRange(d, preset)
      OBVIOUS
    <3>2. /\ e = [d EXCEPT !.times = e.times, !.choice = e.choice, !.echo = e.echo]
          /\ e.times = preset /\ e.choice = preset /\ e.echo = FALSE
      BY <2>2, <3>1, NodeStates DEF OneNode!EmitPresetRange
    <3>. QED
      BY <1>2, <2>1, <2>4, <2>6, <3>1, <3>2 DEF OneNode!PickPreset, Times
  <2>7. ASSUME NEW minutes \in Customs, OneNode!PickCustom(minutes)
        PROVE  Good(d.uid)
    <3>1. PICK e : e = OneNode!EmitCustomRange(d, minutes)
      OBVIOUS
    <3>2. /\ e = [d EXCEPT !.times = e.times, !.choice = e.choice, !.echo = e.echo]
          /\ e.times = minutes /\ e.choice = d.choice /\ e.echo = TRUE
      BY <2>2, <3>1, NodeStates DEF OneNode!EmitCustomRange
    <3>. QED
      BY <1>2, <2>1, <2>4, <2>5, <2>7, <3>1, <3>2 DEF OneNode!PickCustom, Times
  <2>8. ASSUME OneNode!Echo
        PROVE  Good(d.uid)
    <3>1. d = [d EXCEPT !.times = d.times, !.choice = d.choice, !.echo = d.echo]
      BY <2>2, NodeStates
    <3>2. m = OneNode!WatchTimes(d)
      BY <1>2, <2>1, <2>8 DEF OneNode!Echo
    <3>. HIDE DEF Good
    <3>. QED
      BY <2>4, <2>5, <3>1, <3>2
  <2>9. ASSUME OneNode!PressCustom
        PROVE  Good(d.uid)
    <3>1. m = [d EXCEPT !.choice = 0]
      BY <1>2, <2>1, <2>9 DEF OneNode!PressCustom, OneNode!ShowPicker, OneNode!Custom
    <3>2. /\ m \in OneNode!States
          /\ m.uid = d.uid /\ m.reused = d.reused /\ m.times = d.times
          /\ m.detail = d.detail /\ m.asked = d.asked /\ m.gauge = d.gauge
      BY <2>2, <3>1, NodeStates
    <3>3. NodeAbout(m) /\ NodeCharts(m)
      BY <2>2, <3>2 DEF NodeAbout, NodeCharts
    <3>. QED
      BY <3>2, <3>3
  <2>10. ASSUME OneNode!NetworkStep
         PROVE  Good(d.uid)
    BY <1>2, <2>1, <2>2, <2>10, NodeAnswered
  <2>. HIDE DEF Good
  <2>11. ASSUME OneNode!UserStep
         PROVE  Good(d.uid)
    BY <2>6, <2>7, <2>9, <2>11 DEF OneNode!UserStep
  <2>12. ASSUME OneNode!UserStep \/ OneNode!Echo \/ OneNode!NetworkStep, UNCHANGED route
         PROVE  NodeKept(nodeDetail)'
    BY <1>4, <2>2, <2>8, <2>10, <2>11, <2>12
  <2>13. nodeDetail # None => route.page = "node"
    BY <2>2
  <2>. QED
    BY <1>1, <1>3, <1>4, <1>5, <2>3, <2>12, <2>13, NodeDetailSteps
<1>7. CASE nodeDetail = None
  <2>1. ~ (OneNode!UserStep \/ OneNode!Echo \/ OneNode!NetworkStep)
    BY <1>7 DEF OneNode!UserStep, OneNode!PickPreset, OneNode!PressCustom, OneNode!PickCustom,
                OneNode!Echo, OneNode!NetworkStep, OneNode!DetailAnswered, OneNode!GaugeAnswered
  <2>2. \A uid : ~ OneNode!WatchRoute(uid)
    BY <1>7 DEF OneNode!WatchRoute
  <2>. QED
    BY <1>1, <1>3, <1>4, <1>5, <1>7, <2>1, <2>2, NodeDetailSteps
<1>. QED
  BY <1>6, <1>7

-----------------------------------------------------------------------------
(* The page of a workload                                                  *)

(* What a step of the console does to it.                                  *)
LEMMA TaskDetailSteps ==
    ASSUME RouteInv, taskDetail # None => route.page = "task",
           ranks.clicked \subseteq Nodes, [Next]_vars, taskDetail' # None
    PROVE  \/ UNCHANGED <<route, taskDetail>>
           \/ \E task \in Tasks, panel \in OneTask!Panels :
                /\ OneTask!Mount(task, panel)
                /\ route' = [page |-> "task", of |-> task]
           \/ \E task \in Tasks :
                /\ route.page = "task" /\ OneTask!WatchRoute(task)
                /\ route' = [page |-> "task", of |-> task]
           \/ /\ OneTask!UserStep \/ OneTask!Echo \/ OneTask!NetworkStep
              /\ UNCHANGED route
<1>1. Carries["task"] \subseteq Tasks /\ Parts("task") = OneTask!Panels
  BY DEF Carries, Parts
<1>2. ASSUME NEW page, NEW of \in Carries[page], NEW followed \in Parts(page), NEW clicked,
             MountPage(page, of, followed, clicked)
      PROVE  \E task \in Tasks, panel \in OneTask!Panels :
                /\ OneTask!Mount(task, panel)
                /\ route' = [page |-> "task", of |-> task]
  <2>1. page = "task"
    BY <1>2 DEF MountPage, OneTask!Unmount
  <2>. QED
    BY <1>1, <1>2, <2>1 DEF MountPage
<1>3. ASSUME NEW of \in Carries[route.page], NEW clicked, ReusePage(of, clicked)
      PROVE  \E task \in Tasks :
                /\ route.page = "task" /\ OneTask!WatchRoute(task)
                /\ route' = [page |-> "task", of |-> task]
  <2>1. route.page = "task" /\ OneTask!WatchRoute(of)
    BY <1>3 DEF ReusePage
  <2>2. route' = [page |-> "task", of |-> of]
    BY <1>3, <2>1 DEF ReusePage, RouteInv
  <2>. QED
    BY <1>1, <2>1, <2>2
<1>4. CASE Leave
  BY <1>4 DEF Leave, OneTask!Unmount
<1>5. CASE Translate
  BY <1>5 DEF Translate
<1>. QED
  BY <1>2, <1>3, <1>4, <1>5, ConsoleSteps
     DEF Views, OnCardList, OnNodeList, OnTaskList, OnCardDetail, OnNodeDetail,
         OnTaskDetail, OnOverview, OnRanks

(* The record comes once, then the cards and the node it names.  A page    *)
(* that was not reused knows of one workload only.                         *)
TaskAbout(d) ==
    /\ d.stage = "detail" => d.detail = None
    /\ d.stage = "cards" => d.detail # None
    /\ d.stage = "nodes" => d.detail \in Tasks
    /\ d.nodeUid # None => d.detail \in Tasks /\ d.nodeUid = OneTask!NodeOfTask(d.detail)
    /\ ~ d.reused => d.asked = d.task
    /\ d.detail \in {None, NoName, d.asked}

(* The gauge is about the workload of the record, by its name.             *)
TaskGauge(d) ==
    /\ GaugeFor(d.gauge, OneTask!GaugeSubject(d), None)
    /\ d.panel # "gauge" => Untouched(d.gauge)

(* The chart is about the record, over the range of the page.              *)
TaskCharts(d) ==
    /\ FieldFor(d.line, {OneCard!Span(d.detail, d.times)})
    /\ d.panel # "trend" => d.line = OneCard!Empty

(* The page is the one of the route's workload.                            *)
TaskKept(d) ==
    /\ d \in OneTask!States /\ TaskAbout(d) /\ TaskGauge(d) /\ TaskCharts(d)
    /\ route = [page |-> "task", of |-> d.task]

(* The invariant of the page of a workload, if there is one.               *)
TaskDetailInv == taskDetail # None => TaskKept(taskDetail)

(* The states of the page, in terms of those of gauges and charts.         *)
LEMMA TaskStates ==
    OneTask!States =
      [task : Tasks, panel : OneTask!Panels, reused : BOOLEAN,
       times : Times, choice : Presets \union {0}, echo : BOOLEAN,
       detail : Tasks \union {None, NoName}, type : OneTask!Types, listed : SUBSET Cards,
       nodeUid : Nodes \union {None},
       stage : {"detail", "cards", "nodes", "done"}, asked : Tasks,
       gauge : OneCard!GaugeStates(Tasks \union {NoName}),
       line : OneCard!FieldStates(OneCard!SpansOf(Tasks \union {None, NoName}))]
BY SameOnTasks DEF OneTask!States, Times, OneTask!Custom

(* Whose figures are asked for.                                            *)
LEMMA TaskSubjects ==
    ASSUME NEW d \in OneTask!States
    PROVE  /\ OneTask!GaugeSubject(d) \in Tasks \union {NoName}
           /\ None \notin Tasks \union {NoName}
<1>1. d.detail \in Tasks \union {None, NoName}
  BY TaskStates
<1>. QED
  BY <1>1, Named DEF OneTask!GaugeSubject

(* A workload has a card, and the node of one.                             *)
LEMMA TaskPlaced ==
    ASSUME NEW t \in Tasks
    PROVE  OneTask!FirstCard(t) \in Cards /\ OneTask!NodeOfTask(t) \in Nodes
<1>1. CardsOf[t] \subseteq Cards /\ CardsOf[t] # {} /\ \A c \in Cards : NodeOf[c] \in Nodes
  BY Named
<1>2. PICK c : c = OneTask!FirstCard(t)
  OBVIOUS
<1>3. c \in CardsOf[t]
  BY <1>1, <1>2 DEF OneTask!FirstCard
<1>. QED
  BY <1>1, <1>2, <1>3 DEF OneTask!NodeOfTask

(* The chart asks, if it is the one that is followed.                      *)
LEMMA TaskLinesFetched ==
    ASSUME NEW d \in OneTask!States, TaskAbout(d), d.panel # "trend" => d.line = OneCard!Empty
    PROVE  LET m == OneTask!FetchLineData(d)
           IN  /\ m \in OneTask!States /\ TaskAbout(m) /\ TaskCharts(m)
               /\ m.task = d.task /\ m.panel = d.panel /\ m.detail = d.detail /\ m.gauge = d.gauge
<1>1. CASE d.panel = "trend"
  <2>1. PICK span : span = OneCard!Span(d.detail, d.times)
    OBVIOUS
  <2>2. span \in OneCard!SpansOf(Tasks \union {None, NoName})
    BY <2>1, TaskStates DEF OneCard!Span, OneCard!SpansOf, Times
  <2>3. PICK line : line = OneCard!Ask(d.line, span)
    OBVIOUS
  <2>4. line \in OneCard!FieldStates(OneCard!SpansOf(Tasks \union {None, NoName})) /\ FieldFor(line, {span})
    <3>1. d.line \in OneCard!FieldStates(OneCard!SpansOf(Tasks \union {None, NoName}))
      BY TaskStates
    <3>. QED
      BY <2>2, <2>3, <3>1, FieldAsked
  <2>5. PICK m : m = [d EXCEPT !.line = line]
    OBVIOUS
  <2>6. m = OneTask!FetchLineData(d)
    <3>1. OneTask!Ask(d.line, OneTask!Span(d.detail, d.times)) = line
      BY <2>1, <2>3, SameOnTasks
    <3>. QED
      BY <1>1, <2>5, <3>1, TaskStates DEF OneTask!FetchLineData
  <2>7. /\ m \in OneTask!States /\ m.line = line
        /\ m.task = d.task /\ m.panel = d.panel /\ m.times = d.times /\ m.gauge = d.gauge
        /\ m.asked = d.asked /\ m.detail = d.detail /\ m.nodeUid = d.nodeUid
        /\ m.stage = d.stage /\ m.reused = d.reused
    BY <2>4, <2>5, TaskStates
  <2>8. TaskAbout(m)
    BY <2>7 DEF TaskAbout
  <2>9. TaskCharts(m)
    BY <1>1, <2>1, <2>4, <2>7 DEF TaskCharts
  <2>. QED
    BY <2>6, <2>7, <2>8, <2>9
<1>2. CASE d.panel # "trend"
  <2>1. OneTask!FetchLineData(d) = d
    BY <1>2 DEF OneTask!FetchLineData
  <2>2. d.line.newest = "none"
    BY <1>2 DEF OneCard!Empty
  <2>3. TaskCharts(d)
    BY <1>2, <2>2 DEF TaskCharts, FieldFor
  <2>. QED
    BY <2>1, <2>3
<1>. QED
  BY <1>1, <1>2

(* The gauge asks, if it is the one that is followed.                      *)
LEMMA TaskGaugeFetched ==
    ASSUME NEW d \in OneTask!States, TaskAbout(d), d.panel # "gauge" => Untouched(d.gauge)
    PROVE  LET m == OneTask!FetchInstant(d)
           IN  /\ m \in OneTask!States /\ TaskAbout(m) /\ TaskGauge(m)
               /\ m.task = d.task /\ m.panel = d.panel /\ m.detail = d.detail
               /\ m.times = d.times /\ m.line = d.line
<1>1. CASE d.panel = "gauge"
  <2>1. PICK subject : subject = OneTask!GaugeSubject(d)
    OBVIOUS
  <2>2. subject \in Tasks \union {NoName} /\ None \notin Tasks \union {NoName}
    BY <2>1, TaskSubjects
  <2>3. d.gauge \in OneCard!GaugeStates(Tasks \union {NoName})
    BY TaskStates
  <2>4. PICK gauge : gauge = OneCard!FetchInstantData(d.gauge, subject)
    OBVIOUS
  <2>5. gauge \in OneCard!GaugeStates(Tasks \union {NoName}) /\ GaugeFor(gauge, subject, None)
    BY <2>2, <2>3, <2>4, GaugeFetched
  <2>6. PICK m : m = [d EXCEPT !.gauge = gauge]
    OBVIOUS
  <2>7. m = OneTask!FetchInstant(d)
    <3>1. OneTask!FetchInstantData(d.gauge, OneTask!GaugeSubject(d)) = gauge
      BY <2>1, <2>4, SameOnTasks
    <3>. QED
      BY <1>1, <2>6, <3>1, TaskStates DEF OneTask!FetchInstant
  <2>8. /\ m \in OneTask!States /\ m.line = d.line
        /\ m.task = d.task /\ m.panel = d.panel /\ m.times = d.times /\ m.gauge = gauge
        /\ m.asked = d.asked /\ m.detail = d.detail /\ m.nodeUid = d.nodeUid
        /\ m.stage = d.stage /\ m.reused = d.reused
    BY <2>5, <2>6, TaskStates
  <2>9. TaskAbout(m)
    BY <2>8 DEF TaskAbout
  <2>10. TaskGauge(m)
    BY <1>1, <2>1, <2>5, <2>8 DEF TaskGauge, OneTask!GaugeSubject
  <2>. QED
    BY <2>7, <2>8, <2>9, <2>10
<1>2. CASE d.panel # "gauge"
  <2>1. OneTask!FetchInstant(d) = d
    BY <1>2 DEF OneTask!FetchInstant
  <2>2. TaskGauge(d)
    BY <1>2, UntouchedFor DEF TaskGauge
  <2>. QED
    BY <2>1, <2>2
<1>. QED
  BY <1>1, <1>2

(* Another range, whichever way it was picked, the filter's own included.  *)
LEMMA TaskTimesPicked ==
    ASSUME NEW d \in OneTask!States, TaskAbout(d), TaskGauge(d), TaskCharts(d),
           NEW e, e = [d EXCEPT !.times = e.times, !.choice = e.choice, !.echo = e.echo],
           e.times \in Times, e.choice \in Presets \union {0}, e.echo \in BOOLEAN
    PROVE  LET m == OneTask!FetchLineData(e)
           IN  m \in OneTask!States /\ TaskAbout(m) /\ TaskGauge(m) /\ TaskCharts(m) /\ m.task = d.task
<1>1. /\ e \in OneTask!States
      /\ e.task = d.task /\ e.panel = d.panel /\ e.gauge = d.gauge
      /\ e.asked = d.asked /\ e.detail = d.detail /\ e.nodeUid = d.nodeUid
      /\ e.stage = d.stage /\ e.reused = d.reused /\ e.line = d.line
  <2>1. PICK times, choice, echo : times = e.times /\ choice = e.choice /\ echo = e.echo
    OBVIOUS
  <2>2. e = [d EXCEPT !.times = times, !.choice = choice, !.echo = echo]
    BY <2>1
  <2>. QED
    BY <2>1, <2>2, TaskStates
<1>2. TaskAbout(e) /\ (e.panel # "trend" => e.line = OneCard!Empty)
  BY <1>1 DEF TaskAbout, TaskCharts
<1>3. PICK m : m = OneTask!FetchLineData(e)
  OBVIOUS
<1>4. /\ m \in OneTask!States /\ TaskAbout(m) /\ TaskCharts(m)
      /\ m.task = e.task /\ m.panel = e.panel /\ m.detail = e.detail /\ m.gauge = e.gauge
  BY <1>1, <1>2, <1>3, TaskLinesFetched
<1>5. TaskGauge(m)
  BY <1>1, <1>4 DEF TaskGauge, OneTask!GaugeSubject
<1>. QED
  BY <1>1, <1>3, <1>4, <1>5

(* The range the time filter hands over when a type brings it.             *)
LEMMA TaskFilterMounted ==
    ASSUME NEW d \in OneTask!States, TaskAbout(d), TaskGauge(d), TaskCharts(d), NEW before
    PROVE  LET m == OneTask!MountFilter(before, d)
           IN  m \in OneTask!States /\ TaskAbout(m) /\ TaskGauge(m) /\ TaskCharts(m) /\ m.task = d.task
<1>1. PICK e : e = OneTask!EmitPresetRange(d, 60)
  OBVIOUS
<1>2. /\ e = [d EXCEPT !.times = e.times, !.choice = e.choice, !.echo = e.echo]
      /\ e.times = 60 /\ e.choice = 60 /\ e.echo = FALSE
  BY <1>1, TaskStates DEF OneTask!EmitPresetRange
<1>3. PICK m : m = OneTask!FetchLineData(e)
  OBVIOUS
<1>4. m \in OneTask!States /\ TaskAbout(m) /\ TaskGauge(m) /\ TaskCharts(m) /\ m.task = d.task
  BY <1>2, <1>3, TimesGiven, TaskTimesPicked
<1>5. OneTask!MountFilter(before, d) \in {m, d}
  BY <1>1, <1>3 DEF OneTask!MountFilter
<1>. QED
  BY <1>4, <1>5

(* setup asks for the figures of a workload whose name is not known yet.   *)
LEMMA TaskMounted ==
    ASSUME NEW task \in Tasks, NEW panel \in OneTask!Panels
    PROVE  LET m == OneTask!FetchInstant(OneTask!Fresh(task, panel))
           IN  m \in OneTask!States /\ TaskAbout(m) /\ TaskGauge(m) /\ TaskCharts(m) /\ m.task = task
<1>1. PICK g, line : g = OneCard!Gauge(FALSE) /\ line = OneCard!Empty
  OBVIOUS
<1>2. /\ g \in OneCard!GaugeStates(Tasks \union {NoName}) /\ Untouched(g)
      /\ line \in OneCard!FieldStates(OneCard!SpansOf(Tasks \union {None, NoName}))
      /\ line.newest = "none"
  BY <1>1, FreshGauge
<1>3. PICK f : f = OneTask!Fresh(task, panel)
  OBVIOUS
<1>4. f = [task |-> task, panel |-> panel, reused |-> FALSE,
           times |-> 60, choice |-> 60, echo |-> FALSE,
           detail |-> None, type |-> None, listed |-> {}, nodeUid |-> None,
           stage |-> "detail", asked |-> task, gauge |-> g, line |-> line]
  BY <1>1, <1>3, SameOnTasks DEF OneTask!Fresh
<1>5. /\ f \in OneTask!States
      /\ f.task = task /\ f.panel = panel /\ f.gauge = g /\ f.line = line
      /\ f.asked = task /\ f.detail = None /\ f.nodeUid = None
      /\ f.stage = "detail" /\ f.reused = FALSE
  BY <1>2, <1>4, TimesGiven, TaskStates DEF OneTask!Types
<1>6. TaskAbout(f) /\ TaskCharts(f)
  BY <1>1, <1>2, <1>5 DEF TaskAbout, TaskCharts, FieldFor
<1>7. PICK m : m = OneTask!FetchInstant(f)
  OBVIOUS
<1>8. /\ m \in OneTask!States /\ TaskAbout(m) /\ TaskGauge(m)
      /\ m.task = f.task /\ m.panel = f.panel /\ m.detail = f.detail
      /\ m.times = f.times /\ m.line = f.line
  BY <1>2, <1>5, <1>6, <1>7, TaskGaugeFetched
<1>9. TaskCharts(m)
  BY <1>6, <1>8 DEF TaskCharts
<1>. QED
  BY <1>3, <1>5, <1>7, <1>8, <1>9

(* A step towards the end of onMounted, which asks for nothing.            *)
LEMMA TaskFilled ==
    ASSUME NEW d \in OneTask!States, TaskAbout(d), TaskGauge(d), TaskCharts(d), NEW e,
           e = [d EXCEPT !.stage = e.stage, !.nodeUid = e.nodeUid, !.listed = e.listed, !.type = e.type],
           e.listed \in SUBSET Cards, e.type \in OneTask!Types, e.nodeUid \in Nodes \union {None},
           e.stage \in {"done", "nodes"}, e.stage = "nodes" => d.detail \in Tasks,
           e.nodeUid # None => d.detail \in Tasks /\ e.nodeUid = OneTask!NodeOfTask(d.detail)
    PROVE  e \in OneTask!States /\ TaskAbout(e) /\ TaskGauge(e) /\ TaskCharts(e) /\ e.task = d.task
<1>1. /\ e \in OneTask!States
      /\ e.task = d.task /\ e.panel = d.panel /\ e.gauge = d.gauge /\ e.line = d.line
      /\ e.asked = d.asked /\ e.detail = d.detail /\ e.reused = d.reused /\ e.times = d.times
  <2>1. PICK stage, nodeUid, listed, type :
          stage = e.stage /\ nodeUid = e.nodeUid /\ listed = e.listed /\ type = e.type
    OBVIOUS
  <2>2. /\ e = [d EXCEPT !.stage = stage, !.nodeUid = nodeUid, !.listed = listed, !.type = type]
        /\ stage \in {"done", "nodes"} /\ nodeUid \in Nodes \union {None}
        /\ listed \in SUBSET Cards /\ type \in OneTask!Types
    BY <2>1
  <2>. QED
    BY <2>2, TaskStates
<1>2. TaskAbout(e)
  BY <1>1 DEF TaskAbout
<1>3. TaskGauge(e) /\ TaskCharts(e)
  BY <1>1 DEF TaskGauge, TaskCharts, OneTask!GaugeSubject
<1>. QED
  BY <1>1, <1>2, <1>3

(* The answers the page waits for, in any order.                           *)
LEMMA TaskAnswered ==
    ASSUME NEW d, d = taskDetail,
           d \in OneTask!States, TaskAbout(d), TaskGauge(d), TaskCharts(d),
           OneTask!NetworkStep, NEW m, m = taskDetail'
    PROVE  m \in OneTask!States /\ TaskAbout(m) /\ TaskGauge(m) /\ TaskCharts(m) /\ m.task = d.task
<1>. DEFINE Goal == m \in OneTask!States /\ TaskAbout(m) /\ TaskGauge(m) /\ TaskCharts(m) /\ m.task = d.task
<1>1. ASSUME NEW ok, NEW record \in Tasks \union {NoName}, OneTask!DetailAnswered(ok, record)
      PROVE  Goal
  <2>1. /\ d.stage = "detail" /\ d.detail = None /\ d.nodeUid = None
        /\ record \in {d.asked, NoName} /\ record # None
    BY <1>1, Named DEF OneTask!DetailAnswered, TaskAbout
  <2>2. CASE ~ ok
    <3>1. m = [d EXCEPT !.stage = "done"]
      BY <1>1, <2>2 DEF OneTask!DetailAnswered
    <3>2. m = [d EXCEPT !.stage = "done", !.nodeUid = d.nodeUid, !.listed = d.listed, !.type = d.type]
      BY <3>1, TaskStates
    <3>3. /\ m.stage = "done" /\ m.nodeUid = d.nodeUid /\ m.listed = d.listed /\ m.type = d.type
          /\ d.nodeUid \in Nodes \union {None} /\ d.listed \in SUBSET Cards
          /\ d.type \in OneTask!Types
      BY <3>1, TaskStates
    <3>4. m = [d EXCEPT !.stage = m.stage, !.nodeUid = m.nodeUid, !.listed = m.listed, !.type = m.type]
      BY <3>2, <3>3
    <3>5. /\ m.stage \in {"done", "nodes"} /\ m.stage # "nodes"
          /\ m.listed \in SUBSET Cards /\ m.type \in OneTask!Types
          /\ m.nodeUid \in Nodes \union {None}
          /\ m.nodeUid # None => d.detail \in Tasks /\ m.nodeUid = OneTask!NodeOfTask(d.detail)
      BY <2>1, <3>3
    <3>. QED
      BY <3>4, <3>5, TaskFilled
  <2>3. CASE ok
    <3>1. PICK type : type = IF record = NoName THEN None ELSE VendorOf[record]
      OBVIOUS
    <3>2. type \in OneTask!Types
      BY <3>1 DEF OneTask!Types
    <3>3. PICK e : e = [d EXCEPT !.stage = "cards", !.detail = record, !.type = type]
      OBVIOUS
    <3>4. /\ e \in OneTask!States
          /\ e.task = d.task /\ e.panel = d.panel /\ e.gauge = d.gauge /\ e.line = d.line
          /\ e.asked = d.asked /\ e.detail = record /\ e.nodeUid = d.nodeUid
          /\ e.stage = "cards" /\ e.reused = d.reused /\ e.times = d.times
      BY <3>2, <3>3, TaskStates
    <3>5. TaskAbout(e) /\ (e.panel # "trend" => e.line = OneCard!Empty)
      BY <2>1, <3>4 DEF TaskAbout, TaskCharts
    <3>6. PICK l : l = OneTask!FetchLineData(e)
      OBVIOUS
    <3>7. /\ l \in OneTask!States /\ TaskAbout(l) /\ TaskCharts(l)
          /\ l.task = e.task /\ l.panel = e.panel /\ l.detail = e.detail /\ l.gauge = e.gauge
      BY <3>4, <3>5, <3>6, TaskLinesFetched
    <3>8. l.panel # "gauge" => Untouched(l.gauge)
      BY <3>4, <3>7 DEF TaskGauge
    <3>9. PICK g : g = OneTask!FetchInstant(l)
      OBVIOUS
    <3>10. /\ g \in OneTask!States /\ TaskAbout(g) /\ TaskGauge(g)
           /\ g.task = l.task /\ g.panel = l.panel /\ g.detail = l.detail
           /\ g.times = l.times /\ g.line = l.line
      BY <3>7, <3>8, <3>9, TaskGaugeFetched
    <3>11. TaskCharts(g)
      BY <3>7, <3>10 DEF TaskCharts
    <3>12. m = OneTask!MountFilter(d, g)
      BY <1>1, <2>3, <3>1, <3>3, <3>6, <3>9 DEF OneTask!DetailAnswered
    <3>. QED
      BY <3>4, <3>7, <3>10, <3>11, <3>12, TaskFilterMounted
  <2>. QED
    BY <2>2, <2>3
<1>2. ASSUME NEW ok, NEW present \in SUBSET Cards, NEW carriesUid,
             OneTask!CardsAnswered(ok, present, carriesUid)
      PROVE  Goal
  <2>1. /\ d.detail \in Tasks \union {NoName} /\ d.nodeUid \in Nodes \union {None}
        /\ d.listed \in SUBSET Cards /\ d.type \in OneTask!Types
    BY <1>2, TaskStates DEF OneTask!CardsAnswered, TaskAbout
  <2>2. CASE ~ ok
    <3>1. m = [d EXCEPT !.stage = "done"]
      BY <1>2, <2>2 DEF OneTask!CardsAnswered
    <3>2. m = [d EXCEPT !.stage = "done", !.nodeUid = d.nodeUid, !.listed = d.listed, !.type = d.type]
      BY <3>1, TaskStates
    <3>3. d.nodeUid # None => d.detail \in Tasks /\ d.nodeUid = OneTask!NodeOfTask(d.detail)
      BY DEF TaskAbout
    <3>4. m.stage = "done" /\ m.nodeUid = d.nodeUid /\ m.listed = d.listed /\ m.type = d.type
      BY <3>1, TaskStates
    <3>5. m = [d EXCEPT !.stage = m.stage, !.nodeUid = m.nodeUid, !.listed = m.listed, !.type = m.type]
      BY <3>2, <3>4
    <3>6. /\ m.stage \in {"done", "nodes"} /\ m.stage # "nodes"
          /\ m.listed \in SUBSET Cards /\ m.type \in OneTask!Types
          /\ m.nodeUid \in Nodes \union {None}
          /\ m.nodeUid # None => d.detail \in Tasks /\ m.nodeUid = OneTask!NodeOfTask(d.detail)
      BY <2>1, <3>3, <3>4
    <3>. QED
      BY <3>5, <3>6, TaskFilled
  <2>3. CASE ok
    <3>1. PICK nodeUid : nodeUid = IF carriesUid /\ d.detail # NoName
                                   THEN OneTask!NodeOfTask(d.detail) ELSE None
      OBVIOUS
    <3>2. PICK type : type = IF d.detail # NoName /\ OneTask!FirstCard(d.detail) \in present
                             THEN TypeOf[OneTask!FirstCard(d.detail)] ELSE d.type
      OBVIOUS
    <3>3. PICK stage : stage = IF d.detail # NoName /\ nodeUid = None THEN "nodes" ELSE "done"
      OBVIOUS
    <3>4. /\ nodeUid \in Nodes \union {None}
          /\ nodeUid # None => d.detail \in Tasks /\ nodeUid = OneTask!NodeOfTask(d.detail)
      BY <2>1, <3>1, TaskPlaced
    <3>5. type \in OneTask!Types
      BY <2>1, <3>2, TaskPlaced DEF OneTask!Types
    <3>6. stage \in {"done", "nodes"} /\ (stage = "nodes" => d.detail \in Tasks)
      BY <2>1, <3>3
    <3>7. PICK e : e = [d EXCEPT !.stage = stage, !.nodeUid = nodeUid, !.listed = present, !.type = type]
      OBVIOUS
    <3>8. e \in OneTask!States /\ TaskAbout(e) /\ TaskGauge(e) /\ TaskCharts(e) /\ e.task = d.task
      <4>1. e.stage = stage /\ e.nodeUid = nodeUid /\ e.listed = present /\ e.type = type
        BY <3>7, TaskStates
      <4>2. e = [d EXCEPT !.stage = e.stage, !.nodeUid = e.nodeUid, !.listed = e.listed, !.type = e.type]
        BY <3>7, <4>1
      <4>. QED
        BY <1>2, <3>4, <3>5, <3>6, <4>1, <4>2, TaskFilled
    <3>9. e = [d EXCEPT !.listed = present, !.nodeUid = nodeUid, !.type = type, !.stage = stage]
      BY <3>7, TaskStates
    <3>10. m = OneTask!MountFilter(d, e)
      BY <1>2, <2>3, <3>1, <3>2, <3>3, <3>9 DEF OneTask!CardsAnswered
    <3>. QED
      BY <3>8, <3>10, TaskFilterMounted
  <2>. QED
    BY <2>2, <2>3
<1>3. ASSUME NEW ok, NEW present, OneTask!NodesAnswered(ok, present)
      PROVE  Goal
  <2>1. PICK nodeUid : nodeUid = IF ok /\ present THEN OneTask!NodeOfTask(d.detail) ELSE None
    OBVIOUS
  <2>2. d.detail \in Tasks
    BY <1>3 DEF OneTask!NodesAnswered, TaskAbout
  <2>3. nodeUid \in Nodes \union {None} /\ (nodeUid # None => nodeUid = OneTask!NodeOfTask(d.detail))
    BY <2>1, <2>2, TaskPlaced
  <2>4. m = [d EXCEPT !.stage = "done", !.nodeUid = nodeUid, !.listed = d.listed, !.type = d.type]
    BY <1>3, <2>1, TaskStates DEF OneTask!NodesAnswered
  <2>5. /\ m.stage = "done" /\ m.nodeUid = nodeUid /\ m.listed = d.listed /\ m.type = d.type
        /\ d.listed \in SUBSET Cards /\ d.type \in OneTask!Types
    BY <2>4, TaskStates
  <2>6. m = [d EXCEPT !.stage = m.stage, !.nodeUid = m.nodeUid, !.listed = m.listed, !.type = m.type]
    BY <2>4, <2>5
  <2>. QED
    BY <2>2, <2>3, <2>5, <2>6, TaskFilled
<1>4. ASSUME NEW ok, OneTask!GaugeAnswered(ok)
      PROVE  Goal
  <2>1. PICK subject : subject = OneTask!GaugeSubject(d)
    OBVIOUS
  <2>2. /\ subject \in Tasks \union {NoName} /\ None \notin Tasks \union {NoName}
        /\ d.gauge \in OneCard!GaugeStates(Tasks \union {NoName})
        /\ GaugeFor(d.gauge, subject, None)
    BY <2>1, TaskSubjects, TaskStates DEF TaskGauge
  <2>3. PICK gauge \in OneCard!GaugesAfter(d.gauge, subject, None, ok) : m = [d EXCEPT !.gauge = gauge]
    BY <1>4, <2>1, SameOnTasks DEF OneTask!GaugeAnswered
  <2>4. gauge \in OneCard!GaugeStates(Tasks \union {NoName}) /\ GaugeFor(gauge, subject, None)
    BY <2>2, <2>3, GaugeSettled
  <2>5. d.panel = "gauge"
    BY <2>3, UntouchedFor DEF TaskGauge
  <2>6. /\ m \in OneTask!States
        /\ m.task = d.task /\ m.panel = d.panel /\ m.gauge = gauge /\ m.line = d.line
        /\ m.asked = d.asked /\ m.detail = d.detail /\ m.nodeUid = d.nodeUid
        /\ m.stage = d.stage /\ m.reused = d.reused /\ m.times = d.times
    BY <2>3, <2>4, TaskStates
  <2>7. TaskAbout(m) /\ TaskCharts(m)
    BY <2>6 DEF TaskAbout, TaskCharts
  <2>8. TaskGauge(m)
    BY <2>1, <2>4, <2>5, <2>6 DEF TaskGauge, OneTask!GaugeSubject
  <2>. QED
    BY <2>6, <2>7, <2>8
<1>5. ASSUME NEW ok, OneTask!LineAnswered(ok)
      PROVE  Goal
  <2>1. PICK line \in OneCard!FieldsAfter(d.line, ok) : m = [d EXCEPT !.line = line]
    BY <1>5, SameOnTasks DEF OneTask!LineAnswered
  <2>2. /\ line \in OneCard!FieldStates(OneCard!SpansOf(Tasks \union {None, NoName}))
        /\ FieldFor(line, {OneCard!Span(d.detail, d.times)})
    <3>1. /\ d.line \in OneCard!FieldStates(OneCard!SpansOf(Tasks \union {None, NoName}))
          /\ FieldFor(d.line, {OneCard!Span(d.detail, d.times)})
      BY TaskStates DEF TaskCharts
    <3>. QED
      BY <2>1, <3>1, FieldSettled
  <2>3. d.panel = "trend"
    <3>1. CASE d.line = OneCard!Empty
      <4>1. DOMAIN d.line.flights = {}
        BY <3>1 DEF OneCard!Empty
      <4>. QED
        BY <2>1, <4>1 DEF OneCard!FieldsAfter
    <3>. QED
      BY <3>1 DEF TaskCharts
  <2>4. /\ m \in OneTask!States
        /\ m.task = d.task /\ m.panel = d.panel /\ m.gauge = d.gauge /\ m.line = line
        /\ m.asked = d.asked /\ m.detail = d.detail /\ m.nodeUid = d.nodeUid
        /\ m.stage = d.stage /\ m.reused = d.reused /\ m.times = d.times
    BY <2>1, <2>2, TaskStates
  <2>5. TaskAbout(m) /\ TaskGauge(m)
    BY <2>4 DEF TaskAbout, TaskGauge, OneTask!GaugeSubject
  <2>6. TaskCharts(m)
    BY <2>2, <2>3, <2>4 DEF TaskCharts
  <2>. QED
    BY <2>4, <2>5, <2>6
<1>6. ASSUME NEW ok, NEW gone, NEW carriesUid,
             OneTask!CardsAnswered(ok, {c \in Cards : NodeOf[c] # gone}, carriesUid)
      PROVE  Goal
  <2>1. PICK present \in SUBSET Cards : present = {c \in Cards : NodeOf[c] # gone}
    OBVIOUS
  <2>. HIDE DEF Goal
  <2>. QED
    BY <1>2, <1>6, <2>1
<1>. HIDE DEF Goal
<1>7. Goal
  BY <1>1, <1>3, <1>4, <1>5, <1>6 DEF OneTask!NetworkStep
<1>. QED
  BY <1>7 DEF Goal

(* The page of a workload keeps its invariant.                                 *)
LEMMA TaskDetailStep ==
    ASSUME RouteInv, TaskDetailInv, ranks.clicked \subseteq Nodes, [Next]_vars
    PROVE  TaskDetailInv'
<1>1. SUFFICES ASSUME taskDetail' # None
               PROVE  TaskKept(taskDetail)'
  BY DEF TaskDetailInv
<1>2. PICK m : m = taskDetail'
  OBVIOUS
<1>. DEFINE Good(task) == m \in OneTask!States /\ TaskAbout(m) /\ TaskGauge(m) /\ TaskCharts(m) /\ m.task = task
<1>3. CASE UNCHANGED <<route, taskDetail>>
  BY <1>1, <1>3 DEF TaskDetailInv, TaskKept, TaskAbout, TaskGauge, TaskCharts, OneTask!GaugeSubject
<1>4. ASSUME NEW task, Good(task), route' = [page |-> "task", of |-> task]
      PROVE  TaskKept(taskDetail)'
  BY <1>2, <1>4 DEF TaskKept, TaskAbout, TaskGauge, TaskCharts, OneTask!GaugeSubject
<1>5. ASSUME NEW task \in Tasks, NEW panel \in OneTask!Panels, OneTask!Mount(task, panel)
      PROVE  Good(task)
  BY <1>2, <1>5, TaskMounted DEF OneTask!Mount
<1>6. CASE taskDetail # None
  <2>1. PICK d : d = taskDetail
    OBVIOUS
  <2>2. /\ d \in OneTask!States /\ TaskAbout(d) /\ TaskGauge(d) /\ TaskCharts(d)
        /\ route = [page |-> "task", of |-> d.task]
    BY <1>6, <2>1 DEF TaskDetailInv, TaskKept
  <2>3. ASSUME NEW task \in Tasks, OneTask!WatchRoute(task)
        PROVE  Good(task)
    <3>1. m = [d EXCEPT !.task = task, !.reused = TRUE]
      BY <1>2, <2>1, <2>3 DEF OneTask!WatchRoute
    <3>2. /\ m \in OneTask!States
          /\ m.task = task /\ m.reused = TRUE
          /\ m.panel = d.panel /\ m.gauge = d.gauge /\ m.line = d.line
          /\ m.asked = d.asked /\ m.detail = d.detail /\ m.nodeUid = d.nodeUid
          /\ m.stage = d.stage /\ m.times = d.times
      BY <2>2, <3>1, TaskStates
    <3>3. TaskAbout(m) /\ TaskGauge(m) /\ TaskCharts(m)
      BY <2>2, <3>2 DEF TaskAbout, TaskGauge, TaskCharts, OneTask!GaugeSubject
    <3>. QED
      BY <3>2, <3>3
  <2>4. ASSUME NEW e, e = [d EXCEPT !.times = e.times, !.choice = e.choice, !.echo = e.echo],
               e.times \in Times, e.choice \in Presets \union {0}, e.echo \in BOOLEAN,
               m = OneTask!FetchLineData(e)
        PROVE  Good(d.task)
    BY <2>2, <2>4, TaskTimesPicked
  <2>5. d.times \in Times /\ d.choice \in Presets \union {0} /\ d.echo \in BOOLEAN
    BY <2>2, TaskStates
  <2>6. ASSUME NEW preset \in Presets, OneTask!PickPreset(preset)
        PROVE  Good(d.task)
    <3>1. PICK e : e = OneTask!EmitPresetRange(d, preset)
      OBVIOUS
    <3>2. /\ e = [d EXCEPT !.times = e.times, !.choice = e.choice, !.echo = e.echo]
          /\ e.times = preset /\ e.choice = preset /\ e.echo = FALSE
      BY <2>2, <3>1, TaskStates DEF OneTask!EmitPresetRange
    <3>. QED
      BY <1>2, <2>1, <2>4, <2>6, <3>1, <3>2 DEF OneTask!PickPreset, Times
  <2>7. ASSUME NEW minutes \in Customs, OneTask!PickCustom(minutes)
        PROVE  Good(d.task)
    <3>1. PICK e : e = OneTask!EmitCustomRange(d, minutes)
      OBVIOUS
    <3>2. /\ e = [d EXCEPT !.times = e.times, !.choice = e.choice, !.echo = e.echo]
          /\ e.times = minutes /\ e.choice = d.choice /\ e.echo = TRUE
      BY <2>2, <3>1, TaskStates DEF OneTask!EmitCustomRange
    <3>. QED
      BY <1>2, <2>1, <2>4, <2>5, <2>7, <3>1, <3>2 DEF OneTask!PickCustom, Times
  <2>8. ASSUME OneTask!Echo
        PROVE  Good(d.task)
    <3>1. d = [d EXCEPT !.times = d.times, !.choice = d.choice, !.echo = d.echo]
      BY <2>2, TaskStates
    <3>2. m = OneTask!FetchLineData(d)
      BY <1>2, <2>1, <2>8 DEF OneTask!Echo
    <3>. HIDE DEF Good
    <3>. QED
      BY <2>4, <2>5, <3>1, <3>2
  <2>9. ASSUME OneTask!PressCustom
        PROVE  Good(d.task)
    <3>1. m = [d EXCEPT !.choice = 0]
      BY <1>2, <2>1, <2>9 DEF OneTask!PressCustom, OneTask!ShowPicker, OneTask!Custom
    <3>2. /\ m \in OneTask!States
          /\ m.task = d.task /\ m.reused = d.reused
          /\ m.panel = d.panel /\ m.gauge = d.gauge /\ m.line = d.line
          /\ m.asked = d.asked /\ m.detail = d.detail /\ m.nodeUid = d.nodeUid
          /\ m.stage = d.stage /\ m.times = d.times
      BY <2>2, <3>1, TaskStates
    <3>3. TaskAbout(m) /\ TaskGauge(m) /\ TaskCharts(m)
      BY <2>2, <3>2 DEF TaskAbout, TaskGauge, TaskCharts, OneTask!GaugeSubject
    <3>. QED
      BY <3>2, <3>3
  <2>10. ASSUME OneTask!NetworkStep
         PROVE  Good(d.task)
    BY <1>2, <2>1, <2>2, <2>10, TaskAnswered
  <2>. HIDE DEF Good
  <2>11. ASSUME OneTask!UserStep
         PROVE  Good(d.task)
    BY <2>6, <2>7, <2>9, <2>11 DEF OneTask!UserStep
  <2>12. ASSUME OneTask!UserStep \/ OneTask!Echo \/ OneTask!NetworkStep, UNCHANGED route
         PROVE  TaskKept(taskDetail)'
    BY <1>4, <2>2, <2>8, <2>10, <2>11, <2>12
  <2>13. taskDetail # None => route.page = "task"
    BY <2>2
  <2>. QED
    BY <1>1, <1>3, <1>4, <1>5, <2>3, <2>12, <2>13, TaskDetailSteps
<1>7. CASE taskDetail = None
  <2>1. ~ (OneTask!UserStep \/ OneTask!Echo \/ OneTask!NetworkStep)
    BY <1>7 DEF OneTask!UserStep, OneTask!PickPreset, OneTask!PressCustom, OneTask!PickCustom,
                OneTask!Echo, OneTask!NetworkStep, OneTask!DetailAnswered, OneTask!CardsAnswered, OneTask!NodesAnswered,
                OneTask!GaugeAnswered, OneTask!LineAnswered
  <2>2. \A task : ~ OneTask!WatchRoute(task)
    BY <1>7 DEF OneTask!WatchRoute
  <2>. QED
    BY <1>1, <1>3, <1>4, <1>5, <1>7, <2>1, <2>2, TaskDetailSteps
<1>. QED
  BY <1>6, <1>7

-----------------------------------------------------------------------------
(* The overview                                                            *)

(* What a step of the console does to it.                                  *)
LEMMA OverviewSteps ==
    ASSUME ranks.clicked \subseteq Nodes, [Next]_vars, overview' # None
    PROVE  \/ UNCHANGED overview
           \/ \E block \in Landing!Blocks : Landing!Mount(block)
           \/ Landing!UserStep \/ Landing!Echo \/ Landing!NetworkStep
           \/ Landing!Translate
<1>1. ASSUME NEW page, NEW of \in Carries[page], NEW followed \in Parts(page), NEW clicked,
             MountPage(page, of, followed, clicked)
      PROVE  \E block \in Landing!Blocks : Landing!Mount(block)
  <2>1. page = "overview" /\ followed # "ranks" /\ Landing!Mount(followed)
    BY <1>1 DEF MountPage, Landing!Unmount
  <2>2. followed \in Landing!Blocks
    BY <2>1 DEF Parts
  <2>. QED
    BY <2>1, <2>2
<1>2. ASSUME NEW of, NEW clicked, ReusePage(of, clicked)
      PROVE  UNCHANGED overview
  BY <1>2 DEF ReusePage
<1>3. CASE Leave
  BY <1>3 DEF Leave, Landing!Unmount
<1>4. CASE Translate
  BY <1>4 DEF Translate
<1>. QED
  BY <1>1, <1>2, <1>3, <1>4, ConsoleSteps
     DEF Views, OnCardList, OnNodeList, OnTaskList, OnCardDetail, OnNodeDetail,
         OnTaskDetail, OnOverview, OnRanks

(* The lists hold objects of their kinds, the gauge is about the cluster,  *)
(* and a chart that is not followed has no sources.                        *)
OverviewAbout(o) ==
    /\ \A l \in Landing!Lists : o.lists[l] \subseteq Landing!All(l)
    /\ GaugeFor(o.gauge, Landing!Everything, None)
    /\ o.block # "trend" => \A s \in Landing!Sources : o.sources[s] = OneCard!Empty

(* The two lines are over the range of the page.                           *)
OverviewCharts(o) ==
    \A s \in Landing!Sources :
        FieldFor(o.sources[s], {OneCard!Span(Landing!Everything, o.times)})

OverviewInv ==
    overview # None =>
      overview \in Landing!States /\ OverviewAbout(overview) /\ OverviewCharts(overview)

(* The states of the page, in terms of those of gauges and charts.         *)
LEMMA OverviewStates ==
    Landing!States =
      [block : Landing!Blocks, times : Times,
       choice : Presets \union {0}, echo : BOOLEAN,
       lists : [Landing!Lists -> SUBSET (Nodes \union Cards \union Tasks)],
       listsAsked : SUBSET Landing!Lists, rows : SUBSET Nodes, rowsAsked : BOOLEAN,
       gauge : OneCard!GaugeStates({Landing!Everything}),
       sources : [Landing!Sources -> OneCard!FieldStates(OneCard!SpansOf({Landing!Everything}))]]
BY SameOnOverview DEF Landing!States, Times, Landing!Custom

(* The gauges of the overview have no series.                              *)
LEMMA OverviewGauge ==
    ASSUME NEW g \in OneCard!GaugeStates({Landing!Everything}), GaugeFor(g, Landing!Everything, None)
    PROVE  /\ LET m == OneCard!FetchInstantData(g, Landing!Everything)
              IN  /\ m \in OneCard!GaugeStates({Landing!Everything})
                  /\ GaugeFor(m, Landing!Everything, None)
           /\ \A ok : \A m \in OneCard!GaugesAfter(g, Landing!Everything, None, ok) :
                m \in OneCard!GaugeStates({Landing!Everything}) /\ GaugeFor(m, Landing!Everything, None)
<1>1. PICK e : e = Landing!Everything
  OBVIOUS
<1>2. CASE e # None
  <2>1. None \notin {e} /\ e \in {e} \union {None} /\ e \in {e}
    BY <1>2
  <2>2. PICK m : m = OneCard!FetchInstantData(g, e)
    OBVIOUS
  <2>3. m \in OneCard!GaugeStates({e}) /\ GaugeFor(m, e, None)
    BY <1>1, <1>2, <2>1, <2>2, GaugeFetched
  <2>4. ASSUME NEW ok, NEW n \in OneCard!GaugesAfter(g, e, None, ok)
        PROVE  n \in OneCard!GaugeStates({e}) /\ GaugeFor(n, e, None)
    BY <1>1, <2>1, <2>4, GaugeSettled
  <2>. QED
    BY <1>1, <2>2, <2>3, <2>4
<1>3. CASE e = None
  <2>1. Untouched(g)
    BY <1>1, <1>3 DEF GaugeFor
  <2>2. OneCard!FetchInstantData(g, e) = g
    BY <1>3 DEF OneCard!FetchInstantData, OneCard!Resolved
  <2>. QED
    BY <1>1, <2>1, <2>2, UntouchedFor
<1>. QED
  BY <1>2, <1>3

(* The sources of the chart ask, if it is followed.                        *)
LEMMA OverviewRangeFetched ==
    ASSUME NEW o \in Landing!States, OverviewAbout(o)
    PROVE  LET m == Landing!FetchRange(o)
           IN  m \in Landing!States /\ OverviewAbout(m) /\ OverviewCharts(m)
<1>1. CASE o.block = "trend"
  <2>1. PICK span : span = OneCard!Span(Landing!Everything, o.times)
    OBVIOUS
  <2>2. span \in OneCard!SpansOf({Landing!Everything})
    BY <2>1, OverviewStates DEF OneCard!Span, OneCard!SpansOf, Times
  <2>3. PICK sources : sources = [s \in Landing!Sources |-> OneCard!Ask(o.sources[s], span)]
    OBVIOUS
  <2>4. ASSUME NEW s \in Landing!Sources
        PROVE  /\ sources[s] \in OneCard!FieldStates(OneCard!SpansOf({Landing!Everything}))
               /\ FieldFor(sources[s], {span})
    <3>1. o.sources[s] \in OneCard!FieldStates(OneCard!SpansOf({Landing!Everything}))
      BY OverviewStates
    <3>2. sources[s] = OneCard!Ask(o.sources[s], span)
      BY <2>3
    <3>. QED
      BY <2>2, <3>1, <3>2, FieldAsked
  <2>5. sources \in [Landing!Sources -> OneCard!FieldStates(OneCard!SpansOf({Landing!Everything}))]
    BY <2>3, <2>4
  <2>6. PICK m : m = [o EXCEPT !.sources = sources]
    OBVIOUS
  <2>7. m = Landing!FetchRange(o)
    <3>1. sources = [s \in Landing!Sources |-> Landing!Ask(o.sources[s], Landing!Span(Landing!Everything, o.times))]
      BY <2>1, <2>3, SameOnOverview
    <3>. QED
      BY <1>1, <2>6, <3>1 DEF Landing!FetchRange
  <2>8. /\ m \in Landing!States /\ m.block = o.block /\ m.times = o.times
        /\ m.lists = o.lists /\ m.gauge = o.gauge /\ m.sources = sources
    BY <2>5, <2>6, OverviewStates
  <2>9. OverviewAbout(m)
    BY <1>1, <2>8 DEF OverviewAbout
  <2>10. OverviewCharts(m)
    BY <2>1, <2>4, <2>8 DEF OverviewCharts
  <2>. QED
    BY <2>7, <2>8, <2>9, <2>10
<1>2. CASE o.block # "trend"
  <2>1. Landing!FetchRange(o) = o
    BY <1>2 DEF Landing!FetchRange
  <2>2. OverviewCharts(o)
    BY <1>2 DEF OverviewAbout, OverviewCharts, FieldFor, OneCard!Empty
  <2>. QED
    BY <2>1, <2>2
<1>. QED
  BY <1>1, <1>2

(* setup and onMounted, and the range the filter hands over.               *)
LEMMA OverviewMounted ==
    ASSUME NEW block \in Landing!Blocks
    PROVE  LET asked == Landing!FetchNodeWorkload(Landing!FetchLists(Landing!FetchGauge(
                          Landing!FetchRange(Landing!Fresh(block)))))
               m == Landing!FetchRange(Landing!EmitPresetRange(asked, 60))
           IN  m \in Landing!States /\ OverviewAbout(m) /\ OverviewCharts(m)
<1>1. PICK f : f = Landing!Fresh(block)
  OBVIOUS
<1>2. f \in Landing!States /\ OverviewAbout(f)
  <2>1. PICK hasTotal \in BOOLEAN : hasTotal = (block = "rate")
    OBVIOUS
  <2>2. PICK g, line : g = OneCard!Gauge(hasTotal) /\ line = OneCard!Empty
    OBVIOUS
  <2>3. /\ g \in OneCard!GaugeStates({Landing!Everything}) /\ Untouched(g)
        /\ line \in OneCard!FieldStates(OneCard!SpansOf({Landing!Everything}))
        /\ GaugeFor(g, Landing!Everything, None)
    BY <2>2, FreshGauge, UntouchedFor
  <2>4. f = [block |-> block, times |-> 60, choice |-> 60, echo |-> FALSE,
             lists |-> [l \in Landing!Lists |-> {}], listsAsked |-> {},
             rows |-> {}, rowsAsked |-> FALSE,
             gauge |-> g, sources |-> [s \in Landing!Sources |-> line]]
    BY <1>1, <2>1, <2>2, SameOnOverview DEF Landing!Fresh
  <2>5. f \in Landing!States
    BY <2>3, <2>4, TimesGiven, OverviewStates
  <2>. QED
    BY <2>2, <2>3, <2>4, <2>5 DEF OverviewAbout
<1>3. PICK r : r = Landing!FetchRange(f)
  OBVIOUS
<1>4. r \in Landing!States /\ OverviewAbout(r)
  BY <1>2, <1>3, OverviewRangeFetched
<1>5. PICK g : g = Landing!FetchGauge(r)
  OBVIOUS
<1>6. g \in Landing!States /\ OverviewAbout(g)
  <2>1. CASE r.block \in {"rate", "capacity"}
    <3>1. PICK gauge : gauge = OneCard!FetchInstantData(r.gauge, Landing!Everything)
      OBVIOUS
    <3>2. gauge \in OneCard!GaugeStates({Landing!Everything}) /\ GaugeFor(gauge, Landing!Everything, None)
      <4>1. r.gauge \in OneCard!GaugeStates({Landing!Everything}) /\ GaugeFor(r.gauge, Landing!Everything, None)
        BY <1>4, OverviewStates DEF OverviewAbout
      <4>. QED
        BY <3>1, <4>1, OverviewGauge
    <3>3. g = [r EXCEPT !.gauge = gauge]
      BY <1>4, <1>5, <2>1, <3>1, SameOnOverview, OverviewStates DEF Landing!FetchGauge
    <3>4. /\ g \in Landing!States /\ g.block = r.block
          /\ g.lists = r.lists /\ g.gauge = gauge /\ g.sources = r.sources
      BY <1>4, <3>2, <3>3, OverviewStates
    <3>. QED
      BY <1>4, <3>2, <3>4 DEF OverviewAbout
  <2>2. CASE r.block \notin {"rate", "capacity"}
    BY <1>4, <1>5, <2>2 DEF Landing!FetchGauge
  <2>. QED
    BY <2>1, <2>2
<1>7. PICK l : l = Landing!FetchLists(g)
  OBVIOUS
<1>8. /\ l \in Landing!States /\ l.block = g.block
      /\ l.lists = g.lists /\ l.gauge = g.gauge /\ l.sources = g.sources
  BY <1>6, <1>7, OverviewStates DEF Landing!FetchLists
<1>9. PICK w : w = Landing!FetchNodeWorkload(l)
  OBVIOUS
<1>10. /\ w \in Landing!States /\ w.block = g.block
       /\ w.lists = g.lists /\ w.gauge = g.gauge /\ w.sources = g.sources
  BY <1>8, <1>9, OverviewStates DEF Landing!FetchNodeWorkload
<1>11. PICK e : e = Landing!EmitPresetRange(w, 60)
  OBVIOUS
<1>12. /\ e \in Landing!States /\ e.block = g.block
       /\ e.lists = g.lists /\ e.gauge = g.gauge /\ e.sources = g.sources
  BY <1>10, <1>11, TimesGiven, OverviewStates DEF Landing!EmitPresetRange
<1>13. OverviewAbout(e)
  BY <1>6, <1>12 DEF OverviewAbout
<1>14. PICK m : m = Landing!FetchRange(e)
  OBVIOUS
<1>15. m \in Landing!States /\ OverviewAbout(m) /\ OverviewCharts(m)
  BY <1>12, <1>13, <1>14, OverviewRangeFetched
<1>. QED
  BY <1>1, <1>3, <1>5, <1>7, <1>9, <1>11, <1>14, <1>15

(* Another range, whichever way it was picked.                             *)
LEMMA OverviewTimesPicked ==
    ASSUME NEW o \in Landing!States, OverviewAbout(o),
           NEW e, e = [o EXCEPT !.times = e.times, !.choice = e.choice, !.echo = e.echo],
           e.times \in Times, e.choice \in Presets \union {0}, e.echo \in BOOLEAN
    PROVE  LET m == Landing!FetchRange(e)
           IN  m \in Landing!States /\ OverviewAbout(m) /\ OverviewCharts(m)
<1>1. /\ e \in Landing!States /\ e.block = o.block
      /\ e.lists = o.lists /\ e.gauge = o.gauge /\ e.sources = o.sources
  <2>1. PICK times, choice, echo : times = e.times /\ choice = e.choice /\ echo = e.echo
    OBVIOUS
  <2>2. e = [o EXCEPT !.times = times, !.choice = choice, !.echo = echo]
    BY <2>1
  <2>. QED
    BY <2>1, <2>2, OverviewStates
<1>2. OverviewAbout(e)
  BY <1>1 DEF OverviewAbout
<1>. QED
  BY <1>1, <1>2, OverviewRangeFetched

(* A change of language: the requests in flight answer to the old sources. *)
LEMMA OverviewTranslated ==
    ASSUME NEW o \in Landing!States, OverviewAbout(o), OverviewCharts(o), NEW m,
           m = [o EXCEPT !.sources = [s \in Landing!Sources |-> Landing!Abandon(o.sources[s])]]
    PROVE  m \in Landing!States /\ OverviewAbout(m) /\ OverviewCharts(m)
<1>1. PICK sources : sources = [s \in Landing!Sources |-> Landing!Abandon(o.sources[s])]
  OBVIOUS
<1>2. ASSUME NEW s \in Landing!Sources
      PROVE  /\ sources[s] \in OneCard!FieldStates(OneCard!SpansOf({Landing!Everything}))
             /\ \A W : FieldFor(o.sources[s], W) => FieldFor(sources[s], W)
             /\ o.sources[s] = OneCard!Empty => sources[s] = OneCard!Empty
  <2>1. PICK f : f = o.sources[s]
    OBVIOUS
  <2>2. f \in OneCard!FieldStates(OneCard!SpansOf({Landing!Everything}))
    BY <2>1, OverviewStates
  <2>3. PICK newest : newest = IF f.newest = "out" THEN "lost" ELSE f.newest
    OBVIOUS
  <2>4. PICK m1 : m1 = [f EXCEPT !.flights = <<>>, !.newest = newest]
    OBVIOUS
  <2>5. sources[s] = m1
    <3>1. Landing!Abandon(f) = m1
      BY <2>2, <2>3, <2>4 DEF Landing!Abandon, OneCard!FieldStates
    <3>. QED
      BY <1>1, <2>1, <3>1
  <2>6. /\ m1 \in OneCard!FieldStates(OneCard!SpansOf({Landing!Everything}))
        /\ m1.of = f.of /\ m1.flights = <<>> /\ m1.newest = newest
    <3>1. PICK none : none = <<>>
      OBVIOUS
    <3>2. none \in Seq(OneCard!SpansOf({Landing!Everything}))
      BY <3>1
    <3>3. newest \in {"none", "due", "out", "shown", "lost"}
      BY <2>2, <2>3 DEF OneCard!FieldStates
    <3>4. m1 = [f EXCEPT !.flights = none, !.newest = newest]
      BY <2>4, <3>1
    <3>. QED
      BY <2>2, <3>1, <3>2, <3>3, <3>4 DEF OneCard!FieldStates
  <2>7. \A W : FieldFor(f, W) => FieldFor(m1, W)
    BY <2>3, <2>6 DEF FieldFor
  <2>8. ASSUME f = OneCard!Empty
        PROVE  m1 = OneCard!Empty
    <3>1. f.newest = "none" /\ f.flights = <<>>
      BY <2>8 DEF OneCard!Empty
    <3>2. m1 = [f EXCEPT !.flights = f.flights, !.newest = f.newest]
      BY <2>3, <2>4, <3>1
    <3>3. m1 = f
      BY <2>2, <3>2 DEF OneCard!FieldStates
    <3>. QED
      BY <2>8, <3>3
  <2>. QED
    BY <2>1, <2>5, <2>6, <2>7, <2>8
<1>3. sources \in [Landing!Sources -> OneCard!FieldStates(OneCard!SpansOf({Landing!Everything}))]
  BY <1>1, <1>2
<1>4. /\ m \in Landing!States /\ m.block = o.block /\ m.times = o.times
      /\ m.lists = o.lists /\ m.gauge = o.gauge /\ m.sources = sources
  BY <1>1, <1>3, OverviewStates
<1>5. OverviewAbout(m)
  BY <1>2, <1>4 DEF OverviewAbout
<1>6. OverviewCharts(m)
  BY <1>2, <1>4 DEF OverviewCharts
<1>. QED
  BY <1>4, <1>5, <1>6

(* The answers the page waits for, in any order.                           *)
LEMMA OverviewAnswered ==
    ASSUME NEW o, o = overview, o \in Landing!States, OverviewAbout(o), OverviewCharts(o),
           Landing!NetworkStep, NEW m, m = overview'
    PROVE  m \in Landing!States /\ OverviewAbout(m) /\ OverviewCharts(m)
<1>. DEFINE Goal == m \in Landing!States /\ OverviewAbout(m) /\ OverviewCharts(m)
<1>1. ASSUME NEW list \in Landing!Lists, NEW ok, NEW present, Landing!ListAnswered(list, ok, present)
      PROVE  Goal
  <2>1. PICK got : got = IF ok THEN Landing!All(list) \intersect present ELSE o.lists[list]
    OBVIOUS
  <2>2. PICK lists : lists = [o.lists EXCEPT ![list] = got]
    OBVIOUS
  <2>3. got \subseteq Landing!All(list) /\ Landing!All(list) \subseteq Nodes \union Cards \union Tasks
    BY <2>1 DEF OverviewAbout, Landing!All, Landing!Lists
  <2>4. o.lists \in [Landing!Lists -> SUBSET (Nodes \union Cards \union Tasks)]
    BY OverviewStates
  <2>5. /\ lists \in [Landing!Lists -> SUBSET (Nodes \union Cards \union Tasks)]
        /\ \A l \in Landing!Lists : lists[l] \subseteq Landing!All(l)
    BY <2>2, <2>3, <2>4 DEF OverviewAbout
  <2>6. PICK listsAsked \in SUBSET Landing!Lists : listsAsked = o.listsAsked \ {list}
    BY OverviewStates
  <2>7. m = [o EXCEPT !.listsAsked = listsAsked, !.lists = lists]
    BY <1>1, <2>1, <2>2, <2>6, OverviewStates DEF Landing!ListAnswered
  <2>8. /\ m \in Landing!States /\ m.block = o.block /\ m.times = o.times
        /\ m.lists = lists /\ m.gauge = o.gauge /\ m.sources = o.sources
    BY <2>5, <2>7, OverviewStates
  <2>. QED
    BY <2>5, <2>8 DEF OverviewAbout, OverviewCharts
<1>2. ASSUME NEW ok, Landing!RowsAnswered(ok)
      PROVE  Goal
  <2>1. PICK rows \in SUBSET Nodes : rows = IF ok THEN Nodes ELSE {}
    OBVIOUS
  <2>2. m = [o EXCEPT !.rowsAsked = FALSE, !.rows = rows]
    BY <1>2, <2>1 DEF Landing!RowsAnswered
  <2>3. /\ m \in Landing!States /\ m.block = o.block /\ m.times = o.times
        /\ m.lists = o.lists /\ m.gauge = o.gauge /\ m.sources = o.sources
    BY <2>2, OverviewStates
  <2>. QED
    BY <2>3 DEF OverviewAbout, OverviewCharts
<1>3. ASSUME NEW ok, Landing!GaugeAnswered(ok)
      PROVE  Goal
  <2>1. PICK gauge \in OneCard!GaugesAfter(o.gauge, Landing!Everything, None, ok) : m = [o EXCEPT !.gauge = gauge]
    BY <1>3, SameOnOverview DEF Landing!GaugeAnswered
  <2>2. gauge \in OneCard!GaugeStates({Landing!Everything}) /\ GaugeFor(gauge, Landing!Everything, None)
    <3>1. o.gauge \in OneCard!GaugeStates({Landing!Everything}) /\ GaugeFor(o.gauge, Landing!Everything, None)
      BY OverviewStates DEF OverviewAbout
    <3>. QED
      BY <2>1, <3>1, OverviewGauge
  <2>3. /\ m \in Landing!States /\ m.block = o.block /\ m.times = o.times
        /\ m.lists = o.lists /\ m.gauge = gauge /\ m.sources = o.sources
    BY <2>1, <2>2, OverviewStates
  <2>. QED
    BY <2>2, <2>3 DEF OverviewAbout, OverviewCharts
<1>4. ASSUME NEW s \in Landing!Sources, NEW ok, Landing!SourceAnswered(s, ok)
      PROVE  Goal
  <2>1. PICK field \in OneCard!FieldsAfter(o.sources[s], ok) : m = [o EXCEPT !.sources[s] = field]
    BY <1>4, SameOnOverview DEF Landing!SourceAnswered
  <2>2. o.sources \in [Landing!Sources -> OneCard!FieldStates(OneCard!SpansOf({Landing!Everything}))]
    BY OverviewStates
  <2>3. PICK before : before = o.sources[s]
    OBVIOUS
  <2>4. /\ before \in OneCard!FieldStates(OneCard!SpansOf({Landing!Everything}))
        /\ FieldFor(before, {OneCard!Span(Landing!Everything, o.times)})
    BY <2>2, <2>3 DEF OverviewCharts
  <2>5. /\ field \in OneCard!FieldStates(OneCard!SpansOf({Landing!Everything}))
        /\ FieldFor(field, {OneCard!Span(Landing!Everything, o.times)})
    BY <2>1, <2>3, <2>4, FieldSettled
  <2>6. o.block = "trend"
    <3>1. CASE before = OneCard!Empty
      <4>1. DOMAIN before.flights = {}
        BY <3>1 DEF OneCard!Empty
      <4>. QED
        BY <2>1, <2>3, <4>1 DEF OneCard!FieldsAfter
    <3>. QED
      BY <2>3, <3>1 DEF OverviewAbout
  <2>7. PICK sources : sources = [o.sources EXCEPT ![s] = field]
    OBVIOUS
  <2>8. sources \in [Landing!Sources -> OneCard!FieldStates(OneCard!SpansOf({Landing!Everything}))]
    BY <2>2, <2>5, <2>7
  <2>9. m = [o EXCEPT !.sources = sources]
    BY <2>1, <2>7, OverviewStates
  <2>10. /\ m \in Landing!States /\ m.block = o.block /\ m.times = o.times
         /\ m.lists = o.lists /\ m.gauge = o.gauge /\ m.sources = sources
    BY <2>8, <2>9, OverviewStates
  <2>11. OverviewAbout(m)
    BY <2>6, <2>10 DEF OverviewAbout
  <2>12. ASSUME NEW t \in Landing!Sources
         PROVE  FieldFor(sources[t], {OneCard!Span(Landing!Everything, o.times)})
    <3>1. CASE t = s
      BY <2>2, <2>5, <2>7, <3>1
    <3>2. CASE t # s
      <4>1. sources[t] = o.sources[t]
        BY <2>2, <2>7, <3>2
      <4>. QED
        BY <4>1 DEF OverviewCharts
    <3>. QED
      BY <3>1, <3>2
  <2>13. OverviewCharts(m)
    BY <2>10, <2>12 DEF OverviewCharts
  <2>. QED
    BY <2>10, <2>11, <2>13
<1>. HIDE DEF Goal
<1>5. Goal
  BY <1>1, <1>2, <1>3, <1>4 DEF Landing!NetworkStep
<1>. QED
  BY <1>5 DEF Goal

(* The overview keeps its invariant.                                       *)
LEMMA OverviewStep ==
    ASSUME OverviewInv, ranks.clicked \subseteq Nodes, [Next]_vars
    PROVE  OverviewInv'
<1>. DEFINE Good(m) == m \in Landing!States /\ OverviewAbout(m) /\ OverviewCharts(m)
<1>1. SUFFICES ASSUME overview' # None
               PROVE  OverviewInv'
  BY DEF OverviewInv
<1>2. PICK m : m = overview'
  OBVIOUS
<1>3. ASSUME Good(m)
      PROVE  OverviewInv'
  BY <1>2, <1>3 DEF OverviewInv, OverviewAbout, OverviewCharts
<1>4. ASSUME NEW block \in Landing!Blocks, Landing!Mount(block)
      PROVE  Good(m)
  BY <1>2, <1>4, OverviewMounted DEF Landing!Mount
<1>5. ASSUME overview # None, NEW o, o = overview
      PROVE  /\ Good(o)
             /\ UNCHANGED overview => Good(m)
             /\ Landing!Translate => Good(m)
             /\ Landing!UserStep \/ Landing!Echo \/ Landing!NetworkStep => Good(m)
  <2>1. Good(o)
    BY <1>5 DEF OverviewInv
  <2>2. CASE UNCHANGED overview
    BY <1>2, <1>5, <2>1, <2>2
  <2>3. ASSUME Landing!Translate
        PROVE  Good(m)
    <3>1. m = [o EXCEPT !.sources = [s \in Landing!Sources |-> Landing!Abandon(o.sources[s])]]
      BY <1>2, <1>5, <2>3 DEF Landing!Translate
    <3>. QED
      BY <2>1, <3>1, OverviewTranslated
  <2>4. ASSUME NEW e, e = [o EXCEPT !.times = e.times, !.choice = e.choice, !.echo = e.echo],
               e.times \in Times, e.choice \in Presets \union {0}, e.echo \in BOOLEAN,
               m = Landing!FetchRange(e)
        PROVE  Good(m)
    BY <2>1, <2>4, OverviewTimesPicked
  <2>5. o.times \in Times /\ o.choice \in Presets \union {0} /\ o.echo \in BOOLEAN
    BY <2>1, OverviewStates
  <2>6. ASSUME NEW preset \in Presets, Landing!PickPreset(preset)
        PROVE  Good(m)
    <3>1. PICK e : e = Landing!EmitPresetRange(o, preset)
      OBVIOUS
    <3>2. /\ e = [o EXCEPT !.times = e.times, !.choice = e.choice, !.echo = e.echo]
          /\ e.times = preset /\ e.choice = preset /\ e.echo = FALSE
      BY <2>1, <3>1, OverviewStates DEF Landing!EmitPresetRange
    <3>3. m = Landing!FetchRange(e)
      BY <1>2, <1>5, <2>6, <3>1 DEF Landing!PickPreset
    <3>. HIDE DEF Good
    <3>. QED
      BY <2>4, <2>6, <3>2, <3>3 DEF Times
  <2>7. ASSUME NEW minutes \in Customs, Landing!PickCustom(minutes)
        PROVE  Good(m)
    <3>1. PICK e : e = Landing!EmitCustomRange(o, minutes)
      OBVIOUS
    <3>2. /\ e = [o EXCEPT !.times = e.times, !.choice = e.choice, !.echo = e.echo]
          /\ e.times = minutes /\ e.choice = o.choice /\ e.echo = TRUE
      BY <2>1, <3>1, OverviewStates DEF Landing!EmitCustomRange
    <3>3. m = Landing!FetchRange(e)
      BY <1>2, <1>5, <2>7, <3>1 DEF Landing!PickCustom
    <3>. HIDE DEF Good
    <3>. QED
      BY <2>4, <2>5, <2>7, <3>2, <3>3 DEF Times
  <2>8. ASSUME Landing!Echo
        PROVE  Good(m)
    <3>1. o = [o EXCEPT !.times = o.times, !.choice = o.choice, !.echo = o.echo]
      BY <2>1, OverviewStates
    <3>2. m = Landing!FetchRange(o)
      BY <1>2, <1>5, <2>8 DEF Landing!Echo
    <3>. HIDE DEF Good
    <3>. QED
      BY <2>4, <2>5, <3>1, <3>2
  <2>9. ASSUME Landing!PressCustom
        PROVE  Good(m)
    <3>1. m = [o EXCEPT !.choice = 0]
      BY <1>2, <1>5, <2>9 DEF Landing!PressCustom, Landing!ShowPicker, Landing!Custom
    <3>2. /\ m \in Landing!States /\ m.block = o.block /\ m.times = o.times
          /\ m.lists = o.lists /\ m.gauge = o.gauge /\ m.sources = o.sources
      BY <2>1, <3>1, OverviewStates
    <3>. QED
      BY <2>1, <3>2 DEF OverviewAbout, OverviewCharts
  <2>10. ASSUME Landing!NetworkStep
         PROVE  Good(m)
    BY <1>2, <1>5, <2>1, <2>10, OverviewAnswered
  <2>. HIDE DEF Good
  <2>11. ASSUME Landing!UserStep
         PROVE  Good(m)
    BY <2>6, <2>7, <2>9, <2>11 DEF Landing!UserStep
  <2>. QED
    BY <2>1, <1>2, <1>5, <2>3, <2>8, <2>10, <2>11
<1>. HIDE DEF Good
<1>6. CASE overview # None
  <2>1. \/ UNCHANGED overview
        \/ \E block \in Landing!Blocks : Landing!Mount(block)
        \/ Landing!UserStep \/ Landing!Echo \/ Landing!NetworkStep
        \/ Landing!Translate
    BY <1>1, OverviewSteps
  <2>. QED
    BY <1>3, <1>4, <1>5, <1>6, <2>1
<1>7. CASE overview = None
  <2>1. ~ (Landing!UserStep \/ Landing!Echo \/ Landing!NetworkStep)
    BY <1>7 DEF Landing!UserStep, Landing!PickPreset, Landing!PressCustom, Landing!PickCustom,
                Landing!Echo, Landing!NetworkStep, Landing!ListAnswered, Landing!RowsAnswered,
                Landing!GaugeAnswered, Landing!SourceAnswered
  <2>2. ~ Landing!Translate
    BY <1>1, <1>7 DEF Landing!Translate
  <2>. QED
    BY <1>1, <1>3, <1>4, <1>7, <2>1, <2>2, OverviewSteps
<1>. QED
  BY <1>6, <1>7

-----------------------------------------------------------------------------
(* The ranking panels, the route and the user's steps                      *)

(* The panels that a page may show.                                        *)
LEMMA RankPanelsShown ==
    ASSUME NEW page \in Pages, "ranks" \in Parts(page),
           NEW panel \in CASE page \in {"overview", "nodes"} -> {"nodeTop"}
                           [] page = "cards" -> {"cardTop"}
                           [] page = "tasks" -> {"taskCount", "taskApply"}
    PROVE  panel \in Ranking!Panels
<1>1. page \in {"overview", "nodes", "cards", "tasks"}
  BY DEF Pages, Carries, Parts, OneCard!Panels, OneNode!Panels, OneTask!Panels
<1>. QED
  BY <1>1 DEF Ranking!Panels, Ranking!Tabs

(* A panel whose data are asked for has its tabs, and nothing in them.     *)
LEMMA RanksFetched ==
    ASSUME NEW r, r \in [panel : Ranking!Panels \union {None}, pie : {None, "out", "in", "failed"},
                         active : Nat, data : {r.data}, flights : {r.flights}, clicked : SUBSET Nodes],
           NEW panel \in Ranking!Panels
    PROVE  LET m == Ranking!FetchData(r, panel)
           IN  /\ m \in Ranking!States(m.data) /\ m.panel = panel /\ m.active \in DOMAIN m.data
               /\ DOMAIN m.data = DOMAIN Ranking!Tabs[panel]
               /\ \A i \in DOMAIN m.data : m.data[i] = None
               /\ m.pie = r.pie /\ m.clicked = r.clicked
<1>1. PICK tabs : tabs = Ranking!Tabs[panel]
  OBVIOUS
<1>2. 1 \in DOMAIN tabs
  BY <1>1 DEF Ranking!Panels, Ranking!Tabs
<1>3. PICK data : data = [i \in DOMAIN tabs |-> None]
  OBVIOUS
<1>4. PICK flights : flights = DOMAIN tabs
  OBVIOUS
<1>5. PICK m : m = [r EXCEPT !.panel = panel, !.active = 1, !.data = data, !.flights = flights]
  OBVIOUS
<1>6. m = Ranking!FetchData(r, panel)
  BY <1>1, <1>3, <1>4, <1>5 DEF Ranking!FetchData, Ranking!Unfetched
<1>7. /\ m.panel = panel /\ m.active = 1 /\ m.data = data /\ m.flights = flights
      /\ m.pie = r.pie /\ m.clicked = r.clicked
      /\ m \in [panel : Ranking!Panels \union {None}, pie : {None, "out", "in", "failed"},
                active : Nat, data : {data}, flights : {flights}, clicked : SUBSET Nodes]
  BY <1>5
<1>8. DOMAIN data = DOMAIN tabs /\ flights \in SUBSET DOMAIN data
  BY <1>3, <1>4
<1>9. m \in Ranking!States(m.data)
  BY <1>7, <1>8 DEF Ranking!States
<1>. QED
  BY <1>1, <1>2, <1>3, <1>6, <1>7, <1>8, <1>9

(* Mounting, unmounting and a change of language.                          *)
LEMMA RanksMounted ==
    ASSUME Ranking!TypeOK, NEW clicked \in SUBSET Nodes,
           \/ \E panel \in Ranking!Panels, pie \in BOOLEAN : Ranking!Mount(panel, pie, clicked)
           \/ Ranking!Unmount(clicked)
           \/ Ranking!Translate
           \/ ranks' = [ranks EXCEPT !.clicked = clicked]
    PROVE  Ranking!TypeOK'
<1>1. PICK idle : idle = [Ranking!Idle EXCEPT !.clicked = clicked]
  OBVIOUS
<1>2. idle = [panel |-> None, pie |-> None, active |-> 0,
              data |-> <<>>, flights |-> {}, clicked |-> clicked]
  BY <1>1 DEF Ranking!Idle
<1>3. PICK m : m = ranks'
  OBVIOUS
<1>4. ASSUME NEW panel \in Ranking!Panels, NEW pie \in BOOLEAN, Ranking!Mount(panel, pie, clicked)
      PROVE  Ranking!TypeOK'
  <2>1. PICK f : f = Ranking!FetchData(idle, panel)
    OBVIOUS
  <2>2. idle \in [panel : Ranking!Panels \union {None}, pie : {None, "out", "in", "failed"},
                  active : Nat, data : {idle.data}, flights : {idle.flights}, clicked : SUBSET Nodes]
    BY <1>2
  <2>3. /\ f \in Ranking!States(f.data) /\ f.panel = panel /\ f.active \in DOMAIN f.data
        /\ DOMAIN f.data = DOMAIN Ranking!Tabs[panel]
        /\ \A i \in DOMAIN f.data : f.data[i] = None
    BY <2>1, <2>2, RanksFetched
  <2>4. PICK p \in {None, "out"} : p = IF pie THEN "out" ELSE None
    OBVIOUS
  <2>5. m = [f EXCEPT !.pie = p]
    BY <1>1, <1>3, <1>4, <2>1, <2>4 DEF Ranking!Mount
  <2>6. /\ m \in Ranking!States(m.data)
        /\ m.panel = f.panel /\ m.active = f.active /\ m.data = f.data
    BY <2>3, <2>4, <2>5 DEF Ranking!States
  <2>. QED
    BY <1>3, <2>3, <2>6 DEF Ranking!TypeOK
<1>5. CASE Ranking!Unmount(clicked)
  <2>1. m = idle
    BY <1>1, <1>3, <1>5 DEF Ranking!Unmount
  <2>2. m.panel = None /\ m \in Ranking!States(m.data)
    BY <1>2, <2>1 DEF Ranking!States
  <2>3. None \notin Ranking!Panels \/ None \in Ranking!Panels
    OBVIOUS
  <2>. QED
    BY <1>3, <2>2 DEF Ranking!TypeOK
<1>6. CASE Ranking!Translate
  <2>1. CASE ranks.panel = None
    BY <1>6, <2>1 DEF Ranking!Translate, Ranking!TypeOK
  <2>2. CASE ranks.panel # None
    <3>1. /\ ranks.panel \in Ranking!Panels
          /\ ranks \in [panel : Ranking!Panels \union {None}, pie : {None, "out", "in", "failed"},
                        active : Nat, data : {ranks.data}, flights : {ranks.flights}, clicked : SUBSET Nodes]
      BY <2>2 DEF Ranking!TypeOK, Ranking!States
    <3>2. m = Ranking!FetchData(ranks, ranks.panel)
      BY <1>3, <1>6, <2>2 DEF Ranking!Translate
    <3>3. /\ m \in Ranking!States(m.data) /\ m.panel = ranks.panel /\ m.active \in DOMAIN m.data
          /\ DOMAIN m.data = DOMAIN Ranking!Tabs[m.panel]
          /\ \A i \in DOMAIN m.data : m.data[i] = None
      BY <3>1, <3>2, RanksFetched
    <3>. QED
      BY <1>3, <3>3 DEF Ranking!TypeOK
  <2>. QED
    BY <2>1, <2>2
<1>7. CASE ranks' = [ranks EXCEPT !.clicked = clicked]
  <2>1. /\ m \in Ranking!States(m.data)
        /\ m.panel = ranks.panel /\ m.active = ranks.active /\ m.data = ranks.data
    BY <1>3, <1>7 DEF Ranking!TypeOK, Ranking!States
  <2>. QED
    BY <1>3, <2>1 DEF Ranking!TypeOK
<1>. QED
  BY <1>4, <1>5, <1>6, <1>7

(* What happens on a panel.                                                *)
LEMMA RanksUsed ==
    ASSUME Ranking!TypeOK,
           \/ Ranking!UserStep \/ Ranking!NetworkStep
           \/ \E name \in Nodes : Ranking!ClickNode(name) \/ Ranking!NotFound(name)
    PROVE  Ranking!TypeOK'
<1>1. PICK m : m = ranks'
  OBVIOUS
<1>2. ASSUME NEW clicked \in SUBSET Nodes, ranks' = [ranks EXCEPT !.clicked = clicked]
      PROVE  Ranking!TypeOK'
  BY <1>2, RanksMounted
<1>3. ranks \in Ranking!States(ranks.data) /\ ranks.clicked \in SUBSET Nodes
  BY DEF Ranking!TypeOK, Ranking!States
<1>4. ASSUME NEW name \in Nodes, Ranking!ClickNode(name) \/ Ranking!NotFound(name)
      PROVE  Ranking!TypeOK'
  <2>1. CASE Ranking!ClickNode(name)
    <3>1. PICK clicked \in SUBSET Nodes : clicked = ranks.clicked \union {name}
      BY <1>3
    <3>2. ranks' = [ranks EXCEPT !.clicked = clicked]
      BY <1>3, <2>1, <3>1 DEF Ranking!ClickNode, Ranking!States
    <3>. QED
      BY <1>2, <3>2
  <2>2. CASE Ranking!NotFound(name)
    <3>1. PICK clicked \in SUBSET Nodes : clicked = ranks.clicked \ {name}
      BY <1>3
    <3>2. ranks' = [ranks EXCEPT !.clicked = clicked]
      BY <1>3, <2>2, <3>1 DEF Ranking!NotFound, Ranking!States
    <3>. QED
      BY <1>2, <3>2
  <2>. QED
    BY <1>4, <2>1, <2>2
<1>5. ASSUME NEW i \in 1 .. 3, Ranking!SelectTab(i)
      PROVE  Ranking!TypeOK'
  <2>1. m = [ranks EXCEPT !.active = i] /\ i \in DOMAIN ranks.data /\ i \in Nat
    BY <1>1, <1>5 DEF Ranking!SelectTab
  <2>2. /\ m \in Ranking!States(m.data)
        /\ m.panel = ranks.panel /\ m.active = i /\ m.data = ranks.data
    BY <1>3, <2>1 DEF Ranking!States
  <2>. QED
    BY <1>1, <2>1, <2>2 DEF Ranking!TypeOK
<1>6. ASSUME NEW ok, Ranking!PieAnswered(ok)
      PROVE  Ranking!TypeOK'
  <2>1. PICK pie \in {"in", "failed"} : pie = IF ok THEN "in" ELSE "failed"
    OBVIOUS
  <2>2. m = [ranks EXCEPT !.pie = pie]
    BY <1>1, <1>6, <2>1 DEF Ranking!PieAnswered
  <2>3. /\ m \in Ranking!States(m.data)
        /\ m.panel = ranks.panel /\ m.active = ranks.active /\ m.data = ranks.data
    BY <1>3, <2>1, <2>2 DEF Ranking!States
  <2>. QED
    BY <1>1, <2>3 DEF Ranking!TypeOK
<1>7. ASSUME NEW i, NEW ok, Ranking!TabAnswered(i, ok)
      PROVE  Ranking!TypeOK'
  <2>1. PICK flights : flights = ranks.flights \ {i}
    OBVIOUS
  <2>2. PICK got : got = IF ok THEN Ranking!Ranked(Ranking!Tabs[ranks.panel][i]) ELSE ranks.data[i]
    OBVIOUS
  <2>3. PICK data : data = [ranks.data EXCEPT ![i] = got]
    OBVIOUS
  <2>4. m = [ranks EXCEPT !.flights = flights, !.data = data]
    BY <1>1, <1>3, <1>7, <2>1, <2>2, <2>3 DEF Ranking!TabAnswered, Ranking!States
  <2>5. DOMAIN data = DOMAIN ranks.data /\ flights \in SUBSET DOMAIN data
    BY <1>3, <2>1, <2>3 DEF Ranking!States
  <2>6. /\ m \in Ranking!States(m.data)
        /\ m.panel = ranks.panel /\ m.active = ranks.active /\ m.data = data
    BY <1>3, <2>4, <2>5 DEF Ranking!States
  <2>7. ASSUME ranks.panel # None, NEW j \in DOMAIN data
        PROVE  data[j] \in {None, Ranking!Ranked(Ranking!Tabs[ranks.panel][j])}
    BY <2>2, <2>3, <2>5, <2>7 DEF Ranking!TypeOK
  <2>. QED
    BY <1>1, <2>5, <2>6, <2>7 DEF Ranking!TypeOK
<1>. QED
  BY <1>4, <1>5, <1>6, <1>7 DEF Ranking!UserStep, Ranking!NetworkStep

(* The ranking panels keep their invariant.                                *)
LEMMA RanksStep ==
    ASSUME Ranking!TypeOK, [Next]_vars
    PROVE  Ranking!TypeOK'
<1>1. ranks.clicked \in SUBSET Nodes
  BY DEF Ranking!TypeOK, Ranking!States
<1>2. CASE UNCHANGED ranks
  BY <1>2 DEF Ranking!TypeOK
<1>3. ASSUME NEW page \in Pages, NEW of, NEW followed \in Parts(page), NEW clicked \in SUBSET Nodes,
             MountPage(page, of, followed, clicked)
      PROVE  Ranking!TypeOK'
  <2>1. CASE followed = "ranks"
    <3>1. PICK panel \in CASE page \in {"overview", "nodes"} -> {"nodeTop"}
                           [] page = "cards" -> {"cardTop"}
                           [] page = "tasks" -> {"taskCount", "taskApply"} :
            Ranking!Mount(panel, page \in {"nodes", "cards"}, clicked)
      BY <1>3, <2>1 DEF MountPage
    <3>2. panel \in Ranking!Panels
      BY <2>1, <3>1, RankPanelsShown
    <3>3. PICK pie \in BOOLEAN : pie = (page \in {"nodes", "cards"})
      <4>1. CASE page \in {"nodes", "cards"}
        <5>1. TRUE = (page \in {"nodes", "cards"})
          BY <4>1
        <5>. QED
          BY <5>1
      <4>2. CASE page \notin {"nodes", "cards"}
        <5>1. FALSE = (page \in {"nodes", "cards"})
          BY <4>2
        <5>. QED
          BY <5>1
      <4>. QED
        BY <4>1, <4>2
    <3>4. Ranking!Mount(panel, pie, clicked)
      BY <3>1, <3>3
    <3>. QED
      BY <3>2, <3>4, RanksMounted
  <2>2. CASE followed # "ranks"
    BY <1>3, <2>2, RanksMounted DEF MountPage
  <2>. QED
    BY <2>1, <2>2
<1>4. ASSUME NEW of, NEW clicked \in SUBSET Nodes, ReusePage(of, clicked)
      PROVE  Ranking!TypeOK'
  BY <1>4, RanksMounted DEF ReusePage
<1>5. CASE Leave
  <2>1. PICK clicked \in SUBSET Nodes : Ranking!Unmount(clicked)
    BY <1>1, <1>5 DEF Leave
  <2>. QED
    BY <2>1, RanksMounted
<1>6. CASE Translate
  BY <1>1, <1>6, RanksMounted DEF Translate
<1>7. CASE OnRanks(Ranking!UserStep \/ Ranking!NetworkStep)
  BY <1>7, RanksUsed DEF OnRanks
<1>8. ASSUME NEW name \in Nodes, OnRanks(Ranking!ClickNode(name) \/ Ranking!NotFound(name))
      PROVE  Ranking!TypeOK'
  BY <1>8, RanksUsed DEF OnRanks
<1>. QED
  BY <1>1, <1>2, <1>3, <1>4, <1>5, <1>6, <1>7, <1>8, ConsoleSteps
     DEF OnCardList, OnNodeList, OnTaskList, OnCardDetail, OnNodeDetail, OnTaskDetail, OnOverview

(* The route keeps being that of a page or none.                           *)
LEMMA RouteStep ==
    ASSUME RouteInv, ranks.clicked \subseteq Nodes, [Next]_vars
    PROVE  RouteInv'
<1>1. ASSUME NEW page \in Pages \union {None}, NEW of, route' = [page |-> page, of |-> of]
      PROVE  RouteInv'
  BY <1>1 DEF RouteInv, Pages, Carries
<1>2. CASE UNCHANGED route
  BY <1>2 DEF RouteInv, Pages, Carries
<1>3. ASSUME NEW page \in Pages, NEW of, NEW followed, NEW clicked, MountPage(page, of, followed, clicked)
      PROVE  RouteInv'
  BY <1>1, <1>3 DEF MountPage
<1>4. ASSUME NEW of, NEW clicked, ReusePage(of, clicked)
      PROVE  RouteInv'
  <2>1. route.page \in Pages \union {None} /\ route' = [page |-> route.page, of |-> of]
    BY <1>4 DEF RouteInv, ReusePage
  <2>. QED
    BY <1>1, <2>1
<1>5. CASE Leave
  BY <1>1, <1>5 DEF Leave, Nowhere
<1>6. CASE Translate
  BY <1>2, <1>6 DEF Translate
<1>. QED
  BY <1>2, <1>3, <1>4, <1>5, <1>6, ConsoleSteps
     DEF OnCardList, OnNodeList, OnTaskList, OnCardDetail, OnNodeDetail,
         OnTaskDetail, OnOverview, OnRanks

(* The bound on the user's steps is kept.                                  *)
LEMMA UsesStep ==
    ASSUME uses \in 0 .. MaxUses, [Next]_vars
    PROVE  uses' \in 0 .. MaxUses
<1>1. MaxGone \in Nat /\ MaxUses \in Nat
  BY ConsoleAssumption, Zenon
<1>2. uses' = 0 \/ uses' = uses \/ (uses < MaxUses /\ uses' = uses + 1)
  BY DEF Next, User, Open, Turn, Leave, UsePage, Translate, ClickRank, Echo, Network,
         Answer, LookupAnswered, Used, vars
<1>. QED
  BY <1>1, <1>2

-----------------------------------------------------------------------------
(* The promises of the other pages                                         *)

(* Their inductive invariant.                                              *)
DetailsInv ==
    /\ RouteInv /\ uses \in 0 .. MaxUses
    /\ CardDetailInv /\ NodeDetailInv /\ TaskDetailInv
    /\ OverviewInv /\ Ranking!TypeOK

(* It holds whatever the user does on whichever page, whatever the time    *)
(* filters hand over and in whatever order the network answers.            *)
THEOREM Details == Spec => []DetailsInv
<1>1. Init => DetailsInv
  <2>1. SUFFICES ASSUME Init
                 PROVE  DetailsInv
    OBVIOUS
  <2>2. RouteInv
    BY <2>1 DEF Init, RouteInv, Nowhere
  <2>3. uses \in 0 .. MaxUses
    <3>1. MaxGone \in Nat /\ MaxUses \in Nat
      BY ConsoleAssumption, Zenon
    <3>. QED
      BY <2>1, <3>1 DEF Init
  <2>4. CardDetailInv /\ NodeDetailInv /\ TaskDetailInv /\ OverviewInv
    BY <2>1 DEF Init, OneCard!Init, OneNode!Init, OneTask!Init, Landing!Init,
                CardDetailInv, NodeDetailInv, TaskDetailInv, OverviewInv
  <2>5. Ranking!TypeOK
    BY <2>1 DEF Init, Ranking!Init, Ranking!Idle, Ranking!TypeOK, Ranking!States
  <2>. QED
    BY <2>2, <2>3, <2>4, <2>5 DEF DetailsInv
<1>2. DetailsInv /\ [Next]_vars => DetailsInv'
  <2>1. Ranking!TypeOK => ranks.clicked \subseteq Nodes
    BY DEF Ranking!TypeOK, Ranking!States
  <2>. QED
    BY <2>1, RouteStep, UsesStep, CardDetailStep, NodeDetailStep, TaskDetailStep, OverviewStep,
       RanksStep
       DEF DetailsInv
<1>. QED
  BY <1>1, <1>2, PTL DEF Spec

(* Every page holds what its record in the code may hold: figures and      *)
(* requests about objects of the right kind, over ranges the filter lets   *)
(* pick; the panels have their tabs; the route is that of a page.          *)
THEOREM Typed == Spec => []TypeOK
<1>1. DetailsInv /\ CardPage!TypeOK /\ NodePage!TypeOK /\ TaskPage!TypeOK => TypeOK
  BY DEF DetailsInv, RouteInv, CardDetailInv, CardKept, NodeDetailInv, NodeKept,
         TaskDetailInv, TaskKept, OverviewInv, OverviewAbout, TypeOK,
         OneCard!TypeOK, OneNode!TypeOK, OneTask!TypeOK, Landing!TypeOK
<1>. QED
  BY <1>1, Details, ListsTyped, PTL

(* What the inductive invariant says of the page of a card.                *)
LEMMA CardDetailPromises ==
    ASSUME CardDetailInv, NEW d, d = cardDetail, d # None
    PROVE  /\ ~ d.reused =>
                /\ d.detail \in {None, NoName, route.of}
                /\ {d.deviceNo, d.reading.of} \subseteq {None, route.of}
                /\ d.nodeUid \in {None, NodeOf[route.of]}
           /\ OneCard!NodeLink(d) # None => OneCard!NodeLink(d).uid = OneCard!Header(d).node
           /\ OneCard!Current(d.gauge) =>
                /\ OneCard!HasGauge(d) /\ d.gauge.used.of = route.of
                /\ d.gauge.hasTotal => d.gauge.percent = <<route.of, route.of>>
           /\ d.line.newest = "shown" => OneCard!Charts(d).trend.times = d.times
           /\ d.gauge.series.newest = "shown" =>
                OneCard!Charts(d).allocation = OneCard!Span(route.of, d.times)
           /\ d.times \in Times
<1>1. /\ d \in OneCard!States /\ CardAbout(d) /\ CardCharts(d) /\ route.of = d.uuid
  BY DEF CardDetailInv, CardKept
<1>2. ASSUME ~ d.reused
      PROVE  /\ d.detail \in {None, NoName, d.uuid}
             /\ {d.deviceNo, d.reading.of} \subseteq {None, d.uuid}
             /\ d.nodeUid \in {None, NodeOf[d.uuid]}
  BY <1>1, <1>2 DEF CardAbout, OneCard!Filled, OneCard!FieldStates
<1>3. OneCard!NodeLink(d) # None => OneCard!NodeLink(d).uid = OneCard!Header(d).node
  BY <1>1 DEF CardAbout, OneCard!Filled, OneCard!NodeLink, OneCard!Header
<1>4. ASSUME OneCard!Current(d.gauge)
      PROVE  /\ OneCard!HasGauge(d) /\ d.gauge.used.of = d.uuid
             /\ d.gauge.hasTotal => d.gauge.percent = <<d.uuid, d.uuid>>
  <2>1. /\ d.gauge.used.newest = "shown"
        /\ d.gauge.hasTotal => d.gauge.total.newest = "shown"
    BY <1>4 DEF OneCard!Current
  <2>2. OneCard!HasGauge(d)
    BY <1>1, <2>1 DEF CardCharts, Untouched, OneCard!Empty
  <2>. QED
    BY <1>1, <2>1, <2>2 DEF CardCharts, GaugeFor, FieldFor
<1>5. d.line.newest = "shown" => OneCard!Charts(d).trend.times = d.times
  BY <1>1 DEF CardCharts, FieldFor, OneCard!Charts
<1>6. d.gauge.series.newest = "shown" => OneCard!Charts(d).allocation = OneCard!Span(d.uuid, d.times)
  BY <1>1 DEF CardCharts, GaugeFor, FieldFor, OneCard!Charts
<1>7. d.times \in Times
  BY <1>1 DEF OneCard!States, Times
<1>. QED
  BY <1>1, <1>2, <1>3, <1>4, <1>5, <1>6, <1>7

(* What it says of the page of a node.                                     *)
LEMMA NodeDetailPromises ==
    ASSUME NodeDetailInv, NEW d, d = nodeDetail, d # None
    PROVE  /\ ~ d.reused => d.detail \in {None, route.of}
           /\ OneNode!Current(d.gauge) =>
                /\ OneNode!Header(d).name = d.gauge.used.of
                /\ d.gauge.percent = <<d.detail, d.detail>>
           /\ d.gauge.series.newest = "shown" =>
                OneNode!Charts(d).series = OneNode!Span(d.detail, d.times)
           /\ d.times \in Times
<1>1. /\ d \in OneNode!States /\ NodeAbout(d) /\ NodeCharts(d) /\ route.of = d.uid
  BY DEF NodeDetailInv, NodeKept
<1>2. ASSUME OneNode!Current(d.gauge)
      PROVE  /\ OneNode!Header(d).name = d.gauge.used.of
             /\ d.gauge.percent = <<d.detail, d.detail>>
  <2>1. d.gauge.used.newest = "shown" /\ d.gauge.total.newest = "shown"
    BY <1>1, <1>2 DEF OneNode!Current, NodeCharts
  <2>2. d.gauge.used.of = d.detail /\ d.gauge.percent = <<d.detail, d.detail>>
    BY <1>1, <2>1 DEF NodeCharts, GaugeFor, FieldFor
  <2>. QED
    BY <2>2 DEF OneNode!Header
<1>3. d.gauge.series.newest = "shown" => d.gauge.series.of = OneCard!Span(d.detail, d.times)
  BY <1>1 DEF NodeCharts, GaugeFor, FieldFor
<1>4. d.gauge.series.newest = "shown" => OneNode!Charts(d).series = OneNode!Span(d.detail, d.times)
  BY <1>3, SameOnNodes DEF OneNode!Charts
<1>5. d.times \in Times
  BY <1>1, NodeStates
<1>. QED
  BY <1>1, <1>2, <1>4, <1>5 DEF NodeAbout

(* What it says of the page of a workload.                                 *)
LEMMA TaskDetailPromises ==
    ASSUME TaskDetailInv, NEW d, d = taskDetail, d # None
    PROVE  /\ ~ d.reused => d.detail \in {None, NoName, route.of}
           /\ OneTask!NodeLink(d) # None => OneTask!NodeLink(d).uid = OneTask!Header(d).node
           /\ OneTask!Current(d.gauge) => d.gauge.used.of = OneTask!GaugeSubject(d)
           /\ d.line.newest = "shown" => d.line.of = OneTask!Span(d.detail, d.times)
           /\ d.times \in Times
<1>1. /\ d \in OneTask!States /\ TaskAbout(d) /\ TaskGauge(d) /\ TaskCharts(d) /\ route.of = d.task
  BY DEF TaskDetailInv, TaskKept
<1>2. ASSUME OneTask!NodeLink(d) # None
      PROVE  OneTask!NodeLink(d).uid = OneTask!Header(d).node
  <2>1. d.nodeUid # None /\ d.detail \in Tasks /\ d.nodeUid = OneTask!NodeOfTask(d.detail)
    BY <1>1, <1>2 DEF TaskAbout, OneTask!NodeLink
  <2>2. OneTask!Filled(d)
    BY <2>1, Named DEF OneTask!Filled
  <2>. QED
    BY <2>1, <2>2 DEF OneTask!NodeLink, OneTask!Header
<1>3. OneTask!Current(d.gauge) => d.gauge.used.of = OneTask!GaugeSubject(d)
  BY <1>1 DEF OneTask!Current, TaskGauge, GaugeFor, FieldFor
<1>4. d.line.newest = "shown" => d.line.of = OneTask!Span(d.detail, d.times)
  <2>1. d.line.newest = "shown" => d.line.of = OneCard!Span(d.detail, d.times)
    BY <1>1 DEF TaskCharts, FieldFor
  <2>. QED
    BY <2>1, SameOnTasks
<1>5. d.times \in Times
  BY <1>1, TaskStates
<1>. QED
  BY <1>1, <1>2, <1>3, <1>4, <1>5 DEF TaskAbout

(* A page that was not reused shows its own object or nothing, and a gauge *)
(* at rest shows figure, total and percentage of one subject, its page's:  *)
(* useInstantVector, and the merges of the records into the pages, with    *)
(* any number of requests in flight.                                       *)
THEOREM DetailsOfRoutes == Spec => []DetailOfRoute
<1>1. DetailsInv => DetailOfRoute
  BY CardDetailPromises, NodeDetailPromises, TaskDetailPromises DEF DetailsInv, DetailOfRoute
<1>. QED
  BY <1>1, Details, PTL

(* A chart that shows the answer to its last request shows the range that  *)
(* is selected, and no range of the filter has more steps than Prometheus  *)
(* answers for: the watches on the times, TrendTimeFilter and              *)
(* calculatePrometheusStep, for every length of a range.                   *)
THEOREM ChartsOfRanges == Spec => []ChartsOfRange
<1>1. DetailsInv => ChartsOfRange
  <2>1. SUFFICES ASSUME DetailsInv
                 PROVE  ChartsOfRange
    OBVIOUS
  <2>2. cardDetail # None =>
          /\ cardDetail.line.newest = "shown" => OneCard!Charts(cardDetail).trend.times = cardDetail.times
          /\ cardDetail.gauge.series.newest = "shown" =>
               OneCard!Charts(cardDetail).allocation = OneCard!Span(route.of, cardDetail.times)
          /\ cardDetail.times \in Times
    BY <2>1, CardDetailPromises DEF DetailsInv
  <2>3. nodeDetail # None =>
          /\ nodeDetail.gauge.series.newest = "shown" =>
               OneNode!Charts(nodeDetail).series = OneNode!Span(nodeDetail.detail, nodeDetail.times)
          /\ nodeDetail.times \in Times
    BY <2>1, NodeDetailPromises DEF DetailsInv
  <2>4. taskDetail # None =>
          /\ taskDetail.line.newest = "shown" =>
               taskDetail.line.of = OneTask!Span(taskDetail.detail, taskDetail.times)
          /\ taskDetail.times \in Times
    BY <2>1, TaskDetailPromises DEF DetailsInv
  <2>5. ASSUME overview # None, \A s \in Landing!Sources : overview.sources[s].newest = "shown"
        PROVE  /\ Landing!Charts(overview).axis = Landing!Charts(overview).usage
               /\ Landing!Charts(overview).axis.times = overview.times
    <3>1. \A s \in Landing!Sources :
            overview.sources[s].of = OneCard!Span(Landing!Everything, overview.times)
      BY <2>1, <2>5 DEF DetailsInv, OverviewInv, OverviewCharts, FieldFor
    <3>. QED
      BY <3>1 DEF Landing!Charts, Landing!Sources, OneCard!Span
  <2>6. overview # None => overview.times \in Times
    BY <2>1, OverviewStates DEF DetailsInv, OverviewInv
  <2>7. ASSUME NEW d \in {cardDetail, nodeDetail, taskDetail, overview} \ {None}
        PROVE  OneCard!Steps(d.times) <= 11000
    <3>1. d # None /\ (d = cardDetail \/ d = nodeDetail \/ d = taskDetail \/ d = overview)
      BY <2>7
    <3>2. d.times \in Times
      BY <2>2, <2>3, <2>4, <2>6, <3>1
    <3>3. d.times \in Nat \ {0}
      BY <3>2, TimesGiven
    <3>. QED
      BY <3>3, StepsBounded
  <2>. QED
    BY <2>2, <2>3, <2>4, <2>5, <2>7 DEF ChartsOfRange
<1>. QED
  BY <1>1, Details, PTL

(* What the pages compute of the same objects is the same, whatever the    *)
(* cluster looks like: the counts of the overview and the rows of the      *)
(* lists, the heads of the pages and the rows, the gauges and the status.  *)
THEOREM AllPagesAgree == Spec => []PagesAgree
<1>1. /\ CardHits[""] = Cards /\ NodeHits[""] = Nodes
  BY ConsoleAssumption, Zenon
<1>2. \A S : Landing!Cardinality(S) = Cardinality(S)
  BY DEF Landing!Cardinality, Cardinality, Landing!IsFiniteSet, IsFiniteSet
<1>3. ASSUME NEW s \in {"true", "false"}, overview.lists["node"] = Nodes
      PROVE  LET listed == NodePage!MatchingNodes([ip |-> "", status |-> s, type |-> None])
                 status == IF s = "true" THEN "normal" ELSE "abnormal"
             IN  Landing!NodeCounts(overview)[s] =
                   Cardinality({n \in listed : NodePage!Row(n).status = status})
  <2>1. PICK listed : listed = NodePage!MatchingNodes([ip |-> "", status |-> s, type |-> None])
    OBVIOUS
  <2>2. PICK status : status = IF s = "true" THEN "normal" ELSE "abnormal"
    OBVIOUS
  <2>3. \A n : n \in listed <=> n \in Nodes /\ (s = None \/ (s = "true") = (n \in Schedulable))
    BY <1>1, <2>1 DEF NodePage!MatchingNodes
  <2>4. \A n : NodePage!Row(n).status = NodePage!Status(n \in ExternalNodes, n \in Schedulable)
    BY DEF NodePage!Row
  <2>5. \A n : NodePage!Row(n).status =
                 IF n \in ExternalNodes THEN "unknown"
                 ELSE IF n \in Schedulable THEN "normal" ELSE "abnormal"
    BY <2>4 DEF NodePage!Status
  <2>6. {n \in listed : NodePage!Row(n).status = status}
          = {n \in Nodes \ ExternalNodes : (n \in Schedulable) = (s = "true")}
    <3>1. CASE s = "true"
      BY <2>2, <2>3, <2>5, <3>1
    <3>2. CASE s = "false"
      BY <2>2, <2>3, <2>5, <3>2
    <3>. QED
      BY <3>1, <3>2
  <2>7. Landing!NodeCounts(overview)[s]
          = Landing!Cardinality({n \in Nodes \ ExternalNodes : (n \in Schedulable) = (s = "true")})
    BY <1>3 DEF Landing!NodeCounts
  <2>. QED
    BY <1>2, <2>1, <2>2, <2>6, <2>7
<1>4. ASSUME NEW type \in CardTypes, overview.lists["card"] = Cards
      PROVE  Landing!CardSlices(overview)[type] =
               Cardinality(CardPage!MatchingCards([uid |-> "", node |-> None, type |-> type]))
  <2>1. type # None
    <3>1. None \notin {TypeOf[c] : c \in Cards}
      BY ConsoleAssumption, Zenon
    <3>. QED
      BY <3>1 DEF CardTypes
  <2>2. CardPage!MatchingCards([uid |-> "", node |-> None, type |-> type])
          = {c \in Cards : TypeOf[c] = type}
    BY <1>1, <2>1 DEF CardPage!MatchingCards
  <2>3. Landing!CardSlices(overview)[type] = Landing!Cardinality({c \in Cards : TypeOf[c] = type})
    BY <1>4 DEF Landing!CardSlices, CardTypes
  <2>. QED
    BY <1>2, <2>2, <2>3
<1>5. ASSUME OneCard!Filled(cardDetail)
      PROVE  /\ OneCard!Header(cardDetail).status = CardPage!Row(cardDetail.detail).status
             /\ cardDetail.panel = "rate" =>
                  OneCard!ResourceCard(cardDetail).ring = (CardPage!Row(cardDetail.detail).status # "unknown")
  BY <1>5 DEF OneCard!Filled, OneCard!Header, OneCard!ResourceCard, OneCard!Shown, OneCard!IsExternal,
     OneCard!Status,
              CardPage!Row, CardPage!Status
<1>6. ASSUME nodeDetail.detail # None
      PROVE  /\ OneNode!Header(nodeDetail).status = NodePage!Row(nodeDetail.detail).status
             /\ nodeDetail.panel = "rate" =>
                  OneNode!ResourceCard(nodeDetail).ring = (NodePage!Row(nodeDetail.detail).status # "unknown")
  BY <1>6 DEF OneNode!Header, OneNode!ResourceCard, OneNode!Shown, OneNode!Status,
              NodePage!Row, NodePage!Status
<1>7. ASSUME OneTask!Filled(taskDetail)
      PROVE  /\ OneTask!Header(taskDetail).status = TaskPage!Row(taskDetail.detail).status
             /\ \A card \in OneTask!RelatedCards(taskDetail) :
                  card.uuid \in taskDetail.listed => card.model = CardPage!Row(card.uuid).model
  BY <1>7 DEF OneTask!Header, OneTask!RelatedCards, OneTask!TaskStatuses,
              TaskPage!Row, TaskPage!TaskStatuses, CardPage!Row
<1>8. PagesAgree
  BY <1>3, <1>4, <1>5, <1>6, <1>7 DEF PagesAgree
<1>. QED
  BY <1>8, PTL
=============================================================================
