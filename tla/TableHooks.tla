----------------------------- MODULE TableHooks -----------------------------
(***************************************************************************)
(* What the three list pages share: the hooks useTableFilters,             *)
(* useLocalPagination and useTableColumnVisibility, and the toolbar and    *)
(* pagination components of TablePlus.  A page's state is a record; these  *)
(* operators are the assignments the hooks make to it.                     *)
(*                                                                         *)
(* Requests are not cancelled: a page may have several lists in flight     *)
(* (l.flights, in the order they were asked for), and shows the answers in *)
(* the order they arrive.  l.newest is history: where the answer to the    *)
(* last request is.  "out" while it is awaited, "shown" while the table    *)
(* shows it, "lost" when it failed or an older answer was shown over it.   *)
(***************************************************************************)
EXTENDS Naturals, Sequences, FiniteSets, WebClient

CONSTANTS PageSizes,    \* the page sizes the pagination offers
          MaxFlights    \* bound: list requests of a page in flight

\* The page as the first request finds it; asked is the request whose answer
\* the table shows, at first none.
Blank(nothing) == [asked |-> nothing, ids |-> {}]
FirstPage == [current |-> 1, size |-> CHOOSE s \in PageSizes :
                                        \A t \in PageSizes : s >= t,
              total |-> 0]

-----------------------------------------------------------------------------
(* Requests and answers *)

Ask(l, payload) ==
    [l EXCEPT !.loading = TRUE,
              !.flights = Append(@, payload),
              !.newest = "out"]

CanAsk(l) == Len(l.flights) < MaxFlights

\* The flight is the last request, and its answer is still awaited.
IsNewest(l, i) == l.newest = "out" /\ i = Len(l.flights)

\* fetchTableData's continuation: the list is shown; loading ends even when
\* another request is in flight.
Show(l, i, ids) ==
    [l EXCEPT !.rows = [asked |-> l.flights[i], ids |-> ids],
              !.loading = FALSE,
              !.flights = RemoveAt(@, i),
              !.newest = IF IsNewest(l, i) THEN "shown"
                         ELSE IF @ = "shown" THEN "lost" ELSE @]

\* Fault: loading ends only with an answer that is shown.
MissWithoutFinally(l, i) ==
    [l EXCEPT !.flights = RemoveAt(@, i),
              !.newest = IF IsNewest(l, i) THEN "lost" ELSE @]

\* Its finally clause alone: a failed call leaves the rows as they are.
Miss(l, i) ==
    [l EXCEPT !.loading = FALSE,
              !.flights = RemoveAt(@, i),
              !.newest = IF IsNewest(l, i) THEN "lost" ELSE @]

-----------------------------------------------------------------------------
(* useLocalPagination *)

\* Fault: an empty list has no page.
MaxPageOrNone(total, size) == (total + size - 1) \div size

MaxPage(total, size) ==
    LET pages == (total + size - 1) \div size
    IN  IF pages > 1 THEN pages ELSE 1

Clamped(page, total) ==
    [page EXCEPT !.total = total,
                 !.current = IF @ > MaxPage(total, page.size)
                             THEN MaxPage(total, page.size) ELSE @]

\* Fault: the page is left where it was.
SyncTotal(l) == [l EXCEPT !.page.total = Cardinality(l.rows.ids)]

SyncTotalAndClamp(l) ==
    [l EXCEPT !.page = Clamped(@, Cardinality(l.rows.ids))]

ResetToFirstPage(l) == [l EXCEPT !.page.current = 1]

\* pagedTableData: how many rows the slice of the current page holds.
PagedCount(l) ==
    LET start == (l.page.current - 1) * l.page.size
        left  == Cardinality(l.rows.ids) - start
    IN  IF Cardinality(l.rows.ids) <= start THEN 0
        ELSE IF left < l.page.size THEN left ELSE l.page.size

\* Pagination.vue's handleChange, as the pagination control calls it: with a
\* page it offers, or with a page size and the page cut down to fit it.
ChangePage(l, current) ==
    /\ current \in 1 .. MaxPage(l.page.total, l.page.size)
    /\ current # l.page.current

TurnTo(l, current) == [l EXCEPT !.page.current = current]

Resize(l, size) ==
    [l EXCEPT !.page = Clamped([@ EXCEPT !.size = size], l.page.total)]

\* pagination, for a list of at most so many rows.
Pagination(most) ==
    [current : Nat \ {0}, size : PageSizes, total : 0 .. most]

-----------------------------------------------------------------------------
(* useTableColumnVisibility and Toolbar.vue *)

\* The watch on the columns, which a change of language rebuilds.
KeepColumns(shown, all) ==
    IF shown \intersect all = {} THEN all ELSE shown \intersect all

-----------------------------------------------------------------------------
(* Parts of the inductive invariants of the pages.                         *)

\* An awaited last request is the last in flight.
LastAwaited(l) == l.newest = "out" => l.flights # <<>>

\* The page knows how many rows there are, and is one of theirs.
OnAPage(l) ==
    /\ l.page.total = Cardinality(l.rows.ids)
    /\ l.page.current <= MaxPage(l.page.total, l.page.size)
=============================================================================
