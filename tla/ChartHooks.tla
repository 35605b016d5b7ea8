----------------------------- MODULE ChartHooks -----------------------------
(***************************************************************************)
(* What the pages with figures and charts share: the hook                  *)
(* useInstantVector behind every figure, the requests behind every trend   *)
(* chart, the time filter above the charts (TrendTimeFilter), and the step *)
(* asked of Prometheus for a range.                                        *)
(*                                                                         *)
(* Every value a page shows is told apart by what its request asked for:   *)
(* the object it is about and, for a series, the time range.  Time ranges  *)
(* are told apart by their length in minutes.  Requests are not cancelled, *)
(* so that a field of a page may have several in flight.                   *)
(***************************************************************************)
EXTENDS Naturals, Sequences, WebClient

CONSTANTS None,        \* undefined, and what is not mounted or not followed
          Presets,     \* the lengths the filter offers, in minutes
          Customs,     \* the lengths a user may pick by hand
          MaxFlights   \* bound: requests of a field in flight

-----------------------------------------------------------------------------
(* The step of a range query *)

\* The tiers of calculatePrometheusStep between a quarter of an hour and 30
\* days, in minutes: the step, and the one taken when it gives too many points.
Tiers == { [upTo |-> 60,    step |-> 1,  coarser |-> 5],
           [upTo |-> 360,   step |-> 5,  coarser |-> 15],
           [upTo |-> 1440,  step |-> 15, coarser |-> 30],
           [upTo |-> 10080, step |-> 30, coarser |-> 60],
           [upTo |-> 43200, step |-> 60, coarser |-> 360] }

\* The first of them that the range does not exceed.
Tier(minutes) ==
    CHOOSE tier \in Tiers :
        /\ minutes <= tier.upTo
        /\ \A t \in Tiers : minutes <= t.upTo => tier.upTo <= t.upTo

RoundUp(n, d) == (n + d - 1) \div d

\* calculatePrometheusStep, in seconds.
CalculatePrometheusStep(minutes, maxPoints) ==
    IF minutes <= 15 THEN
        IF 4 * minutes <= maxPoints THEN 15
        ELSE IF 2 * minutes <= maxPoints THEN 30 ELSE 60
    ELSE IF minutes <= 43200 THEN
        60 * (IF RoundUp(minutes, maxPoints) <= Tier(minutes).step
              THEN Tier(minutes).step ELSE Tier(minutes).coarser)
    ELSE 86400 * RoundUp(RoundUp(minutes, 1440), maxPoints)

\* How many steps a range has.  Prometheus refuses one of more than 11000.
Steps(minutes) ==
    (60 * minutes) \div CalculatePrometheusStep(minutes, 11000)

-----------------------------------------------------------------------------
(* TrendTimeFilter: p.times is the range of the page, p.choice the button   *)
(* that is pressed.  A range picked by hand is handed to the page, whose    *)
(* new value the filter writes back to the picker, whose watch hands it to  *)
(* the page again: p.echo says that this goes round.                        *)

\* The button that opens the picker; the others stand for their lengths.
Custom == 0

EmitPresetRange(p, preset) ==
    [p EXCEPT !.times = preset, !.choice = preset, !.echo = FALSE]

ShowPicker(p) == [p EXCEPT !.choice = Custom]

EmitCustomRange(p, minutes) == [p EXCEPT !.times = minutes, !.echo = TRUE]

-----------------------------------------------------------------------------
(* A field of a page and the requests for it.  newest is history: where the *)
(* answer to the last request is.                                           *)

Empty == [of |-> None, flights |-> <<>>, newest |-> "none"]

Ask(f, what) ==
    [f EXCEPT !.flights = Append(@, what), !.newest = "out"]

CanAsk(f) == Len(f.flights) < MaxFlights

IsNewest(f, i) == f.newest = "out" /\ i = Len(f.flights)

Show(f, i) ==
    [f EXCEPT !.of = f.flights[i],
              !.flights = RemoveAt(@, i),
              !.newest = IF IsNewest(f, i) THEN "shown"
                         ELSE IF @ = "shown" THEN "lost" ELSE @]

Miss(f, i) ==
    [f EXCEPT !.flights = RemoveAt(@, i),
              !.newest = IF IsNewest(f, i) THEN "lost" ELSE @]

\* Requests whose answers are written where nothing reads them any more.
Abandon(f) == [f EXCEPT !.flights = <<>>,
                        !.newest = IF @ = "out" THEN "lost" ELSE @]

-----------------------------------------------------------------------------
(* useInstantVector.  A gauge has a figure, its total and a series, asked   *)
(* for one after the other; each request is about the subject of the page   *)
(* at the moment it is sent.  A page without a time range has no series.    *)

Gauge(hasTotal) ==
    [used |-> Empty, total |-> Empty, series |-> Empty,
     percent |-> <<None, None>>, hasTotal |-> hasTotal]

\* The range a series is asked for, None for a page that has none.
Span(subject, times) == [of |-> subject, times |-> times]

\* parsedQuery.includes('undefined')
Resolved(subject) == subject # None

\* One run of fetchInstantData starts: until they are asked for again, the
\* total and the series are due.
FetchInstantData(g, subject) ==
    IF Resolved(subject)
    THEN [g EXCEPT !.used = Ask(@, subject),
                   !.total.newest = "due",
                   !.series.newest = "due"]
    ELSE g

AskTotal(g, subject) ==
    IF Resolved(subject) THEN [g EXCEPT !.total = Ask(@, subject)] ELSE g

AskSeries(g, subject, times) ==
    IF times # None /\ Resolved(subject)
    THEN [g EXCEPT !.series = Ask(@, Span(subject, times))] ELSE g

\* The percentage stays what it was when the total is zero, as it is at first.
ComputePercent(g) ==
    IF g.hasTotal /\ g.total.of = None THEN g
    ELSE [g EXCEPT !.percent = <<g.used.of, g.total.of>>]

\* fetchRangeData, of the watch on the times.
FetchRangeData(g, subject, times) == AskSeries(g, subject, times)

\* The answer to the last query of the pair: the percentage, then the series.
PairDone(g, subject, times) == AskSeries(ComputePercent(g), subject, times)

UsedAnswered(g, i, subject, times) ==
    LET shown == [g EXCEPT !.used = Show(@, i)]
    IN  IF g.hasTotal THEN AskTotal(shown, subject)
        ELSE PairDone(shown, subject, times)

TotalAnswered(g, i, subject, times) ==
    PairDone([g EXCEPT !.total = Show(@, i)], subject, times)

\* An answer without a total leaves the old one, which the percentage is then
\* computed from; a total of zero replaces it, and the percentage stays.
TotalEmpty(g, i, subject, times) ==
    PairDone([g EXCEPT !.total = Miss(@, i)], subject, times)

TotalZero(g, i, subject, times) ==
    LET shown == Show(g.total, i)
        zero  == [shown EXCEPT !.of = None,
                               !.newest = IF @ = "shown" THEN "lost" ELSE @]
    IN  PairDone([g EXCEPT !.total = zero], subject, times)

\* The gauges that one settled request can lead to: a failure ends the run.
GaugesAfter(g, subject, times, ok) ==
    IF ok
    THEN {UsedAnswered(g, i, subject, times) : i \in DOMAIN g.used.flights}
         \union (UNION {{TotalAnswered(g, i, subject, times),
                        TotalEmpty(g, i, subject, times),
                        TotalZero(g, i, subject, times)} :
                            i \in DOMAIN g.total.flights})
         \union {[g EXCEPT !.series = Show(@, i)] :
                   i \in DOMAIN g.series.flights}
    ELSE {[g EXCEPT !.used = Miss(@, i)] : i \in DOMAIN g.used.flights}
         \union {[g EXCEPT !.total = Miss(@, i)] : i \in DOMAIN g.total.flights}
         \union {[g EXCEPT !.series = Miss(@, i)] :
                   i \in DOMAIN g.series.flights}

\* The fields after one of their requests settles.
FieldsAfter(f, ok) ==
    {IF ok THEN Show(f, i) ELSE Miss(f, i) : i \in DOMAIN f.flights}

GaugeBusy(g) ==
    \/ g.used.flights # <<>> \/ g.total.flights # <<>> \/ g.series.flights # <<>>

\* Nothing is in flight, no answer of the last run failed, and none was
\* written over.
Current(g) ==
    /\ ~ GaugeBusy(g)
    /\ g.used.newest = "shown"
    /\ g.hasTotal => g.total.newest = "shown"

-----------------------------------------------------------------------------
(* What fields and gauges are, whose requests are about members of S.       *)

FieldStates(S) ==
    [of : S \union {None}, flights : Seq(S),
     newest : {"none", "due", "out", "shown", "lost"}]

SpansOf(S) == [of : S, times : Presets \union Customs]

GaugeStates(S) ==
    [used : FieldStates(S), total : FieldStates(S),
     series : FieldStates(SpansOf(S)),
     percent : (S \union {None}) \X (S \union {None}), hasTotal : BOOLEAN]
=============================================================================
