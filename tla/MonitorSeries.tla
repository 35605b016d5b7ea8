---------------------------- MODULE MonitorSeries ----------------------------
(***************************************************************************)
(* How the monitor service completes the answer to a range query to a      *)
(* series without holes (server/internal/service/monitor.go).  A series is *)
(* the set of its timestamps, in units of which a step has a few; points   *)
(* the data source has no sample for are given the value 0.                *)
(*                                                                         *)
(* Data sources differ in where they put their samples.  Prometheus puts   *)
(* them at the start of the range and at every step from there,            *)
(* VictoriaMetrics at the multiples of the step, so that the first may     *)
(* come before the start and the last after the end.                       *)
(***************************************************************************)
EXTENDS Integers, FiniteSetsExt

CONSTANTS MaxStep, MaxSteps   \* bounds: the length of a step, steps of a range

ASSUME SeriesAssumption == MaxStep \in Nat \ {0} /\ MaxSteps \in Nat

VARIABLES query,     \* the range query served last, its start being Start
          samples,   \* where the data source has samples for it
          series     \* the points that were sent to the page

\* Fault: a first sample close to the start is taken for one at the start.
SamplePointStartRounded(start, step, values) ==
    LET first == Min(values)
    IN  IF values = {} \/ first - start \in -step .. step THEN start
        ELSE first - ((first - start) \div step) * step

\* getSamplePointStartTime
SamplePointStart(start, step, values) ==
    LET first == Min(values)
    IN  IF values = {} \/ first = start THEN start
        ELSE IF first - start \in -step .. step THEN first
        ELSE first - ((first - start) \div step) * step

\* fillLessSamplePoint: the points of the series that is sent to the page.
FillLessSamplePoint(start, end, step, values) ==
    LET from == SamplePointStart(start, step, values)
    IN  {t \in from .. end : (t - from) % step = 0}

-----------------------------------------------------------------------------
\* Range queries and the instants the data source evaluates them at: early is
\* how long before the start the first of them is.
Start == MaxStep
Queries ==
    {q \in [end : Start .. Start + MaxStep * MaxSteps,
            step : 1 .. MaxStep, early : 0 .. MaxStep - 1] :
        q.early < q.step /\ q.end <= Start + MaxSteps * q.step}

Evaluated(q) ==
    LET first == Start - q.early
    IN  {t \in first .. (q.end + q.early) : (t - first) % q.step = 0}

Unasked == query = [end |-> Start, step |-> 1, early |-> 0] /\ samples = {} /\ series = {}

\* QueryRange: whatever the data source has samples for.
QueryRange ==
    /\ query' \in Queries
    /\ samples' \in SUBSET Evaluated(query')
    /\ series' = FillLessSamplePoint(Start, query'.end, query'.step, samples')

SeriesSpec == Unasked /\ [][QueryRange]_<<query, samples, series>>

-----------------------------------------------------------------------------
\* Wherever the data source puts its samples, none of the range is lost, the
\* points are those the source would evaluate, in steps, and no instant of the
\* range is left out.  One is, by the test that takes a first sample within a
\* step of the start for the first point: the start, when the first sample is
\* exactly one step later.
SeriesExact ==
    samples # {} =>
        /\ {t \in samples : t <= query.end} \subseteq series
        /\ series \subseteq Evaluated(query)
        /\ {t \in Evaluated(query) : t \in Start .. query.end} \ series \subseteq
             IF Min(samples) = Start + query.step THEN {Start} ELSE {}
=============================================================================
