------------------------- MODULE CollectorLifecycle -------------------------
(***************************************************************************)
(* Start, Stop and the ticker loop of the metrics collector                *)
(* (server/internal/exporter/exporter.go), driven by the kratos app of     *)
(* server/cmd/server/main.go.  What a cycle does is MetricsCollector's     *)
(* business; here a cycle only begins and ends.                            *)
(*                                                                         *)
(* kratos calls Start of every server in a goroutine of its own and, once  *)
(* the app is told to stop (a signal, or another server failing to start), *)
(* Stop in another.  Start and Stop share s.cancel and s.done without a    *)
(* lock, so their steps interleave in every order.                         *)
(***************************************************************************)
EXTENDS Naturals

VARIABLES
    stopping,    \* the app was told to stop
    exited,      \* Start and Stop returned: main returns, the process ends
    startPc,     \* Start: "idle", "cancelSet", "doneMade", "returned"
    stopPc,      \* Stop: "idle", "cancelRead", "waiting", "returned"
    hasCancel,   \* s.cancel is not nil
    done,        \* s.done: "nil", "open" or "closed"
    cancelled,   \* the loop's context is cancelled
    loopPc,      \* the loop: "none", "runOnce", "cycle", "select", "gone"
    generating,  \* s.generating
    ticker,      \* the ticker runs
    tick,        \* ticks in its channel, which has room for one
    bounded      \* does the context kratos passes to Stop expire?

(* History, not in the code.                                               *)
VARIABLES
    gaveUp,      \* Stop returned because its context expired
    orderly      \* Start had returned when Stop began

app   == <<stopping, exited>>
start == <<startPc, hasCancel>>
stop  == <<stopPc, gaveUp, orderly>>
loop  == <<loopPc, generating, ticker, tick>>
vars  == <<bounded, app, start, stop, loop, done, cancelled>>

Init ==
    /\ bounded \in BOOLEAN
    /\ stopping = FALSE /\ exited = FALSE
    /\ startPc = "idle" /\ stopPc = "idle"
    /\ hasCancel = FALSE /\ done = "nil" /\ cancelled = FALSE
    /\ loopPc = "none" /\ generating = FALSE /\ ticker = FALSE /\ tick = 0
    /\ gaveUp = FALSE /\ orderly = FALSE

(* kratos.App: stop every server; return when all of them have.            *)
Shutdown ==
    /\ ~stopping
    /\ stopping' = TRUE
    /\ UNCHANGED <<bounded, exited, start, stop, loop, done, cancelled>>
Exit ==
    /\ startPc = "returned" /\ stopPc = "returned"
    /\ ~exited
    /\ exited' = TRUE
    /\ UNCHANGED <<bounded, stopping, start, stop, loop, done, cancelled>>

(* Start, under startOnce.                                                 *)
StartSetCancel ==
    /\ startPc = "idle"
    /\ startPc' = "cancelSet"
    /\ hasCancel' = TRUE
    /\ UNCHANGED <<bounded, app, stop, loop, done, cancelled>>
StartMakeDone ==
    /\ startPc = "cancelSet"
    /\ startPc' = "doneMade"
    /\ done' = "open"
    /\ UNCHANGED <<bounded, app, hasCancel, stop, loop, cancelled>>
StartSpawn ==
    /\ startPc = "doneMade"
    /\ startPc' = "returned"
    /\ loopPc' = "runOnce"
    /\ UNCHANGED <<bounded, app, hasCancel, stop, generating, ticker, tick, done, cancelled>>

(* Stop, under stopOnce: cancel what there is to cancel, ...               *)
StopCancel ==
    /\ stopping
    /\ stopPc = "idle"
    /\ stopPc' = "cancelRead"
    /\ cancelled' = hasCancel
    /\ orderly' = (startPc = "returned")
    /\ UNCHANGED <<bounded, app, start, gaveUp, loop, done>>
(* Fault: Stop does not wait.                                              *)
StopReadDoneAndReturn ==
    /\ stopPc = "cancelRead"
    /\ stopPc' = "returned"
    /\ UNCHANGED <<bounded, app, start, gaveUp, orderly, loop, done, cancelled>>

(* ... then wait if there is a goroutine to wait for, ...                  *)
StopReadDone ==
    /\ stopPc = "cancelRead"
    /\ stopPc' = IF done = "nil" THEN "returned" ELSE "waiting"
    /\ UNCHANGED <<bounded, app, start, gaveUp, orderly, loop, done, cancelled>>
StopDrained ==
    /\ stopPc = "waiting"
    /\ done = "closed"
    /\ stopPc' = "returned"
    /\ UNCHANGED <<bounded, app, start, gaveUp, orderly, loop, done, cancelled>>
(* Fault: Stop waits for the loop only.                                    *)
StopIgnoresDeadline == FALSE

(* ... or until the caller's context expires.                              *)
StopDeadline ==
    /\ bounded
    /\ stopPc = "waiting"
    /\ stopPc' = "returned"
    /\ gaveUp' = TRUE
    /\ UNCHANGED <<bounded, app, start, orderly, loop, done, cancelled>>

(* runOnce up to GenerateMetrics: refuse to overlap another cycle.  Its    *)
(* only caller is the loop, which no cycle outlives.                       *)
RunOnce ==
    /\ ~exited
    /\ loopPc = "runOnce"
    /\ loopPc' = IF generating THEN "select" ELSE "cycle"
    /\ generating' = TRUE
    /\ UNCHANGED <<bounded, app, start, stop, ticker, tick, done, cancelled>>
(* Fault: the flag stays set.                                              *)
EndCycleStillGenerating ==
    /\ ~exited
    /\ loopPc = "cycle"
    /\ loopPc' = "select"
    /\ ticker' = TRUE
    /\ UNCHANGED <<bounded, app, start, stop, generating, tick, done, cancelled>>

(* The cycle ends; after the first one the loop creates its ticker.        *)
EndCycle ==
    /\ ~exited
    /\ loopPc = "cycle"
    /\ loopPc' = "select"
    /\ generating' = FALSE
    /\ ticker' = TRUE
    /\ UNCHANGED <<bounded, app, start, stop, tick, done, cancelled>>

(* Fault: ticks are kept while a cycle runs.                               *)
FireUnlimited ==
    /\ ~exited
    /\ ticker
    /\ tick < 3
    /\ tick' = tick + 1
    /\ UNCHANGED <<bounded, app, start, stop, loopPc, generating, ticker, done, cancelled>>

(* The runtime fires the ticker; a tick that finds another is dropped.     *)
HasRoom == tick = 0
Fire ==
    /\ ~exited
    /\ ticker
    /\ HasRoom
    /\ tick' = tick + 1
    /\ UNCHANGED <<bounded, app, start, stop, loopPc, generating, ticker, done, cancelled>>
TakeTick ==
    /\ ~exited
    /\ loopPc = "select"
    /\ tick > 0
    /\ tick' = tick - 1
    /\ loopPc' = "runOnce"
    /\ UNCHANGED <<bounded, app, start, stop, generating, ticker, done, cancelled>>
(* The loop sees its context done, stops its ticker and closes s.done.     *)
LoopReturn ==
    /\ ~exited
    /\ loopPc = "select"
    /\ cancelled
    /\ loopPc' = "gone"
    /\ ticker' = FALSE
    /\ done' = "closed"
    /\ UNCHANGED <<bounded, app, start, stop, generating, tick, cancelled>>

Start == StartSetCancel \/ StartMakeDone \/ StartSpawn
Stop  == StopCancel \/ StopReadDone \/ StopDrained \/ StopDeadline
Cycle == RunOnce \/ EndCycle
Terminated == exited /\ UNCHANGED vars

Next == Shutdown \/ Exit \/ Start \/ Stop \/ Cycle \/ Fire \/ TakeTick
        \/ LoopReturn \/ Terminated

Spec == Init /\ [][Next]_vars

(* Goroutines are scheduled, a cycle ends (Prometheus answers), the ticker *)
(* fires and select, being random, takes a case it is offered again and    *)
(* again.  Nobody has to stop the app.                                     *)
FairSpec ==
    /\ Spec
    /\ WF_vars(Exit) /\ WF_vars(Start) /\ WF_vars(Stop)
    /\ WF_vars(Cycle) /\ WF_vars(Fire) /\ WF_vars(TakeTick) /\ SF_vars(LoopReturn)

-----------------------------------------------------------------------------

TypeOK ==
    /\ bounded \in BOOLEAN
    /\ stopping \in BOOLEAN /\ exited \in BOOLEAN
    /\ startPc \in {"idle", "cancelSet", "doneMade", "returned"}
    /\ stopPc \in {"idle", "cancelRead", "waiting", "returned"}
    /\ hasCancel \in BOOLEAN /\ done \in {"nil", "open", "closed"}
    /\ cancelled \in BOOLEAN
    /\ loopPc \in {"none", "runOnce", "cycle", "select", "gone"}
    /\ generating \in BOOLEAN /\ ticker \in BOOLEAN /\ tick \in 0..1
    /\ gaveUp \in BOOLEAN /\ orderly \in BOOLEAN

(* An orderly Stop that did not give up leaves no goroutine behind:        *)
(* neither a running cycle nor a loop that could begin one.                *)
OrderlyStopDrains ==
    stopPc = "returned" /\ orderly /\ ~gaveUp => loopPc = "gone"

(* Parts of inductive invariants.  The flag is set exactly while a cycle   *)
(* runs, and the loop runs only once Start has returned.                   *)
GeneratingInCycle ==
    /\ generating <=> loopPc = "cycle"
    /\ loopPc # "none" => startPc = "returned"

(* s.done is made before the loop is spawned, and closed as it leaves.     *)
DoneFollowsLoop ==
    /\ done = "nil" <=> startPc \in {"idle", "cancelSet"}
    /\ startPc = "returned" <=> loopPc # "none"
    /\ done = "closed" <=> loopPc = "gone"

(* A Stop that began after Start waits, and has returned only because the  *)
(* loop closed s.done or because its context expired.                      *)
StopFollowsStart ==
    /\ orderly => startPc = "returned" /\ stopPc # "idle"
    /\ stopPc = "returned" /\ orderly => gaveUp \/ done = "closed"

(* An app told to stop after the collector has started exits, with or      *)
(* without a deadline; with one it exits however Stop raced Start.         *)
ExitsEventually ==
    /\ (stopping /\ startPc = "returned" /\ stopPc = "idle") ~> exited
    /\ (stopping /\ bounded) ~> exited

(* While the app runs the collector keeps beginning cycles.                *)
KeepsRefreshing == []<>(loopPc = "cycle") \/ <>stopping

=============================================================================
