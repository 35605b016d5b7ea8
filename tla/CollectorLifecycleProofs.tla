---------------------- MODULE CollectorLifecycleProofs ----------------------
(* Proofs about Start, Stop and the loop of the metrics collector.         *)
EXTENDS CollectorLifecycle, TLAPS

(* The program counters, flags and the ticker's channel have their types.  *)
THEOREM TypeCorrect == Spec => []TypeOK
<1>. USE DEF TypeOK
<1>1. Init => TypeOK
  <2>1. Init => tick \in 0..1
    BY DEF Init
  <2>. QED
    BY <2>1, Zenon DEF Init
<1>2. TypeOK /\ [Next]_vars => TypeOK'
  <2> SUFFICES ASSUME TypeOK, [Next]_vars
               PROVE  TypeOK'
    OBVIOUS
  <2> USE DEF app, start, stop, loop, vars
  <2>1. CASE Shutdown \/ Exit
    <3>1. stopping' \in BOOLEAN /\ exited' \in BOOLEAN
      BY <2>1, Zenon DEF Shutdown, Exit
    <3>. QED
      BY <2>1, <3>1 DEF Shutdown, Exit
  <2>2. CASE Start
    BY <2>2 DEF Start, StartSetCancel, StartMakeDone, StartSpawn
  <2>3. CASE Stop
    <3>1. CASE StopCancel
      BY <3>1, ZenonT(30) DEF StopCancel
    <3>2. CASE StopReadDone
      BY <3>2 DEF StopReadDone
    <3>3. CASE StopDrained \/ StopDeadline
      BY <3>3, ZenonT(30) DEF StopDrained, StopDeadline
    <3>. QED
      BY <2>3, <3>1, <3>2, <3>3 DEF Stop
  <2>4. CASE Cycle
    BY <2>4 DEF Cycle, RunOnce, EndCycle
  <2>5. CASE Fire
    BY <2>5 DEF Fire, HasRoom
  <2>6. CASE TakeTick
    BY <2>6 DEF TakeTick
  <2>7. CASE LoopReturn
    BY <2>7 DEF LoopReturn
  <2>8. CASE UNCHANGED vars
    BY <2>8
  <2>. QED
    BY <2>1, <2>2, <2>3, <2>4, <2>5, <2>6, <2>7, <2>8 DEF Next, Terminated
<1>. QED
  BY <1>1, <1>2, PTL DEF Spec

-----------------------------------------------------------------------------

(* The overlap guard of runOnce never holds: the flag is set exactly while *)
(* the loop is in a cycle, and it is the loop that calls runOnce.  So the  *)
(* guard skips no tick; one that fires during a cycle waits in the channel *)
(* and begins another right after it.                                      *)
THEOREM GuardNeverHolds == Spec => [](loopPc = "runOnce" => ~generating)
<1>. USE DEF GeneratingInCycle
<1>1. Init => GeneratingInCycle
  BY DEF Init
<1>2. TypeOK /\ GeneratingInCycle /\ [Next]_vars => GeneratingInCycle'
  <2> SUFFICES ASSUME TypeOK, GeneratingInCycle, [Next]_vars
               PROVE  GeneratingInCycle'
    OBVIOUS
  <2> USE DEF app, start, stop, loop, vars
  <2>1. CASE Shutdown \/ Exit
    BY <2>1 DEF Shutdown, Exit
  <2>2. CASE Start
    BY <2>2 DEF Start, StartSetCancel, StartMakeDone, StartSpawn
  <2>3. CASE Stop
    BY <2>3 DEF Stop, StopCancel, StopReadDone, StopDrained, StopDeadline
  <2>4. CASE Cycle
    BY <2>4 DEF Cycle, RunOnce, EndCycle, TypeOK
  <2>5. CASE Fire
    BY <2>5 DEF Fire
  <2>6. CASE TakeTick
    BY <2>6 DEF TakeTick
  <2>7. CASE LoopReturn
    BY <2>7 DEF LoopReturn
  <2>8. CASE UNCHANGED vars
    BY <2>8
  <2>. QED
    BY <2>1, <2>2, <2>3, <2>4, <2>5, <2>6, <2>7, <2>8 DEF Next, Terminated
<1>3. GeneratingInCycle => (loopPc = "runOnce" => ~generating)
  OBVIOUS
<1>. QED
  BY <1>1, <1>2, <1>3, TypeCorrect, PTL DEF Spec

-----------------------------------------------------------------------------

(* A Stop that began after Start had returned, and did not run into its    *)
(* deadline, leaves no loop behind (OrderlyStopDrains).                    *)
THEOREM StopDrains == Spec => []OrderlyStopDrains
<1>. USE DEF DoneFollowsLoop, StopFollowsStart
<1>1. Init => DoneFollowsLoop /\ StopFollowsStart
  BY DEF Init
<1>2. TypeOK /\ DoneFollowsLoop /\ StopFollowsStart /\ [Next]_vars
         => DoneFollowsLoop' /\ StopFollowsStart'
  <2> SUFFICES ASSUME TypeOK, DoneFollowsLoop, StopFollowsStart, [Next]_vars
               PROVE  DoneFollowsLoop' /\ StopFollowsStart'
    OBVIOUS
  <2> USE DEF app, start, stop, loop, vars
  <2>1. CASE Shutdown \/ Exit
    BY <2>1 DEF Shutdown, Exit
  <2>2. CASE Start
    BY <2>2 DEF Start, StartSetCancel, StartMakeDone, StartSpawn
  <2>3. CASE Stop
    BY <2>3 DEF Stop, StopCancel, StopReadDone, StopDrained, StopDeadline, TypeOK
  <2>4. CASE Cycle
    BY <2>4 DEF Cycle, RunOnce, EndCycle
  <2>5. CASE Fire
    BY <2>5 DEF Fire
  <2>6. CASE TakeTick
    BY <2>6 DEF TakeTick
  <2>7. CASE LoopReturn
    BY <2>7 DEF LoopReturn
  <2>8. CASE UNCHANGED vars
    BY <2>8
  <2>. QED
    BY <2>1, <2>2, <2>3, <2>4, <2>5, <2>6, <2>7, <2>8 DEF Next, Terminated
<1>3. DoneFollowsLoop /\ StopFollowsStart => OrderlyStopDrains
  BY DEF OrderlyStopDrains
<1>. QED
  BY <1>1, <1>2, <1>3, TypeCorrect, PTL DEF Spec

=============================================================================
