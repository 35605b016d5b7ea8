----------------------- MODULE MetricsCollectorProofs -----------------------
(* Proofs about the metrics collector, for every Device, Container, ...    *)
EXTENDS MetricsCollector, TLAPS

(* The cells of one visit are cells.                                       *)
LEMMA DeviceCellsType ==
    ASSUME NEW d \in Device, NEW label \in Labels, NEW answered \in Answers
    PROVE  /\ DeviceCells(d, label, answered) \in SUBSET Cell
           /\ Exposed(DeviceCells(d, label, answered), d)
<1>1. DeviceCells(d, label, answered) \in SUBSET Cell
  BY DEF DeviceCells, Cell, Labels, DriverLabel, DeviceGauge
<1>2. [gauge |-> "alloc", dev |-> d, tag |-> label] \in DeviceCells(d, label, answered)
  BY DEF DeviceCells, DeviceGauge
<1>. QED
  BY <1>1, <1>2 DEF Exposed

(* A container's cells are cells.                                          *)
LEMMA TaskCellsType ==
    ASSUME NEW D \in SUBSET Device, NEW c \in Container, NEW answered \in Answers
    PROVE  TaskCells(D, c, answered) \in SUBSET Cell
BY DEF TaskCells, Cell, TaskGauge

(* The state of the collector has its type (the maps of cells.go hold      *)
(* cells, the pass work lists hold devices, containers and pairs).         *)
THEOREM TypeCorrect == Spec => []TypeOK
<1>1. Init => TypeOK
  BY DEF Init, TypeOK, Control
<1>2. TypeOK /\ [Next]_vars => TypeOK'
  <2> SUFFICES ASSUME TypeOK, [Next]_vars
               PROVE  TypeOK'
    OBVIOUS
  <2> USE DEF TypeOK, Control, InCycle, InPass, env, work, history, cells, vars
  <2>1. ASSUME NEW S \in SUBSET Device, SnapshotSwap(S) PROVE TypeOK'
    BY <2>1 DEF SnapshotSwap
  <2>2. ASSUME NEW S \in SUBSET Container, PodsChange(S) PROVE TypeOK'
    BY <2>2 DEF PodsChange
  <2>3. CASE Cancel
    BY <2>3 DEF Cancel
  <2>4. CASE Expire
    BY <2>4 DEF Expire
  <2>5. CASE BeginCycle
    BY <2>5 DEF BeginCycle
  <2>6. CASE ListDevices
    BY <2>6 DEF ListDevices
  <2>7. ASSUME NEW d \in Device, WriteDevice(d) PROVE TypeOK'
    BY <2>7, DeviceCellsType DEF WriteDevice, Set
  <2>8. CASE ListTaskDevices
    BY <2>8 DEF ListTaskDevices
  <2>9. CASE ListPods
    BY <2>9, CollectorAssumption DEF ListPods
  <2>10. ASSUME NEW c \in Container, WriteMetax(c) PROVE TypeOK'
    BY <2>10, TaskCellsType DEF WriteMetax, Set
  <2>11. CASE MetaxDone
    BY <2>11 DEF MetaxDone
  <2>12. ASSUME NEW d \in Device, NEW c \in Container, WriteTask(d, c) PROVE TypeOK'
    BY <2>12, TaskCellsType DEF WriteTask, Set
  <2>13. CASE DropCycle
    BY <2>13 DEF DropCycle
  <2>14. CASE BeginCommit
    BY <2>14 DEF BeginCommit, StaleCells
  <2>15. ASSUME NEW k \in Cell, PruneCell(k) PROVE TypeOK'
    BY <2>15 DEF PruneCell
  <2>16. CASE FinishCommit
    BY <2>16 DEF FinishCommit
  <2>17. CASE ExitLoop
    BY <2>17 DEF ExitLoop
  <2>18. CASE UNCHANGED vars
    BY <2>18
  <2>. QED
    BY <2>1, <2>2, <2>3, <2>4, <2>5, <2>6, <2>7, <2>8, <2>9, <2>10, <2>11, <2>12,
       <2>13, <2>14, <2>15, <2>16, <2>17, <2>18
    DEF Next, Environment, Collector, Terminated
<1>. QED
  BY <1>1, <1>2, PTL DEF Spec

-----------------------------------------------------------------------------

(* Nothing but the commit of a live cycle takes a series away, and what is *)
(* exposed is the committed cycle, the running one and the leftovers of    *)
(* dropped ones.                                                           *)
THEOREM Accounting == Spec => [](MapsFollowCycle /\ RegistryAccounted)
<1>1. Init => MapsFollowCycle /\ RegistryAccounted
  BY DEF Init, MapsFollowCycle, RegistryAccounted, InCycle, InPass
<1>2. MapsFollowCycle /\ RegistryAccounted /\ TypeOK /\ [Next]_vars
         => (MapsFollowCycle /\ RegistryAccounted)'
  <2> SUFFICES ASSUME MapsFollowCycle, RegistryAccounted, TypeOK, [Next]_vars
               PROVE  (MapsFollowCycle /\ RegistryAccounted)'
    OBVIOUS
  <2> USE DEF MapsFollowCycle, RegistryAccounted, InCycle, InPass,
              env, work, history, cells, vars
  <2>1. ASSUME NEW S \in SUBSET Device, SnapshotSwap(S) PROVE (MapsFollowCycle /\ RegistryAccounted)'
    BY <2>1 DEF SnapshotSwap
  <2>2. ASSUME NEW S \in SUBSET Container, PodsChange(S) PROVE (MapsFollowCycle /\ RegistryAccounted)'
    BY <2>2 DEF PodsChange
  <2>3. CASE Cancel
    BY <2>3 DEF Cancel
  <2>4. CASE Expire
    BY <2>4 DEF Expire
  <2>5. CASE BeginCycle
    BY <2>5 DEF BeginCycle
  <2>6. CASE ListDevices
    BY <2>6 DEF ListDevices
  <2>7. ASSUME NEW d \in Device, WriteDevice(d) PROVE (MapsFollowCycle /\ RegistryAccounted)'
    BY <2>7 DEF WriteDevice, Set
  <2>8. CASE ListTaskDevices
    BY <2>8 DEF ListTaskDevices
  <2>9. CASE ListPods
    BY <2>9 DEF ListPods
  <2>10. ASSUME NEW c \in Container, WriteMetax(c) PROVE (MapsFollowCycle /\ RegistryAccounted)'
    BY <2>10 DEF WriteMetax, Set
  <2>11. CASE MetaxDone
    BY <2>11 DEF MetaxDone
  <2>12. ASSUME NEW d \in Device, NEW c \in Container, WriteTask(d, c) PROVE (MapsFollowCycle /\ RegistryAccounted)'
    BY <2>12 DEF WriteTask, Set
  <2>13. CASE DropCycle
    BY <2>13 DEF DropCycle, PassesDone
  <2>14. CASE BeginCommit
    BY <2>14 DEF BeginCommit, StaleCells, PassesDone
  <2>15. ASSUME NEW k \in Cell, PruneCell(k) PROVE (MapsFollowCycle /\ RegistryAccounted)'
    BY <2>15 DEF PruneCell
  <2>16. CASE FinishCommit
    BY <2>16 DEF FinishCommit
  <2>17. CASE ExitLoop
    BY <2>17 DEF ExitLoop
  <2>18. CASE UNCHANGED vars
    BY <2>18
  <2>. QED
    BY <2>1, <2>2, <2>3, <2>4, <2>5, <2>6, <2>7, <2>8, <2>9, <2>10, <2>11, <2>12,
       <2>13, <2>14, <2>15, <2>16, <2>17, <2>18
    DEF Next, Environment, Collector, Terminated
<1>. QED
  BY <1>1, <1>2, TypeCorrect, PTL DEF Spec


-----------------------------------------------------------------------------

(* Adding cells exposes no fewer devices.                                  *)
LEMMA ExposedMonotone ==
    ASSUME NEW C, NEW D, C \subseteq D, NEW d, Exposed(C, d)
    PROVE  Exposed(D, d)
BY DEF Exposed

(* A device listed by a cycle and present ever since is written before the *)
(* cycle commits, so the devices known after a commit were written by it.  *)
THEOREM StayedDevices == Spec => []StayedWritten
<1>1. Init => StayedWritten
  BY DEF Init, StayedWritten, InCycle, InPass
<1>2. StayedWritten /\ MapsFollowCycle /\ TypeOK /\ [Next]_vars => StayedWritten'
  <2> SUFFICES ASSUME StayedWritten, MapsFollowCycle, TypeOK, [Next]_vars
               PROVE  StayedWritten'
    OBVIOUS
  <2> USE DEF StayedWritten, InPass, env, work, history, cells, vars
  <2>1. ASSUME NEW S \in SUBSET Device, SnapshotSwap(S) PROVE StayedWritten'
    BY <2>1 DEF SnapshotSwap
  <2>2. ASSUME NEW S \in SUBSET Container, PodsChange(S) PROVE StayedWritten'
    BY <2>2 DEF PodsChange
  <2>3. CASE Cancel
    BY <2>3 DEF Cancel
  <2>4. CASE Expire
    BY <2>4 DEF Expire
  <2>5. CASE BeginCycle
    BY <2>5 DEF BeginCycle
  <2>6. CASE ListDevices
    BY <2>6 DEF ListDevices, InCycle
  <2>7. ASSUME NEW d \in Device, WriteDevice(d) PROVE StayedWritten'
    <3> PICK label \in Labels, answered \in Answers :
                Set(DeviceCells(d, label, answered))
      BY <2>7 DEF WriteDevice
    <3> DEFINE W == DeviceCells(d, label, answered)
    <3>1. Exposed(W, d) /\ current' = current \cup W
      BY DeviceCellsType DEF Set
    <3> HIDE DEF W
    <3>2. Exposed(current', d)
      BY <3>1, ExposedMonotone
    <3>3. \A e : Exposed(current, e) => Exposed(current', e)
      BY <3>1, ExposedMonotone
    <3>. QED
      BY <2>7, <3>2, <3>3 DEF WriteDevice
  <2>8. CASE ListTaskDevices
    BY <2>8 DEF ListTaskDevices
  <2>9. CASE ListPods
    BY <2>9 DEF ListPods
  <2>10. ASSUME NEW c \in Container, WriteMetax(c) PROVE StayedWritten'
    <3> PICK reported \in SUBSET Device, answered \in Answers :
                Set(TaskCells(reported, c, answered))
      BY <2>10 DEF WriteMetax
    <3>1. \A e : Exposed(current, e) => Exposed(current', e)
      BY ExposedMonotone DEF Set
    <3>. QED
      BY <2>10, <3>1 DEF WriteMetax
  <2>11. CASE MetaxDone
    BY <2>11 DEF MetaxDone
  <2>12. ASSUME NEW d \in Device, NEW c \in Container, WriteTask(d, c) PROVE StayedWritten'
    <3> PICK answered \in Answers : Set(TaskCells({d}, c, answered))
      BY <2>12 DEF WriteTask
    <3>1. \A e : Exposed(current, e) => Exposed(current', e)
      BY ExposedMonotone DEF Set
    <3>. QED
      BY <2>12, <3>1 DEF WriteTask
  <2>13. CASE DropCycle
    BY <2>13 DEF DropCycle, PassesDone
  <2>14. CASE BeginCommit
    BY <2>14 DEF BeginCommit, StaleCells, PassesDone, MapsFollowCycle, InCycle
  <2>15. ASSUME NEW k \in Cell, PruneCell(k) PROVE StayedWritten'
    BY <2>15 DEF PruneCell
  <2>16. CASE FinishCommit
    BY <2>16 DEF FinishCommit, MapsFollowCycle
  <2>17. CASE ExitLoop
    BY <2>17 DEF ExitLoop
  <2>18. CASE UNCHANGED vars
    BY <2>18
  <2>. QED
    BY <2>1, <2>2, <2>3, <2>4, <2>5, <2>6, <2>7, <2>8, <2>9, <2>10, <2>11, <2>12,
       <2>13, <2>14, <2>15, <2>16, <2>17, <2>18
    DEF Next, Environment, Collector, Terminated
<1>3. QED
  BY <1>1, <1>2, TypeCorrect, Accounting, PTL DEF Spec

(* No window without a known device: for every set of devices, any         *)
(* interleaving of snapshot swaps, timeouts, failed queries and deletions. *)
THEOREM NoMissingDevice == Spec => []KnownDeviceExposed
<1>1. StayedWritten /\ MapsFollowCycle /\ RegistryAccounted => KnownDeviceExposed
  <2> SUFFICES ASSUME StayedWritten, MapsFollowCycle, RegistryAccounted,
                      NEW d \in known
               PROVE  Exposed(registry, d)
    BY DEF KnownDeviceExposed
  <2>1. CASE pc = "prune"
    <3>1. Exposed(current, d)
      BY <2>1 DEF StayedWritten, MapsFollowCycle
    <3>. QED
      BY <2>1, <3>1, ExposedMonotone DEF RegistryAccounted
  <2>2. CASE pc # "prune"
    <3>1. Exposed(prev, d)
      BY DEF StayedWritten
    <3>. QED
      BY <2>2, <3>1, ExposedMonotone DEF RegistryAccounted
  <2>. QED
    BY <2>1, <2>2
<1>. QED
  BY <1>1, StayedDevices, Accounting, PTL

-----------------------------------------------------------------------------

(* Adding cells exposes a container no less.                               *)
LEMMA UseExposedMonotone ==
    ASSUME NEW C, NEW D, C \subseteq D, NEW d, NEW c, UseExposed(C, d, c)
    PROVE  UseExposed(D, d, c)
BY DEF UseExposed

(* A visit of a container on a device exposes the pair.                    *)
LEMMA VisitExposesUse ==
    ASSUME NEW d \in Device, NEW c \in Container, NEW answered \in BOOLEAN
    PROVE  UseExposed(TaskCells({d}, c, answered), d, c)
<1>1. [gauge |-> "taskAlloc", dev |-> d, tag |-> c] \in TaskCells({d}, c, answered)
  BY DEF TaskCells, TaskGauge
<1>. QED
  BY <1>1 DEF UseExposed

(* A pair of a device and a container listed by a cycle, both present ever *)
(* since, is written before the cycle commits; and a pair the committed    *)
(* cycle wrote, both present ever since, is listed by the next one, though *)
(* the pass lists devices and containers at two different moments.         *)
THEOREM StayedUses == Spec => [](UsesFollowCycle /\ StayedUsesWritten)
<1>1. Init => UsesFollowCycle /\ StayedUsesWritten
  BY DEF Init, UsesFollowCycle, StayedUsesWritten
<1>2. UsesFollowCycle /\ StayedUsesWritten /\ MapsFollowCycle /\ TypeOK /\ [Next]_vars
         => (UsesFollowCycle /\ StayedUsesWritten)'
  <2> DEFINE Inv == UsesFollowCycle /\ StayedUsesWritten
  <2> SUFFICES ASSUME UsesFollowCycle, StayedUsesWritten, MapsFollowCycle, TypeOK, [Next]_vars
               PROVE  Inv'
    OBVIOUS
  <2> USE DEF UsesFollowCycle, StayedUsesWritten, InPass, InCycle,
              env, work, history, cells, vars
  <2>a. ASSUME NEW C, current' = current \cup C
        PROVE  \A d, c : UseExposed(current, d, c) => UseExposed(current', d, c)
    BY <2>a, UseExposedMonotone
  <2>1. ASSUME NEW S \in SUBSET Device, SnapshotSwap(S) PROVE Inv'
    BY <2>1 DEF SnapshotSwap
  <2>2. ASSUME NEW S \in SUBSET Container, PodsChange(S) PROVE Inv'
    BY <2>2 DEF PodsChange
  <2>3. CASE Cancel
    BY <2>3 DEF Cancel
  <2>4. CASE Expire
    BY <2>4 DEF Expire
  <2>5. CASE BeginCycle
    BY <2>5 DEF BeginCycle
  <2>6. CASE ListDevices
    BY <2>6 DEF ListDevices
  <2>7. ASSUME NEW d \in Device, WriteDevice(d) PROVE Inv'
    BY <2>7 DEF WriteDevice
  <2>8. CASE ListTaskDevices
    BY <2>8 DEF ListTaskDevices
  <2>9. CASE ListPods
    BY <2>9 DEF ListPods
  <2>10. ASSUME NEW c \in Container, WriteMetax(c) PROVE Inv'
    <3> PICK reported \in SUBSET Device, answered \in Answers :
                Set(TaskCells(reported, c, answered))
      BY <2>10 DEF WriteMetax
    <3>1. \A d, e : UseExposed(current, d, e) => UseExposed(current', d, e)
      BY <2>a DEF Set
    <3>. QED
      BY <2>10, <3>1 DEF WriteMetax
  <2>11. CASE MetaxDone
    BY <2>11 DEF MetaxDone
  <2>12. ASSUME NEW d \in Device, NEW c \in Container, WriteTask(d, c) PROVE Inv'
    <3> PICK answered \in Answers : Set(TaskCells({d}, c, answered))
      BY <2>12 DEF WriteTask
    <3> DEFINE W == TaskCells({d}, c, answered)
    <3>1. UseExposed(W, d, c) /\ current' = current \cup W
      BY VisitExposesUse DEF Set, Answers
    <3> HIDE DEF W
    <3>2. UseExposed(current', d, c)
      BY <3>1, UseExposedMonotone
    <3>3. \A e, f : UseExposed(current, e, f) => UseExposed(current', e, f)
      BY <2>a, <3>1
    <3>4. \A u \in taskTodo : u \in taskTodo' \/ (u[1] = d /\ u[2] = c)
      BY <2>12 DEF WriteTask
    <3>. QED
      BY <2>12, <3>2, <3>3, <3>4 DEF WriteTask
  <2>13. CASE DropCycle
    BY <2>13 DEF DropCycle, PassesDone
  <2>14. CASE BeginCommit
    BY <2>14 DEF BeginCommit, StaleCells, PassesDone, MapsFollowCycle
  <2>15. ASSUME NEW k \in Cell, PruneCell(k) PROVE Inv'
    BY <2>15 DEF PruneCell
  <2>16. CASE FinishCommit
    BY <2>16 DEF FinishCommit
  <2>17. CASE ExitLoop
    BY <2>17 DEF ExitLoop
  <2>18. CASE UNCHANGED vars
    BY <2>18
  <2>. QED
    BY <2>1, <2>2, <2>3, <2>4, <2>5, <2>6, <2>7, <2>8, <2>9, <2>10, <2>11, <2>12,
       <2>13, <2>14, <2>15, <2>16, <2>17, <2>18
    DEF Next, Environment, Collector, Terminated
<1>. QED
  BY <1>1, <1>2, TypeCorrect, Accounting, PTL DEF Spec

(* No window without a container that keeps running on its device: for any *)
(* devices and containers, whatever becomes of their usage queries.        *)
THEOREM NoMissingUse == Spec => []KnownUseExposed
<1>1. UsesFollowCycle /\ StayedUsesWritten /\ MapsFollowCycle /\ RegistryAccounted
         => KnownUseExposed
  <2> SUFFICES ASSUME UsesFollowCycle, StayedUsesWritten, MapsFollowCycle, RegistryAccounted,
                      NEW u \in knownUses
               PROVE  UseExposed(registry, u[1], u[2])
    BY DEF KnownUseExposed
  <2>1. CASE pc = "prune"
    <3>1. UseExposed(current, u[1], u[2])
      BY <2>1 DEF UsesFollowCycle, StayedUsesWritten
    <3>. QED
      BY <2>1, <3>1, UseExposedMonotone DEF RegistryAccounted
  <2>2. CASE pc # "prune"
    <3>1. UseExposed(prev, u[1], u[2])
      BY DEF StayedUsesWritten
    <3>. QED
      BY <2>2, <3>1, UseExposedMonotone DEF RegistryAccounted
  <2>. QED
    BY <2>1, <2>2
<1>. QED
  BY <1>1, StayedUses, Accounting, PTL

-----------------------------------------------------------------------------

(* A commit deletes cells of the previous committed cycle that the cycle   *)
(* being committed has not written; no other step deletes a cell.          *)
THEOREM DeletionsAreCommits == Spec => OnlyCommitDeletes
<1> DEFINE Justified ==
      \A c \in registry \ registry' : pc = "prune" /\ c \in prev /\ c \notin current
<1>1. MapsFollowCycle /\ [Next]_vars => [Justified]_vars
  <2> SUFFICES ASSUME MapsFollowCycle, [Next]_vars
               PROVE  Justified
    OBVIOUS
  <2> USE DEF env, work, history, cells, vars
  <2>1. ASSUME NEW S \in SUBSET Device, SnapshotSwap(S) PROVE Justified
    BY <2>1 DEF SnapshotSwap
  <2>2. ASSUME NEW S \in SUBSET Container, PodsChange(S) PROVE Justified
    BY <2>2 DEF PodsChange
  <2>3. CASE Cancel
    BY <2>3 DEF Cancel
  <2>4. CASE Expire
    BY <2>4 DEF Expire
  <2>5. CASE BeginCycle
    BY <2>5 DEF BeginCycle
  <2>6. CASE ListDevices
    BY <2>6 DEF ListDevices
  <2>7. ASSUME NEW d \in Device, WriteDevice(d) PROVE Justified
    BY <2>7 DEF WriteDevice, Set
  <2>8. CASE ListTaskDevices
    BY <2>8 DEF ListTaskDevices
  <2>9. CASE ListPods
    BY <2>9 DEF ListPods
  <2>10. ASSUME NEW c \in Container, WriteMetax(c) PROVE Justified
    BY <2>10 DEF WriteMetax, Set
  <2>11. CASE MetaxDone
    BY <2>11 DEF MetaxDone
  <2>12. ASSUME NEW d \in Device, NEW c \in Container, WriteTask(d, c) PROVE Justified
    BY <2>12 DEF WriteTask, Set
  <2>13. CASE DropCycle
    BY <2>13 DEF DropCycle
  <2>14. CASE BeginCommit
    BY <2>14 DEF BeginCommit, StaleCells
  <2>15. ASSUME NEW k \in Cell, PruneCell(k) PROVE Justified
    BY <2>15 DEF PruneCell, MapsFollowCycle
  <2>16. CASE FinishCommit
    BY <2>16 DEF FinishCommit
  <2>17. CASE ExitLoop
    BY <2>17 DEF ExitLoop
  <2>18. CASE UNCHANGED vars
    BY <2>18
  <2>. QED
    BY <2>1, <2>2, <2>3, <2>4, <2>5, <2>6, <2>7, <2>8, <2>9, <2>10, <2>11, <2>12,
       <2>13, <2>14, <2>15, <2>16, <2>17, <2>18
    DEF Next, Environment, Collector, Terminated
<1>. QED
  BY <1>1, Accounting, PTL DEF Spec, OnlyCommitDeletes


-----------------------------------------------------------------------------

(* Deleting cells keeps tuples unique.                                     *)
LEMMA OneTupleSubset ==
    ASSUME NEW C, NEW D, D \subseteq C, OneTuple(C)
    PROVE  OneTuple(D)
BY DEF OneTuple

(* The device gauges of one visit carry one label tuple.                   *)
LEMMA OneTupleVisit ==
    ASSUME NEW d \in Device, NEW label, NEW answered \in BOOLEAN
    PROVE  /\ OneTuple(DeviceCells(d, label, answered))
           /\ \A c \in DeviceCells(d, label, answered) : c.dev = d
BY DEF OneTuple, DeviceCells

(* Cells for a device not seen before keep tuples unique, and so do task   *)
(* cells.                                                                  *)
LEMMA OneTupleUnion ==
    ASSUME NEW C, NEW W, OneTuple(C), OneTuple(W),
           \A c \in C, w \in W :
               c.gauge \in DeviceGauge /\ w.gauge \in DeviceGauge => c.dev # w.dev
    PROVE  OneTuple(C \cup W)
BY DEF OneTuple

(* A container's cells are on no device gauge.                             *)
LEMMA TaskCellsGauge ==
    ASSUME NEW D, NEW c, NEW answered \in BOOLEAN
    PROVE  \A w \in TaskCells(D, c, answered) : w.gauge \notin DeviceGauge
BY DEF TaskCells, TaskGauge, DeviceGauge

(* A cycle visits a device once, so it gives it one label tuple per gauge. *)
THEOREM DevicesWrittenOnce == Spec => []WrittenOnce
<1>1. Init => WrittenOnce
  BY DEF Init, WrittenOnce, OneTuple
<1>2. WrittenOnce /\ MapsFollowCycle /\ TypeOK /\ [Next]_vars => WrittenOnce'
  <2> SUFFICES ASSUME WrittenOnce, MapsFollowCycle, TypeOK, [Next]_vars
               PROVE  WrittenOnce'
    OBVIOUS
  <2>a. UNCHANGED <<prev, current, devTodo>> => WrittenOnce'
    BY DEF WrittenOnce, OneTuple
  <2> USE DEF env, work, history, cells, vars
  <2>b. ASSUME NEW D, NEW c, NEW answered \in BOOLEAN,
               Set(TaskCells(D, c, answered)), UNCHANGED <<prev, devTodo>>
        PROVE  WrittenOnce'
    <3> DEFINE W == TaskCells(D, c, answered)
    <3>1. \A w \in W : w.gauge \notin DeviceGauge
      BY TaskCellsGauge
    <3>2. current' = current \cup W
      BY <2>b DEF Set
    <3> HIDE DEF W
    <3>3. OneTuple(W)
      BY <3>1 DEF OneTuple
    <3>4. OneTuple(current \cup W)
      BY <3>1, <3>3, OneTupleUnion DEF WrittenOnce
    <3>. QED
      BY <2>b, <3>1, <3>2, <3>4 DEF WrittenOnce, OneTuple
  <2>1. ASSUME NEW S \in SUBSET Device, SnapshotSwap(S) PROVE WrittenOnce'
    BY <2>1, <2>a DEF SnapshotSwap
  <2>2. ASSUME NEW S \in SUBSET Container, PodsChange(S) PROVE WrittenOnce'
    BY <2>2, <2>a DEF PodsChange
  <2>3. CASE Cancel
    BY <2>3, <2>a DEF Cancel
  <2>4. CASE Expire
    BY <2>4, <2>a DEF Expire
  <2>5. CASE BeginCycle
    BY <2>5 DEF BeginCycle, WrittenOnce, OneTuple
  <2>6. CASE ListDevices
    BY <2>6 DEF ListDevices, WrittenOnce, MapsFollowCycle, InCycle, InPass, OneTuple
  <2>7. ASSUME NEW d \in Device, WriteDevice(d) PROVE WrittenOnce'
    <3> PICK label \in Labels, answered \in Answers :
                Set(DeviceCells(d, label, answered))
      BY <2>7 DEF WriteDevice
    <3> DEFINE W == DeviceCells(d, label, answered)
    <3>1. /\ OneTuple(W)
          /\ \A c \in W : c.dev = d
      BY OneTupleVisit DEF Answers
    <3>2. /\ current' = current \cup W
          /\ prev' = prev
          /\ d \in devTodo
          /\ devTodo' = devTodo \ {d}
      BY <2>7 DEF WriteDevice, Set
    <3> HIDE DEF W
    <3>3. OneTuple(current \cup W)
      BY <3>1, <3>2, OneTupleUnion DEF WrittenOnce
    <3>. QED
      BY <3>1, <3>2, <3>3 DEF WrittenOnce, OneTuple
  <2>8. CASE ListTaskDevices
    BY <2>8, <2>a DEF ListTaskDevices
  <2>9. CASE ListPods
    BY <2>9, <2>a DEF ListPods
  <2>10. ASSUME NEW c \in Container, WriteMetax(c) PROVE WrittenOnce'
    <3> PICK reported \in SUBSET Device, answered \in Answers :
                Set(TaskCells(reported, c, answered))
      BY <2>10 DEF WriteMetax
    <3>. QED
      BY <2>10, <2>b DEF WriteMetax, Answers
  <2>11. CASE MetaxDone
    BY <2>11, <2>a DEF MetaxDone
  <2>12. ASSUME NEW d \in Device, NEW c \in Container, WriteTask(d, c) PROVE WrittenOnce'
    <3> PICK answered \in Answers : Set(TaskCells({d}, c, answered))
      BY <2>12 DEF WriteTask
    <3>. QED
      BY <2>12, <2>b DEF WriteTask, Answers
  <2>13. CASE DropCycle
    BY <2>13 DEF DropCycle, PassesDone, WrittenOnce, OneTuple
  <2>14. CASE BeginCommit
    BY <2>14, <2>a DEF BeginCommit, StaleCells, PassesDone
  <2>15. ASSUME NEW k \in Cell, PruneCell(k) PROVE WrittenOnce'
    BY <2>15, <2>a DEF PruneCell
  <2>16. CASE FinishCommit
    BY <2>16 DEF FinishCommit, WrittenOnce, OneTuple
  <2>17. CASE ExitLoop
    BY <2>17, <2>a DEF ExitLoop
  <2>18. CASE UNCHANGED vars
    BY <2>18, <2>a
  <2>. QED
    BY <2>1, <2>2, <2>3, <2>4, <2>5, <2>6, <2>7, <2>8, <2>9, <2>10, <2>11, <2>12,
       <2>13, <2>14, <2>15, <2>16, <2>17, <2>18
    DEF Next, Environment, Collector, Terminated
<1>3. QED
  BY <1>1, <1>2, TypeCorrect, Accounting, PTL DEF Spec

(* Between cycles every device series is unique, leftovers aside.          *)
THEOREM UniqueTuples == Spec => []OneTupleAtRest
<1>1. WrittenOnce /\ MapsFollowCycle /\ RegistryAccounted => OneTupleAtRest
  BY OneTupleSubset
     DEF WrittenOnce, MapsFollowCycle, RegistryAccounted, OneTupleAtRest, InCycle, InPass
<1>. QED
  BY <1>1, DevicesWrittenOnce, Accounting, PTL


-----------------------------------------------------------------------------

(* The collector implements the device board: whatever the cycles do, the  *)
(* devices a scrape shows change only as the board allows.                 *)
THEOREM BoardRefinement == Spec => ImplementsBoard
<1> DEFINE Shown == {d \in Device : Exposed(registry, d)}
<1>1. Init => Board!Init
  BY DEF Init, Board!Init, Exposed
<1>2. /\ TypeOK /\ MapsFollowCycle /\ RegistryAccounted
      /\ StayedWritten /\ KnownDeviceExposed /\ KnownDeviceExposed'
      /\ [Next]_vars
      => [Board!Next]_(Board!vars)
  <2> SUFFICES ASSUME TypeOK, MapsFollowCycle, RegistryAccounted, StayedWritten,
                      KnownDeviceExposed, KnownDeviceExposed', [Next]_vars
               PROVE  [Board!Next]_(Board!vars)
    OBVIOUS
  <2>a. UNCHANGED <<registry, known>> => UNCHANGED Board!vars
    BY DEF Board!vars, Exposed
  <2>b. registry \subseteq registry' /\ known' = known => Board!Show
    <3> SUFFICES ASSUME registry \subseteq registry', known' = known
                 PROVE  Board!Show
      OBVIOUS
    <3>1. Shown' = Shown \cup Shown'
      BY DEF Exposed
    <3>. QED
      BY <3>1 DEF Board!Show
  <2> USE DEF env, work, history, cells, vars
  <2>1. ASSUME NEW S \in SUBSET Device, SnapshotSwap(S) PROVE [Board!Next]_(Board!vars)
    <3>1. known' = known \ (known \ S) /\ registry' = registry
      BY <2>1 DEF SnapshotSwap
    <3>2. Board!Release
      BY <3>1 DEF Board!Release, Exposed
    <3>. QED
      BY <3>2 DEF Board!Next
  <2>2. ASSUME NEW S \in SUBSET Container, PodsChange(S) PROVE [Board!Next]_(Board!vars)
    BY <2>2, <2>a DEF PodsChange
  <2>3. CASE Cancel
    BY <2>3, <2>a DEF Cancel
  <2>4. CASE Expire
    BY <2>4, <2>a DEF Expire
  <2>5. CASE BeginCycle
    BY <2>5, <2>a DEF BeginCycle
  <2>6. CASE ListDevices
    BY <2>6, <2>a DEF ListDevices
  <2>7. ASSUME NEW d \in Device, WriteDevice(d) PROVE [Board!Next]_(Board!vars)
    BY <2>7, <2>b DEF WriteDevice, Set, Board!Next
  <2>8. CASE ListTaskDevices
    BY <2>8, <2>a DEF ListTaskDevices
  <2>9. CASE ListPods
    BY <2>9, <2>a DEF ListPods
  <2>10. ASSUME NEW c \in Container, WriteMetax(c) PROVE [Board!Next]_(Board!vars)
    BY <2>10, <2>b DEF WriteMetax, Set, Board!Next
  <2>11. CASE MetaxDone
    BY <2>11, <2>a DEF MetaxDone
  <2>12. ASSUME NEW d \in Device, NEW c \in Container, WriteTask(d, c) PROVE [Board!Next]_(Board!vars)
    BY <2>12, <2>b DEF WriteTask, Set, Board!Next
  <2>13. CASE DropCycle
    BY <2>13, <2>a DEF DropCycle
  <2>14. CASE BeginCommit
    BY <2>14, <2>a DEF BeginCommit, StaleCells
  <2>15. ASSUME NEW k \in Cell, PruneCell(k) PROVE [Board!Next]_(Board!vars)
    <3>1. known' = known /\ registry' = registry \ {k}
      BY <2>15 DEF PruneCell
    <3>2. Shown' = Shown \ (Shown \ Shown')
      BY <3>1 DEF Exposed
    <3>3. (Shown \ Shown') \cap known = {}
      BY <3>1 DEF KnownDeviceExposed
    <3>4. Board!Hide
      BY <3>1, <3>2, <3>3 DEF Board!Hide
    <3>. QED
      BY <3>4 DEF Board!Next
  <2>16. CASE FinishCommit
    <3>1. known' = stayed /\ registry' = registry /\ known \subseteq stayed
      BY <2>16 DEF FinishCommit, StayedWritten
    <3>2. known' \subseteq Shown
      BY <3>1 DEF KnownDeviceExposed, TypeOK, Exposed
    <3>3. Board!Review
      BY <3>1, <3>2 DEF Board!Review, Exposed
    <3>. QED
      BY <3>3 DEF Board!Next
  <2>17. CASE ExitLoop
    BY <2>17, <2>a DEF ExitLoop
  <2>18. CASE UNCHANGED vars
    BY <2>18, <2>a
  <2>. QED
    BY <2>1, <2>2, <2>3, <2>4, <2>5, <2>6, <2>7, <2>8, <2>9, <2>10, <2>11, <2>12,
       <2>13, <2>14, <2>15, <2>16, <2>17, <2>18
    DEF Next, Environment, Collector, Terminated
<1>. QED
  BY <1>1, <1>2, TypeCorrect, Accounting, StayedDevices, NoMissingDevice, PTL
  DEF Spec, ImplementsBoard, Board!Spec

=============================================================================
