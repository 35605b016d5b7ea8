-------------------------- MODULE MCPodDeviceCodec --------------------------
(* Instances of PodDeviceCodec, and of MonitorSeries beside it.  The two    *)
(* share nothing, so that their interleavings need not be explored: range  *)
(* queries are served when the shortest annotation has been decoded.       *)
EXTENDS PodDeviceCodec, MonitorSeries, TLC

CONSTANTS d1, d2

DeviceSymmetry == Permutations(Device)

Serving == vendor = "mlu" /\ mluFields = 2 /\ ctrCount = 1 /\ pc = "done"

MCInit == Init /\ Unasked

MCNext ==
    \/ Next /\ UNCHANGED <<query, samples, series>>
    \/ Serving /\ Unasked /\ QueryRange /\ UNCHANGED vars

MCSpec == MCInit /\ [][MCNext]_<<vars, query, samples, series>>
=============================================================================
