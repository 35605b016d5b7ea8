------------------------- MODULE MCMetricsCollector -------------------------
(* Instances of MetricsCollector for TLC.                                  *)
EXTENDS MetricsCollector, TLC

CONSTANTS d1, d2, c1, m1

NoMatches == {}

(* One device; an NVIDIA container on it and a MetaX container.            *)
MixedMatches == {<<d1, c1>>, <<d1, m1>>}

OneEach == [c \in Container |-> 1]

DeviceSymmetry == Permutations(Device)
=============================================================================
