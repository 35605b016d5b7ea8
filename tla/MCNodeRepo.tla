----------------------------- MODULE MCNodeRepo -----------------------------
(* Instances of NodeRepo for TLC.                                          *)
EXTENDS NodeRepo, TLC

CONSTANTS n1, n2, nvidia, mlu

Vendors == <<nvidia, mlu>>

(* One NVIDIA node, and one both selectors match.                          *)
MixedLabels == [n \in Node |-> IF n = n1 THEN {nvidia} ELSE {nvidia, mlu}]
=============================================================================
