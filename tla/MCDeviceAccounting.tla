------------------------- MODULE MCDeviceAccounting -------------------------
(* Instances of DeviceAccounting for TLC.                                  *)
EXTENDS DeviceAccounting, TLC

CONSTANTS x1, x2

At(n, v, i) == [node |-> n, vendor |-> v, num |-> i]

(* A Hygon node with two cards whose numbers collide, a node with two      *)
(* MetaX cards, an Ascend node.                                            *)
Collision ==
    {At("a", "hygon", 1), At("a", "hygon", 10),
     At("b", "metax", 0), At("b", "metax", 1), At("c", "ascend", 0)}

(* All exporters answer, none does, each does in part.                     *)
Outages ==
    {Collision, {}, {At("a", "hygon", 10), At("b", "metax", 1)}}

ContainerSymmetry == Permutations(Container)
=============================================================================
