---------------------------- MODULE MCWebConsole ----------------------------
(* An instance of WebConsole for TLC.                                      *)
EXTENDS WebConsole, TLC

CONSTANTS n1, n2, c1, c2, c3, t1, t2, A, B, V

(* Node n1 has two cards of type A, n2 one of type B, which HAMi does not   *)
(* manage, as it does not manage n2.                                       *)
OnNodes   == c1 :> n1 @@ c2 :> n1 @@ c3 :> n2
OfTypes   == c1 :> A @@ c2 :> A @@ c3 :> B
Figures3  == [c \in Cards |-> IF c = c1 THEN [used |-> 5, total |-> 10]
                              ELSE [used |-> 0, total |-> 0]]
Figures2  == [n \in Nodes |-> [used |-> 11, total |-> 10]]
Workloads == n1 :> 12 @@ n2 :> 3

(* One workload on a card of either node.  The annotation of the second     *)
(* names a vendor that is not monitored, though its card is.               *)
OnCards   == t1 :> {c1} @@ t2 :> {c3}
Vendors   == t1 :> A @@ t2 :> V
States    == t1 :> "success" @@ t2 :> ""
Given     == [t \in Tasks |-> [cores |-> 50, memory |-> None]]

(* The text "x" finds the first card, node and workload.                   *)
FindsCards == "" :> Cards @@ "x" :> {c1}
FindsNodes == "" :> Nodes @@ "x" :> {n1}
FindsTasks == "" :> Tasks @@ "x" :> {t1}
=============================================================================
