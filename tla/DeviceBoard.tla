---------------------------- MODULE DeviceBoard ----------------------------
(***************************************************************************)
(* What /metrics promises about devices, without cycles, cells or commits  *)
(* (the promise of the header of cells.go): a board of devices.  A device  *)
(* may be put on the board at any time; once the board vouches for it, it  *)
(* can leave only after the board has stopped vouching, which happens when *)
(* the device leaves the inventory or a later review does not confirm it.  *)
(***************************************************************************)
CONSTANT Device

VARIABLES
    shown,   \* devices on the board
    vouched  \* devices the board promises to keep showing

vars == <<shown, vouched>>

Init == shown = {} /\ vouched = {}

(* Devices appear.                                                         *)
Show ==
    /\ \E S \in SUBSET Device : shown' = shown \cup S
    /\ UNCHANGED vouched

(* Devices the board does not vouch for disappear.                         *)
Hide ==
    /\ \E S \in SUBSET (shown \ vouched) : shown' = shown \ S
    /\ UNCHANGED vouched

(* The board stops vouching for devices.                                   *)
Release ==
    /\ \E S \in SUBSET vouched : vouched' = vouched \ S
    /\ UNCHANGED shown

(* A review vouches for devices on the board, never dropping one that was  *)
(* vouched for and has not been released.                                  *)
Review ==
    /\ \E S \in SUBSET shown : vouched \subseteq S /\ vouched' = S
    /\ UNCHANGED shown

Next == Show \/ Hide \/ Release \/ Review

Spec == Init /\ [][Next]_vars
=============================================================================
