---------------------------- MODULE MCWorldTransfer ----------------------------
(* Instances of WorldTransfer for TLC. *)
EXTENDS WorldTransfer, TLC

CONSTANTS l1, l2, l3

MCLegs == {l1, l2, l3}
AllFaults == {"refuse", "eof", "reset"}
================================================================================
