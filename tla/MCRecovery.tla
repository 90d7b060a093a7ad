----------------------------- MODULE MCRecovery ------------------------------
(***************************************************************************)
(* Instances of Recovery for TLC: three ports on two cores, so that one    *)
(* core has two clients and the other one.                                 *)
(***************************************************************************)
EXTENDS Recovery

CONSTANTS p1, p2, p3       \* virtual ports

MCCoreOf == [p \in VirtPort |-> IF p = p3 THEN 2 ELSE 1]
=============================================================================
