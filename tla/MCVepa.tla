------------------------------- MODULE MCVepa -------------------------------
(***************************************************************************)
(* An instance of Vepa for TLC: two ports, one VLAN, one shared address.   *)
(***************************************************************************)
EXTENDS Vepa, TLC

CONSTANTS p1, p2

(* Ports are alike.                                                        *)
MCSymmetry == Permutations(Port)
=============================================================================
