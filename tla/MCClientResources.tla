------------------------- MODULE MCClientResources -------------------------
(***************************************************************************)
(* An instance of ClientResources for TLC: a switch port with two custom   *)
(* policers and a MAC port that compete for flows, channels and addresses. *)
(***************************************************************************)
EXTENDS ClientResources, TLC

CONSTANTS p1, p2, f1, f2, c1, c2, m1, m2, i1, i2, pol1, pol2

MCTxChOf == p1 :> c1 @@ p2 :> c2
MCNumRxFlow == [p \in VirtPort |-> 1]
MCPolicers == p1 :> <<pol1, pol2>> @@ p2 :> <<>>
(* Flows are alike, and so are MAC addresses.                              *)
MCSymmetry == Permutations({f1, f2}) \cup Permutations({m1, m2})

MCIpOf == [p \in SwitchPort |-> Ip]
=============================================================================
