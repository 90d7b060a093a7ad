------------------------------- MODULE MCVlan --------------------------------
(***************************************************************************)
(* Instances of Vlan for TLC: the virtual MAC ports 1 and 3 and the switch *)
(* ports 25 to 27, one configured VLAN as in the server application.       *)
(***************************************************************************)
EXTENDS Vlan, TLC

CONSTANTS v1024, v5, v6,   \* VLAN ids, the first configured
          sw               \* a MAC port in switch mode

(* ETHAPP_DFLT_VIRT_PORT_MASK and ETHAPP_DFLT_PORT_MASK.                   *)
MCDefaultVirt == {25, 26} \cap SwitchPort
MCDefaultAle == {Host} \cup SwitchMac

MCStaticMember == (v1024 :> MCDefaultVirt)
MCStaticAle == (v1024 :> MCDefaultAle)
=============================================================================
