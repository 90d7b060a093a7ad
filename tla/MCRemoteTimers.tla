--------------------------- MODULE MCRemoteTimers ----------------------------
(***************************************************************************)
(* Instances of RemoteTimers for TLC: two cores, the inputs 1 to 8.        *)
(***************************************************************************)
EXTENDS RemoteTimers, TLC

CONSTANTS c1, c2           \* client cores

(* Each core has an input of its own, and c1 the first or the last ones.   *)
MCPushOf == (c1 :> {1}) @@ (c2 :> {2})
MCBothOf == (c1 :> {1, 2}) @@ (c2 :> {})
MCLastOf == (c1 :> {8}) @@ (c2 :> {})
=============================================================================
