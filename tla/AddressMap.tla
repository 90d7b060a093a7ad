----------------------------- MODULE AddressMap -----------------------------
(***************************************************************************)
(* What the proxy ARP table promises: a map from the IP addresses of the   *)
(* remote cores (each on a VLAN) to MAC addresses.  An address that is     *)
(* added again gets the new MAC address; a new address is taken while      *)
(* there is room; a lookup answers with the MAC address added last.        *)
(***************************************************************************)
EXTENDS Naturals, FiniteSets

CONSTANTS Ip,              \* IP addresses, each with its VLAN id
          Hw,              \* MAC addresses
          Capacity         \* number of addresses there is room for

VARIABLE map               \* the partial function of the map

Init == map = [ip \in {} |-> ip]

Bind(ip, hw) ==
  /\ ip \in DOMAIN map \/ Cardinality(DOMAIN map) < Capacity
  /\ map' = [i \in DOMAIN map \cup {ip} |-> IF i = ip THEN hw ELSE map[i]]

Unbind(ip) ==
  /\ ip \in DOMAIN map
  /\ map' = [i \in DOMAIN map \ {ip} |-> map[i]]

Next == \E ip \in Ip : Unbind(ip) \/ \E hw \in Hw : Bind(ip, hw)

Spec == Init /\ [][Next]_map
=============================================================================
