------------------------------ MODULE ArpTable ------------------------------
(***************************************************************************)
(* The proxy ARP table of the server, ethfw_arp.c: a small table of        *)
(* entries, each free or an IP address (with its VLAN id) and the MAC      *)
(* address of the client behind it.  The server answers the ARP requests   *)
(* of the network from it, and the monitor waits for it to be empty.  Every*)
(* call holds the table's mutex, so that it is one step.                   *)
(***************************************************************************)
EXTENDS Naturals, FiniteSets

CONSTANTS Ip,              \* IP addresses, each with its VLAN id
          Hw,              \* MAC addresses
          ArpSize,         \* ETHFW_ARP_TABLE_SIZE
          NoEntry          \* an entry with isFree

ArpSlots == 1..ArpSize
ArpEntry == [ip : Ip, hw : Hw]

ASSUME ArpAssumption == ArpSize \in Nat /\ NoEntry \notin ArpEntry

VARIABLE arp               \* remoteCoreArpTable

ArpInit == arp = [i \in ArpSlots |-> NoEntry]

Holds(i, ip) == arp[i] # NoEntry /\ arp[i].ip = ip

FirstHolding(i, ip) == Holds(i, ip) /\ \A j \in 1..(i - 1) : ~Holds(j, ip)

MutFirstFreeEntry(i) == i = 1
FirstFreeEntry(i) == arp[i] = NoEntry /\ \A j \in 1..(i - 1) : arp[j] # NoEntry

Known(ip) == \E i \in ArpSlots : Holds(i, ip)

(* EthFwArp_addAddr: the entry of a known address is updated, a new one    *)
(* takes the first free entry, and a full table refuses it.                *)
AddAddr(ip, hw) ==
  \/ \E i \in ArpSlots : /\ FirstHolding(i, ip)
                         /\ arp' = [arp EXCEPT ![i].hw = hw]
  \/ /\ ~Known(ip)
     /\ \E i \in ArpSlots : /\ FirstFreeEntry(i)
                            /\ arp' = [arp EXCEPT ![i] = [ip |-> ip, hw |-> hw]]
  \/ ~Known(ip) /\ (\A i \in ArpSlots : arp[i] # NoEntry) /\ UNCHANGED arp

(* EthFwArp_delAddr: the first entry of the address, whoever added it.     *)
DelAddr(ip) ==
  \/ \E i \in ArpSlots : FirstHolding(i, ip) /\ arp' = [arp EXCEPT ![i] = NoEntry]
  \/ ~Known(ip) /\ UNCHANGED arp

(* EthFwArp_getUseCnt.                                                     *)
UseCnt == Cardinality({i \in ArpSlots : arp[i] # NoEntry})

(* EthFwArp_getHwAddr, for every address there is an entry of.             *)
Resolve ==
  [ip \in {arp[i].ip : i \in {j \in ArpSlots : arp[j] # NoEntry}} |->
     arp[CHOOSE i \in ArpSlots : FirstHolding(i, ip)].hw]

ArpNext == \E ip \in Ip : DelAddr(ip) \/ \E hw \in Hw : AddAddr(ip, hw)

ArpSpec == ArpInit /\ [][ArpNext]_arp
-----------------------------------------------------------------------------
ArpTypeOK == arp \in [ArpSlots -> ArpEntry \cup {NoEntry}]

(* No IP address has two entries: a stale second one would answer ARP      *)
(* requests again after the first is deleted, and would keep the use count *)
(* the monitor waits for above the number of addresses registered.         *)
OneEntryEach == \A i, j \in ArpSlots, ip \in Ip : Holds(i, ip) /\ Holds(j, ip) => i = j

ArpInv == ArpTypeOK /\ OneEntryEach
-----------------------------------------------------------------------------
(* The table is the map it promises: a request answered from it gets the   *)
(* MAC address that was registered last for the IP address, and an add is  *)
(* taken exactly while there is room for another address.                  *)
Addresses == INSTANCE AddressMap WITH Ip <- Ip, Hw <- Hw,
                                      Capacity <- ArpSize, map <- Resolve

ImplementsAddressMap == Addresses!Spec
=============================================================================
