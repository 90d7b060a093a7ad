-------------------------------- MODULE Vepa --------------------------------
(***************************************************************************)
(* Software packet duplication, ethfw_vepa.c, with the three handlers that *)
(* use it: registering a client's MAC address (cpsw_proxy_server.c), the   *)
(* filter of shared multicast addresses (ethfw_mcast.c) and VLANs          *)
(* (ethfw_vlan.c).  The VEPA table says which virtual switch ports get a   *)
(* copy of a packet; policers bring the packets to the duplication flow    *)
(* and the copies, tagged with a private VLAN, to the ports.               *)
(*                                                                         *)
(* One action is one request of a client, served by the one task of the    *)
(* server.  Any command to the switch may fail.  Trouble is such a failure, *)
(* a full table, a policer that is wanted while the flow is not open, and  *)
(* a client that asks for what it has or gives back what it has not.       *)
(***************************************************************************)
EXTENDS Naturals, FiniteSets

CONSTANTS Port,            \* virtual switch ports with a client
          Shared,          \* shared multicast addresses
          Bcast,           \* gEthFwBcastAddr
          Vlan,            \* VLAN ids a client may join
          NoVlan,          \* VLAN id 0
          TableSize,       \* ETHFW_VEPA_TABLE_SIZE
          Free,            \* an entry with isFree
          Width,           \* vlanRefCnt wraps at 2^Width
          MaxRef,          \* bound: references to a shared address
          MaxTrouble       \* bound: what goes wrong, all together

Slots == 1..TableSize
Addr == Shared \cup {Bcast}
Key == Addr \X (Vlan \cup {NoVlan})
Entry == [key : Key, mask : SUBSET Port]

(* Width determines 2^Width; its being 2 at least is spelled out for the   *)
(* provers, which do not compute powers.                                   *)
ASSUME VepaAssumption ==
  /\ Width \in Nat \ {0} /\ 2^Width \in Nat \ {0, 1}
  /\ TableSize \in Nat /\ MaxRef \in Nat /\ MaxTrouble \in Nat
  /\ Bcast \notin Shared /\ NoVlan \notin Vlan /\ Free \notin Entry

VARIABLES vepa,            \* remoteCoreVepaTable
          dupFlow,         \* packetDuplicationFlowIdx is defined
          refCnt,          \* refCnt of each shared address
          duplicated,      \* addresses with a policer to the duplication flow
          private,         \* ports with a policer of their private VLAN
          macSet,          \* ports with an entry in virtPortToMacAddr
          vlanRefCnt,      \* vlanRefCnt of each client object
          route,           \* ports with a classifier by MAC address
          active,          \* virtActiveMask of each VLAN
          registered,      \* ports whose client was told it is registered
          granted,         \* addresses each port was told it subscribes to
          trouble          \* how often something went wrong

vars == <<vepa, dupFlow, refCnt, duplicated, private, macSet, vlanRefCnt, route,
          active, registered, granted, trouble>>

Init ==
  /\ vepa = [i \in Slots |-> Free]
  /\ dupFlow \in BOOLEAN
  /\ refCnt = [m \in Shared |-> 0]
  /\ duplicated = {} /\ private = {} /\ macSet = {}
  /\ vlanRefCnt = [p \in Port |-> 0]
  /\ route = {}
  /\ active = [v \in Vlan |-> {}]
  /\ registered = {}
  /\ granted = [p \in Port |-> {}]
  /\ trouble = 0
-----------------------------------------------------------------------------
Holds(i, k) == vepa[i] # Free /\ vepa[i].key = k

Known(k) == \E i \in Slots : Holds(i, k)

FirstHolding(i, k) == Holds(i, k) /\ \A j \in 1..(i - 1) : ~Holds(j, k)

(* EthFwVepa_getVirtPortMask.                                              *)
MaskOf(k) == UNION {vepa[i].mask : i \in {j \in Slots : FirstHolding(j, k)}}

(* EthFwVepa_sendRaw: who gets a copy of a packet that `from' sent.        *)
Copies(from, k) == MaskOf(k) \ ({from} \cap macSet)

FirstFree(i) == vepa[i] = Free /\ \A j \in 1..(i - 1) : vepa[j] # Free

Full(k) == ~Known(k) /\ \A i \in Slots : vepa[i] # Free

(* EthFwVepa_addAddr: a full table is no error.                            *)
MutAddAddr(p, k) ==
  \/ \E i \in Slots : /\ FirstFree(i)
                      /\ vepa' = [vepa EXCEPT ![i] = [key |-> k, mask |-> {p}]]
  \/ (\A i \in Slots : vepa[i] # Free) /\ UNCHANGED vepa
AddAddr(p, k) ==
  \/ \E i \in Slots : FirstHolding(i, k) /\ vepa' = [vepa EXCEPT ![i].mask = @ \cup {p}]
  \/ /\ ~Known(k)
     /\ \E i \in Slots : /\ FirstFree(i)
                         /\ vepa' = [vepa EXCEPT ![i] = [key |-> k, mask |-> {p}]]
  \/ Full(k) /\ UNCHANGED vepa

(* What EthFwVepa_delAddr leaves in an entry.                              *)
MutWithout(e, p) == [e EXCEPT !.mask = @ \ {p}]
Without(e, p) == IF e.mask \subseteq {p} THEN Free ELSE [e EXCEPT !.mask = @ \ {p}]

(* EthFwVepa_delAddr; it fails when no port has the address.               *)
DelAddr(p, k) ==
  \/ \E i \in Slots : FirstHolding(i, k) /\ vepa' = [vepa EXCEPT ![i] = Without(@, p)]
  \/ ~Known(k) /\ UNCHANGED vepa

LastHolder(p, k) == MaskOf(k) \subseteq {p}

Note(fine) ==
  /\ fine \/ trouble < MaxTrouble
  /\ trouble' = IF fine THEN trouble ELSE trouble + 1

calm == trouble = 0
-----------------------------------------------------------------------------
(* Whether a client's broadcast policer is set along with its entry; when  *)
(* it is not, the status is overwritten and the client is told nothing.    *)
SetBcastPolicer(ok) ==
  duplicated' = IF ~Known(<<Bcast, NoVlan>>) /\ ok THEN duplicated \cup {Bcast} ELSE duplicated

(* EthFwVepa_registerClient.                                               *)
RegisterClient(p, vlanOk, bcastOk) ==
  IF vlanOk
  THEN /\ private' = private \cup {p}
       /\ macSet' = macSet \cup {p}
       /\ bcastOk => dupFlow \/ Known(<<Bcast, NoVlan>>)
       /\ SetBcastPolicer(bcastOk)
       /\ AddAddr(p, <<Bcast, NoVlan>>)
  ELSE UNCHANGED <<private, macSet, duplicated, vepa>>

MutNextCount(n) == n
NextCount(n) == (n + 1) % 2^Width

(* CpswProxyServer_registerMacHandlerCb: the client is registered for      *)
(* duplication with its first classifier, and counted when all went well.  *)
RegisterMac(p) ==
  /\ \E routeOk, vlanOk, bcastOk \in BOOLEAN :
       LET first == vlanRefCnt[p] = 0
           ok == routeOk /\ (first => vlanOk)
       IN  /\ route' = IF routeOk THEN route \cup {p} ELSE route
           /\ IF routeOk /\ first
              THEN RegisterClient(p, vlanOk, bcastOk)
              ELSE UNCHANGED <<private, macSet, duplicated, vepa>>
           /\ vlanRefCnt' = IF ok THEN [vlanRefCnt EXCEPT ![p] = NextCount(@)] ELSE vlanRefCnt
           /\ registered' = IF ok THEN registered \cup {p} ELSE registered
           /\ Note(p \notin registered /\ ok /\ bcastOk /\ ~Full(<<Bcast, NoVlan>>))
  /\ UNCHANGED <<dupFlow, refCnt, active, granted>>

(* EthFwVepa_unregisterClient.                                             *)
UnregisterClient(p, vlanOk, bcastOk) ==
  IF vlanOk
  THEN /\ private' = private \ {p}
       /\ macSet' = macSet \ {p}
       /\ DelAddr(p, <<Bcast, NoVlan>>)
       /\ bcastOk => Bcast \in duplicated
       /\ duplicated' = IF LastHolder(p, <<Bcast, NoVlan>>) /\ bcastOk
                        THEN duplicated \ {Bcast} ELSE duplicated
  ELSE UNCHANGED <<private, macSet, duplicated, vepa>>

(* Its status: with the last client's entry goes the broadcast policer,    *)
(* and whether that went well is what is returned.                         *)
Unregistered(p, vlanOk, bcastOk) ==
  vlanOk /\ (LastHolder(p, <<Bcast, NoVlan>>) => bcastOk)

(* CpswProxyServer_unregisterMacHandlerCb: the count is decremented first, *)
(* from zero to the largest number.                                        *)
UnregisterMac(p) ==
  /\ \E routeOk, vlanOk, bcastOk \in BOOLEAN :
       LET left == (vlanRefCnt[p] + 2^Width - 1) % 2^Width
       IN  /\ routeOk => p \in route
           /\ vlanOk => p \in private
           /\ route' = IF routeOk THEN route \ {p} ELSE route
           /\ vlanRefCnt' = IF routeOk THEN [vlanRefCnt EXCEPT ![p] = left] ELSE vlanRefCnt
           /\ IF routeOk /\ left = 0
              THEN UnregisterClient(p, vlanOk, bcastOk)
              ELSE UNCHANGED <<private, macSet, duplicated, vepa>>
           /\ registered' = IF routeOk /\ (left = 0 => Unregistered(p, vlanOk, bcastOk))
                            THEN registered \ {p} ELSE registered
           /\ Note(p \in registered /\ routeOk /\ vlanOk /\ bcastOk)
  /\ UNCHANGED <<dupFlow, refCnt, active, granted>>
-----------------------------------------------------------------------------
InVlan(p, v) == v \in Vlan => p \in active[v]

(* EthFwMcast_filterAddMac for a shared address; the policer is set with   *)
(* the first reference only.                                               *)
FilterAddMac(p, m, v) ==
  /\ InVlan(p, v)
  /\ refCnt[m] < MaxRef
  /\ \E ok \in BOOLEAN :
       /\ ok => refCnt[m] # 0 \/ dupFlow
       /\ IF ok
          THEN /\ refCnt' = [refCnt EXCEPT ![m] = @ + 1]
               /\ duplicated' = IF refCnt[m] = 0 THEN duplicated \cup {m} ELSE duplicated
               /\ AddAddr(p, <<m, v>>)
               /\ granted' = [granted EXCEPT ![p] = @ \cup {<<m, v>>}]
          ELSE refCnt[m] = 0 /\ UNCHANGED <<refCnt, duplicated, vepa, granted>>
       /\ Note(ok /\ <<m, v>> \notin granted[p] /\ ~Full(<<m, v>>))
  /\ UNCHANGED <<dupFlow, private, macSet, vlanRefCnt, route, active, registered>>

(* EthFwMcast_filterDelMacShared: policer and address are removed with the *)
(* last reference, the policer first.                                      *)
MutIsLast(n) == n = 2
IsLast(n) == n = 1

DelMacShared(p, m, v) ==
  \E polOk, aleOk \in BOOLEAN :
    LET ok == refCnt[m] # 0 /\ (IsLast(refCnt[m]) => polOk /\ aleOk)
    IN  /\ polOk => m \in duplicated
        /\ duplicated' = IF IsLast(refCnt[m]) /\ polOk THEN duplicated \ {m} ELSE duplicated
        /\ refCnt' = IF ok THEN [refCnt EXCEPT ![m] = @ - 1] ELSE refCnt
        /\ granted' = IF ok THEN [granted EXCEPT ![p] = @ \ {<<m, v>>}] ELSE granted
        /\ Note(ok /\ polOk /\ aleOk /\ <<m, v>> \in granted[p])

(* EthFwMcast_filterDelMac: the VEPA entry goes first.                     *)
FilterDelMac(p, m, v) ==
  /\ InVlan(p, v)
  /\ DelAddr(p, <<m, v>>)
  /\ IF Known(<<m, v>>)
     THEN DelMacShared(p, m, v)
     ELSE Note(FALSE) /\ UNCHANGED <<duplicated, refCnt, granted>>
  /\ UNCHANGED <<dupFlow, private, macSet, vlanRefCnt, route, active, registered>>

(* EthFwVlan_join and leave, of VLANs every port may join.  When the ALE   *)
(* refuses the last leave, the port is out of the VLAN but not of the VEPA *)
(* table.                                                                  *)
Join(p, v) ==
  /\ \E ok \in BOOLEAN :
       /\ IF ok THEN /\ active' = [active EXCEPT ![v] = @ \cup {p}]
                     /\ AddAddr(p, <<Bcast, v>>)
                ELSE UNCHANGED <<active, vepa>>
       /\ Note(ok /\ ~Full(<<Bcast, v>>))
  /\ UNCHANGED <<dupFlow, refCnt, duplicated, private, macSet, vlanRefCnt, route, registered, granted>>

Leave(p, v) ==
  /\ p \in active[v]
  /\ active' = [active EXCEPT ![v] = @ \ {p}]
  /\ \E ok \in BOOLEAN :
       /\ ok \/ active[v] = {p}
       /\ IF ok THEN DelAddr(p, <<Bcast, v>>) ELSE UNCHANGED vepa
       /\ Note(ok /\ \A m \in Shared : <<m, v>> \notin granted[p])
  /\ UNCHANGED <<dupFlow, refCnt, duplicated, private, macSet, vlanRefCnt, route, registered, granted>>

(* The server's own interface opens and closes the duplication flow.       *)
OpenFlow == ~dupFlow /\ dupFlow' = TRUE
CloseFlow == dupFlow /\ dupFlow' = FALSE

Flow ==
  /\ OpenFlow \/ CloseFlow
  /\ UNCHANGED <<vepa, refCnt, duplicated, private, macSet, vlanRefCnt, route, active,
                 registered, granted, trouble>>

Client(p) ==
  \/ RegisterMac(p) \/ UnregisterMac(p)
  \/ \E m \in Shared, v \in Vlan \cup {NoVlan} : FilterAddMac(p, m, v) \/ FilterDelMac(p, m, v)
  \/ \E v \in Vlan : Join(p, v) \/ Leave(p, v)

Next == Flow \/ \E p \in Port : Client(p)

Spec == Init /\ [][Next]_vars
-----------------------------------------------------------------------------
TypeOK ==
  /\ vepa \in [Slots -> Entry \cup {Free}]
  /\ refCnt \in [Shared -> 0..MaxRef]
  /\ duplicated \subseteq Addr
  /\ private \subseteq Port /\ macSet \subseteq Port /\ route \subseteq Port
  /\ registered \subseteq Port
  /\ vlanRefCnt \in [Port -> 0..(2^Width - 1)]
  /\ active \in [Vlan -> SUBSET Port]
  /\ granted \in [Port -> SUBSET (Shared \X (Vlan \cup {NoVlan}))]
  /\ dupFlow \in BOOLEAN /\ trouble \in 0..MaxTrouble

(* Whatever fails, an address has one entry in the table and an entry has  *)
(* a port: the monitor waits for the entries to go, and a packet finds the *)
(* first entry only.                                                       *)
OneEntryEach ==
  /\ \A i, j \in Slots, k \in Key : Holds(i, k) /\ Holds(j, k) => i = j
  /\ \A i \in Slots : vepa[i] # Free => vepa[i].mask # {}

(* Whatever fails, packets of a shared address are brought to the          *)
(* duplication flow only while the address is in use.                      *)
DuplicatedInUse == \A m \in Shared : m \in duplicated => refCnt[m] > 0

(* The invariants of the table and of the switch, whatever fails.          *)
VepaInv == TypeOK /\ OneEntryEach /\ DuplicatedInUse

(* While all went well, a multicast packet is copied to exactly the ports  *)
(* that were told they subscribe to it, and it gets to the duplication     *)
(* flow; a broadcast of a VLAN is copied to the ports in the VLAN.         *)
CopiesReachSubscribers ==
  calm => /\ \A m \in Shared, v \in Vlan \cup {NoVlan} :
               MaskOf(<<m, v>>) = {p \in Port : <<m, v>> \in granted[p]}
          /\ \A p \in Port : \A k \in granted[p] : k[1] \in duplicated
          /\ \A v \in Vlan : MaskOf(<<Bcast, v>>) = active[v]

(* While all went well, an untagged broadcast of a registered client is    *)
(* copied to the other registered clients and not back to it.              *)
BroadcastReachesOthers ==
  calm => \A p \in registered :
            /\ Copies(p, <<Bcast, NoVlan>>) = registered \ {p}
            /\ Bcast \in duplicated /\ registered \subseteq private

(* While all went well, the copies go to those who are to receive them.    *)
CopiesReachReceivers == CopiesReachSubscribers /\ BroadcastReachesOthers

(* While all went well, once every client gave back what it had, nothing   *)
(* is left in the table: the monitor's wait during a recovery ends.        *)
NothingLeft ==
  calm /\ registered = {} /\ (\A p \in Port : granted[p] = {}) /\ (\A v \in Vlan : active[v] = {})
    => (\A i \in Slots : vepa[i] = Free) /\ duplicated = {} /\ private = {} /\ route = {}
=============================================================================
