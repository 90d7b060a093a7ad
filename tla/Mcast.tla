-------------------------------- MODULE Mcast --------------------------------
(***************************************************************************)
(* The multicast filter of the Ethernet firmware, ethfw_mcast.c, in the    *)
(* build with the lwIP bridge (ETHAPP_ENABLE_INTERCORE_ETH).               *)
(*                                                                         *)
(* A remote client asks for a multicast address on behalf of its virtual   *)
(* port.  A reserved address is refused.  A shared address is counted: the *)
(* first request puts it in the ALE (the switch's address table), the last *)
(* delete takes it out, and a callback keeps the set of cores the bridge   *)
(* copies its packets to.  Any other address is exclusive: it takes a slot *)
(* of a small table, an ALE entry and a classifier that steers its packets *)
(* to the owner's DMA flow.                                                *)
(*                                                                         *)
(* One action is one call of EthFwMcast_filterAddMac/filterDelMac: all the *)
(* calls come from the one task that serves the RPMsg clients.  An ALE     *)
(* command of the set MayFail may be refused by the driver at any time     *)
(* (its tables are full, or the hardware does not answer).                 *)
(***************************************************************************)
EXTENDS Naturals, FiniteSets

CONSTANTS VirtPort,        \* virtual ports
          Core,            \* remote cores
          HostOf,          \* core that owns a virtual port
          SharedMcast,     \* shared multicast list
          ExclMcast,       \* all other multicast addresses
          Vlan,            \* VLAN ids a request may carry (0: default VLAN)
          RsvdMcast,       \* reserved list, a set of <<address, VLAN id>>
          ExclLen,         \* ETHFW_EXCLUSIVE_MCAST_LIST_LEN
          MayFail,         \* ALE commands that may fail
          StrayDelete,     \* whether clients delete what they do not hold
          MaxGrant,        \* bound: adds a port holds of one address
          Free             \* content of a free slot

AleCmd == {"ADD_SHARED", "REMOVE_ADDR", "LOOKUP_MCAST", "ADD_EXCL",
           "SET_POLICER", "DEL_POLICER"}

ASSUME McastAssumption ==
  /\ HostOf \in [VirtPort -> Core]
  /\ SharedMcast \cap ExclMcast = {}
  /\ RsvdMcast \subseteq (SharedMcast \cup ExclMcast) \X Vlan
  /\ ExclLen \in Nat
  /\ MaxGrant \in Nat
  /\ MayFail \subseteq AleCmd
  /\ StrayDelete \in BOOLEAN

Mcast == SharedMcast \cup ExclMcast
Slots == 1..ExclLen
Entry == [macAddr : ExclMcast, virtPort : VirtPort, refCnt : Nat \ {0}]

ASSUME FreeAssumption == Free \notin Entry

VARIABLES sharedRef,       \* refCnt of each entry of the shared table
          excl,            \* exclusive table, a slot holds Free or an Entry
          ale,             \* multicast addresses in the ALE
          policer,         \* classifiers: <<address, port it steers to>>
          bridgeMask,      \* gEthApp_bridgePortMask: cores fed by the bridge
          granted          \* what the clients were told: adds acknowledged to
                           \* a port and not yet given back

vars == <<sharedRef, excl, ale, policer, bridgeMask, granted>>

Init ==
  /\ sharedRef = [m \in SharedMcast |-> 0]
  /\ excl = [i \in Slots |-> Free]
  /\ ale = {}
  /\ policer = {}
  /\ bridgeMask = [m \in SharedMcast |-> {}]
  /\ granted = [p \in VirtPort |-> [m \in Mcast |-> 0]]

-----------------------------------------------------------------------------
(* Whether an ALE command succeeds: it may fail only if it is in MayFail.  *)
AleOk(cmd, ok) == ok \in BOOLEAN /\ (cmd \notin MayFail => ok)

Acknowledge(p, m) == granted' = [granted EXCEPT ![p][m] = @ + 1]

(* A delete that was not matched by an add leaves the client at zero.      *)
GiveBack(p, m) ==
  granted' = IF granted[p][m] > 0 THEN [granted EXCEPT ![p][m] = @ - 1]
                                  ELSE granted

(* EthFwMcast_getExclusiveMcastInfo: the first slot taken by the address.  *)
Taken(i, m) == excl[i] # Free /\ excl[i].macAddr = m
FirstTaken(i, m) == Taken(i, m) /\ \A j \in 1..(i - 1) : ~Taken(j, m)
NotInTable(m) == \A i \in Slots : ~Taken(i, m)

MutFirstFree(i) == \A j \in 1..(i - 1) : excl[j] # Free
FirstFree(i) == excl[i] = Free /\ \A j \in 1..(i - 1) : excl[j] # Free
TableFull == \A i \in Slots : excl[i] # Free

MutOwns(p, i) == TRUE
Owns(p, i) == excl[i].virtPort = p

MutCountShared(m) == sharedRef' = [sharedRef EXCEPT ![m] = 1]
CountShared(m) == sharedRef' = [sharedRef EXCEPT ![m] = @ + 1]

MutLastShared(m) == sharedRef[m] > 0
LastShared(m) == sharedRef[m] = 1

(* EthApp_filterDelMacSharedCb: the core leaves the bridge's set.          *)
MutUnfeed(p, m) == bridgeMask' = IF LastShared(m) THEN [bridgeMask EXCEPT ![m] = {}]
                                                  ELSE bridgeMask
Unfeed(p, m) == bridgeMask' = [bridgeMask EXCEPT ![m] = @ \ {HostOf[p]}]
-----------------------------------------------------------------------------
(* EthFwMcast_filterAddMacShared: only the first add touches the ALE.      *)
AddShared(p, m) ==
  /\ m \in SharedMcast
  /\ \E ok \in BOOLEAN :
       /\ AleOk("ADD_SHARED", ok)
       /\ IF sharedRef[m] > 0 \/ ok
          THEN /\ CountShared(m)
               /\ ale' = ale \cup {m}
               /\ bridgeMask' = [bridgeMask EXCEPT ![m] = @ \cup {HostOf[p]}]
               /\ Acknowledge(p, m)
          ELSE UNCHANGED <<sharedRef, ale, bridgeMask, granted>>
  /\ UNCHANGED <<excl, policer>>

(* EthFwMcast_filterDelMacShared: the reference count is the address's,    *)
(* whoever deletes; at zero the delete is refused.                         *)
DelShared(p, m) ==
  /\ m \in SharedMcast
  /\ \E ok \in BOOLEAN :
       /\ AleOk("REMOVE_ADDR", ok)
       /\ IF sharedRef[m] > 1 \/ (sharedRef[m] = 1 /\ ok)
          THEN /\ sharedRef' = [sharedRef EXCEPT ![m] = @ - 1]
               /\ ale' = IF LastShared(m) THEN ale \ {m} ELSE ale
               /\ Unfeed(p, m)
               /\ GiveBack(p, m)
          ELSE UNCHANGED <<sharedRef, ale, bridgeMask, granted>>
  /\ UNCHANGED <<excl, policer>>

(* A second add of an exclusive address: its owner's count goes up, any    *)
(* other port is refused.                                                  *)
AddExclAgain(p, m) ==
  /\ m \in ExclMcast
  /\ \E i \in Slots :
       /\ FirstTaken(i, m)
       /\ IF Owns(p, i)
          THEN /\ excl' = [excl EXCEPT ![i].refCnt = @ + 1]
               /\ Acknowledge(p, m)
          ELSE UNCHANGED <<excl, granted>>
  /\ UNCHANGED <<sharedRef, ale, policer, bridgeMask>>

(* EthFwMcast_filterAddMacExcl refuses before it changes anything: the ALE *)
(* has the address, the lookup failed, or the table is full.               *)
RefuseExcl(p, m) ==
  /\ m \in ExclMcast
  /\ NotInTable(m)
  /\ m \in ale \/ "LOOKUP_MCAST" \in MayFail \/ TableFull
  /\ UNCHANGED vars

(* EthFwMcast_filterAddMacExcl: the slot is taken first, then come the ALE *)
(* entry and the classifier; a failure of either leaves what was done.     *)
AddExclFirst(p, m) ==
  /\ m \in ExclMcast
  /\ NotInTable(m)
  /\ m \notin ale
  /\ \E i \in Slots :
       /\ FirstFree(i)
       /\ excl' = [excl EXCEPT ![i] = [macAddr |-> m, virtPort |-> p,
                                       refCnt |-> 1]]
  /\ \E added, steered \in BOOLEAN :
       /\ AleOk("ADD_EXCL", added)
       /\ AleOk("SET_POLICER", steered)
       /\ ale' = IF added THEN ale \cup {m} ELSE ale
       /\ policer' = IF added /\ steered THEN policer \cup {<<m, p>>}
                                         ELSE policer
       /\ IF added /\ steered THEN Acknowledge(p, m)
                              ELSE UNCHANGED granted
  /\ UNCHANGED <<sharedRef, bridgeMask>>

(* The exclusive branch of EthFwMcast_filterDelMac, with                   *)
(* EthFwMcast_filterDelMacExcl: the last delete removes the classifier and *)
(* the ALE entry with it, and frees the slot only if that worked.          *)
DelExcl(p, m) ==
  /\ m \in ExclMcast
  /\ \/ /\ \A i \in Slots : FirstTaken(i, m) => ~Owns(p, i)
        /\ UNCHANGED <<excl, ale, policer, granted>>
     \/ \E i \in Slots :
          /\ FirstTaken(i, m)
          /\ Owns(p, i)
          /\ IF excl[i].refCnt > 1
             THEN /\ excl' = [excl EXCEPT ![i].refCnt = @ - 1]
                  /\ GiveBack(p, m)
                  /\ UNCHANGED <<ale, policer>>
             ELSE \E ok \in BOOLEAN :
                    /\ AleOk("DEL_POLICER", ok)
                    /\ IF ok
                       THEN /\ excl' = [excl EXCEPT ![i] = Free]
                            /\ ale' = ale \ {m}
                            /\ policer' = policer \ {<<m, p>>}
                            /\ GiveBack(p, m)
                       ELSE UNCHANGED <<excl, ale, policer, granted>>
  /\ UNCHANGED <<sharedRef, bridgeMask>>
-----------------------------------------------------------------------------
(* EthFwMcast_filterAddMac: a reserved <<address, VLAN>> is refused, then  *)
(* the shared list is looked up, then the exclusive table.                 *)
FilterAddMac(p, m, v) ==
  /\ granted[p][m] < MaxGrant
  /\ \/ <<m, v>> \in RsvdMcast /\ UNCHANGED vars
     \/ /\ <<m, v>> \notin RsvdMcast
        /\ \/ AddShared(p, m)
           \/ AddExclAgain(p, m)
           \/ RefuseExcl(p, m)
           \/ AddExclFirst(p, m)

(* EthFwMcast_filterDelMac.                                                *)
FilterDelMac(p, m, v) ==
  /\ StrayDelete \/ granted[p][m] > 0
  /\ \/ <<m, v>> \in RsvdMcast /\ UNCHANGED vars
     \/ /\ <<m, v>> \notin RsvdMcast
        /\ DelShared(p, m) \/ DelExcl(p, m)

Next == \E p \in VirtPort, m \in Mcast, v \in Vlan :
          FilterAddMac(p, m, v) \/ FilterDelMac(p, m, v)

Spec == Init /\ [][Next]_vars
-----------------------------------------------------------------------------
TypeOK ==
  /\ sharedRef \in [SharedMcast -> Nat]
  /\ excl \in [Slots -> Entry \cup {Free}]
  /\ ale \subseteq Mcast
  /\ policer \subseteq ExclMcast \X VirtPort
  /\ bridgeMask \in [SharedMcast -> SUBSET Core]
  /\ granted \in [VirtPort -> [Mcast -> Nat]]

(* An exclusive address is granted to at most one port at a time           *)
(* (EthFwMcast_filterAddMac refuses a second owner), whatever ALE command  *)
(* failed before and whoever sent stray deletes.                           *)
ExclusiveOwner ==
  \A m \in ExclMcast, p, q \in VirtPort :
    granted[p][m] > 0 /\ granted[q][m] > 0 => p = q

(* The classifiers never steer an exclusive address to a port that has no  *)
(* slot for it, nor keep steering it after its slot went to another port.  *)
SteeredToOwner ==
  \A c \in policer :
    \E i \in Slots : Taken(i, c[1]) /\ excl[i].virtPort = c[2]

(* What makes ExclusiveOwner inductive: no address has two slots, and a    *)
(* granted exclusive address has a slot of its port whose count is at      *)
(* least the number of grants (a failed add leaves it larger).             *)
SlotsDistinct ==
  \A i, j \in Slots, m \in ExclMcast : Taken(i, m) /\ Taken(j, m) => i = j

GrantedHasSlot ==
  \A p \in VirtPort, m \in ExclMcast :
    granted[p][m] > 0 =>
      \E i \in Slots : /\ Taken(i, m)
                       /\ excl[i].virtPort = p
                       /\ excl[i].refCnt >= granted[p][m]

McastInv == TypeOK /\ SlotsDistinct /\ GrantedHasSlot /\ SteeredToOwner

(* A port that was granted an exclusive address is served: the address is  *)
(* in the ALE and a classifier steers it to that port.                     *)
ExclusiveServed ==
  \A p \in VirtPort, m \in ExclMcast :
    granted[p][m] > 0 => m \in ale /\ <<m, p>> \in policer

(* As long as one port holds a shared address it stays in the ALE, through *)
(* all the deletes of the other ports.                                     *)
SharedServed ==
  \A p \in VirtPort, m \in SharedMcast : granted[p][m] > 0 => m \in ale

(* Clients that give back only what they hold keep what they were granted. *)
GrantsServed == ExclusiveServed /\ SharedServed

(* The ALE and the shared table agree: an address is in the ALE exactly    *)
(* while its count is not zero, even when ALE commands fail.               *)
SharedInSync == \A m \in SharedMcast : m \in ale <=> sharedRef[m] > 0

(* The adds of a shared address its holders were acknowledged, each with   *)
(* the port it was acknowledged to.                                        *)
Held(m) == UNION {{p} \X (1..granted[p][m]) : p \in VirtPort}

(* The count of a shared address is the number of adds its holders were    *)
(* acknowledged: the deletes of one port never eat another port's.         *)
SharedRefCounts == \A m \in SharedMcast : sharedRef[m] = Cardinality(Held(m))

(* The bridge copies a shared address only to cores that still hold it.    *)
FanoutSubscribed ==
  \A m \in SharedMcast : \A c \in bridgeMask[m] :
    \E p \in VirtPort : HostOf[p] = c /\ granted[p][m] > 0

(* The user guide's promise for shared multicast: its traffic is fanned    *)
(* out to all the cores that requested the address.                        *)
FanoutReachesSubscribers ==
  \A p \in VirtPort, m \in SharedMcast :
    granted[p][m] > 0 => HostOf[p] \in bridgeMask[m]

(* The user guide's promise for reserved multicast: a core that asks for a *)
(* reserved address gets a failure.                                        *)
ReservedRefused ==
  \A p \in VirtPort, m \in {r[1] : r \in RsvdMcast} : granted[p][m] = 0
-----------------------------------------------------------------------------
(* The abstract service the filter implements, with the clients' view of   *)
(* their subscriptions as its state.                                       *)
Service == INSTANCE MulticastService
             WITH VirtPort <- VirtPort, SharedMcast <- SharedMcast,
                  ExclMcast <- ExclMcast, granted <- granted

RefinesService == Service!Spec
=============================================================================
