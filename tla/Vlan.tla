-------------------------------- MODULE Vlan ---------------------------------
(***************************************************************************)
(* The VLAN table of the Ethernet firmware, ethfw_vlan.c, in the build     *)
(* without VEPA: which virtual ports joined which VLAN, and the VLAN       *)
(* entries of the ALE (the switch's address table) that follow from it.    *)
(*                                                                         *)
(* Static VLANs are configured at start-up with their members.  A join of  *)
(* any other VLAN id makes a dynamic VLAN of it.  The host port, behind    *)
(* which the virtual ports are, is a member of a VLAN's ALE entry while    *)
(* some virtual port has joined.  One action is one call; a mutex makes    *)
(* the calls of different tasks atomic.                                    *)
(*                                                                         *)
(* A virtual port is its number in EthRemoteCfg_VirtPort, a mask is the    *)
(* set of its bits.                                                        *)
(***************************************************************************)
EXTENDS Naturals, FiniteSets

CONSTANTS MacPort,         \* virtual MAC ports
          SwitchPort,      \* virtual switch ports
          SwitchMac,       \* MAC ports in switch mode
          VlanId,          \* VLAN ids the clients ask for
          StaticVlan,      \* ids of the configured VLANs
          StaticMember,    \* virtMemberMask of each configured VLAN
          StaticAle,       \* memberMask of each configured VLAN
          DefaultVirt,     \* defaultVirtPortMask
          DefaultAle,      \* defaultPortMask
          SwtFwd,          \* dVlanSwtFwdEn
          MaxVlans,        \* ETHFWVLAN_VLANS_MAX
          Host,            \* the host port in an ALE mask
          Free,            \* no entry in the VLAN table
          NoEntry          \* no entry in the ALE

VirtPort == MacPort \cup SwitchPort

(* The MAC port of a virtual MAC port is named like the virtual port.      *)
AleMask == SUBSET (MacPort \cup SwitchMac \cup {Host})

AleEntry == [member : AleMask]

Entry == [isStatic : BOOLEAN, member : AleMask, virtMember : SUBSET VirtPort,
          active : SUBSET VirtPort]

ASSUME VlanAssumption ==
  /\ VirtPort \subseteq Nat
  /\ StaticVlan \subseteq VlanId
  /\ StaticMember \in [StaticVlan -> SUBSET VirtPort]
  /\ StaticAle \in [StaticVlan -> AleMask]
  /\ DefaultVirt \in SUBSET VirtPort
  /\ DefaultAle \in AleMask
  /\ SwtFwd \in BOOLEAN
  /\ MaxVlans \in Nat
  /\ Free \notin Entry
  /\ NoEntry \notin AleEntry

VARIABLES vlan,            \* the VLAN table by VLAN id
          ale,             \* the ALE's entry of each VLAN id: its members
          joined,          \* what the clients were told: VLANs of each port
          aleWorks         \* no ALE command has failed so far

vars == <<vlan, ale, joined, aleWorks>>

WithHost(m) == [member |-> m]
WithoutHost(m) == [member |-> m \ {Host}]

Init ==
  /\ vlan = [v \in VlanId |->
               IF v \in StaticVlan
               THEN [isStatic |-> TRUE, member |-> StaticAle[v],
                     virtMember |-> StaticMember[v], active |-> {}]
               ELSE Free]
  /\ ale = [v \in VlanId |->
              IF v \in StaticVlan THEN WithoutHost(StaticAle[v]) ELSE NoEntry]
  /\ joined = [p \in VirtPort |-> {}]
  /\ aleWorks = TRUE

-----------------------------------------------------------------------------
(* An ALE command returns ok.                                              *)
AleReturns(ok) == aleWorks' = (aleWorks /\ ok)

(* A number read as a mask of virtual ports.                               *)
AsMask(n) == {p \in VirtPort : (n \div 2^p) % 2 = 1}

InVlan(p, v) == vlan[v] # Free /\ p \in vlan[v].active

TableFull == Cardinality({v \in VlanId : vlan[v] # Free}) >= MaxVlans

(* The entry EthFwVlan_join fills in for a dynamic VLAN.  For a MAC port   *)
(* the member mask of virtual ports is the port's number, not its bit.     *)
NewEntry(p) ==
  [isStatic |-> FALSE,
   member |-> IF p \in MacPort THEN {Host, p}
              ELSE IF SwtFwd THEN DefaultAle ELSE {Host},
   virtMember |-> IF p \in MacPort THEN AsMask(p)
                  ELSE IF SwtFwd THEN DefaultVirt ELSE {},
   active |-> {}]

MutActivate(v, p, e) == vlan' = [vlan EXCEPT ![v] = e]
(* Once the ALE has the VLAN the port is marked active in it.              *)
Activate(v, p, e) == vlan' = [vlan EXCEPT ![v] = [e EXCEPT !.active = @ \cup {p}]]

MutLastActive(v, p) == TRUE
MutNeverLast(v, p) == vlan[v].active = {}
LastActive(v, p) == vlan[v].active = {p}

(* EthFwVlan_join of a VLAN in the table.                                  *)
JoinKnown(p, v, ok) ==
  /\ vlan[v] # Free
  /\ p \in vlan[v].virtMember
  /\ AleReturns(ok)
  /\ IF ok
     THEN /\ ale' = [ale EXCEPT ![v] = WithHost(vlan[v].member)]
          /\ Activate(v, p, vlan[v])
          /\ joined' = [joined EXCEPT ![p] = @ \cup {v}]
     ELSE UNCHANGED <<vlan, ale, joined>>

(* ... and of a new one.  When the ALE refuses it the entry stays.         *)
JoinNew(p, v, ok) ==
  /\ vlan[v] = Free
  /\ ~TableFull
  /\ AleReturns(ok)
  /\ IF ok
     THEN /\ ale' = [ale EXCEPT ![v] = WithHost(NewEntry(p).member)]
          /\ Activate(v, p, NewEntry(p))
          /\ joined' = [joined EXCEPT ![p] = @ \cup {v}]
     ELSE /\ vlan' = [vlan EXCEPT ![v] = NewEntry(p)]
          /\ UNCHANGED <<ale, joined>>

(* EPERM: the port may not be in the VLAN; EALLOC: the table is full.      *)
JoinRefused(p, v) ==
  /\ IF vlan[v] = Free THEN TableFull ELSE p \notin vlan[v].virtMember
  /\ UNCHANGED vars

Join(p, v) ==
  \/ \E ok \in BOOLEAN : JoinKnown(p, v, ok) \/ JoinNew(p, v, ok)
  \/ JoinRefused(p, v)

(* The ALE after the last active port of a VLAN left: without the host     *)
(* port, or with no entry when the VLAN is dynamic.  Both commands may     *)
(* fail; only the first one's failure is reported to the client.           *)
AleAfterLast(v, excluded, deleted) ==
  IF ~vlan[v].isStatic /\ deleted THEN NoEntry
  ELSE IF excluded THEN WithoutHost(vlan[v].member) ELSE ale[v]

(* EthFwVlan_leave.  The entry of a dynamic VLAN stays in the table.       *)
Leave(p, v) ==
  /\ InVlan(p, v)
  /\ p \in vlan[v].virtMember
  /\ vlan' = [vlan EXCEPT ![v] = [vlan[v] EXCEPT !.active = @ \ {p}]]
  /\ \E excluded, deleted \in BOOLEAN :
       /\ IF LastActive(v, p)
          THEN /\ AleReturns(excluded /\ deleted)
               /\ ale' = [ale EXCEPT ![v] = AleAfterLast(v, excluded, deleted)]
               /\ joined' = IF excluded
                            THEN [joined EXCEPT ![p] = @ \ {v}] ELSE joined
          ELSE /\ joined' = [joined EXCEPT ![p] = @ \ {v}]
               /\ UNCHANGED <<ale, aleWorks>>

LeaveRefused(p, v) ==
  /\ InVlan(p, v) => p \notin vlan[v].virtMember
  /\ UNCHANGED vars

Next == \E p \in VirtPort, v \in VlanId :
          Join(p, v) \/ Leave(p, v) \/ LeaveRefused(p, v)

Spec == Init /\ [][Next]_vars
-----------------------------------------------------------------------------
TypeOK ==
  /\ vlan \in [VlanId -> Entry \cup {Free}]
  /\ ale \in [VlanId -> AleEntry \cup {NoEntry}]
  /\ joined \in [VirtPort -> SUBSET VlanId]
  /\ aleWorks \in BOOLEAN

(* As long as one virtual port is active in a VLAN the ALE has the VLAN's  *)
(* full member list, host port included, whichever ALE commands failed and *)
(* whoever left before.                                                    *)
ActiveServed ==
  \A v \in VlanId :
    (vlan[v] # Free /\ vlan[v].active # {}) => ale[v] = WithHost(vlan[v].member)

(* A port the server has active in a VLAN was told so, and has not been    *)
(* told that it left.                                                      *)
ActiveWasTold == \A v \in VlanId, p \in VirtPort : InVlan(p, v) => v \in joined[p]

VlanInv == TypeOK /\ ActiveServed /\ ActiveWasTold

(* Nothing is left behind in the ALE while no command fails: a static VLAN *)
(* nobody joined excludes the host port "until virtual port(s) join        *)
(* again", a dynamic one nobody is in has no entry.                        *)
QuietVlans ==
  aleWorks => \A v \in VlanId :
    (vlan[v] = Free \/ vlan[v].active = {}) =>
      ale[v] = IF v \in StaticVlan THEN WithoutHost(StaticAle[v]) ELSE NoEntry

(* While no command fails a client that was told it joined is in the VLAN  *)
(* the filter commands will look it up in.  (A leave that fails at the ALE *)
(* has already cleared the port's active bit.)                             *)
ToldIsActive == aleWorks => \A p \in VirtPort : \A v \in joined[p] : InVlan(p, v)

(* A VLAN is not shared by a MAC-only port and any other port: "Cannot     *)
(* have more than one MAC-only port in the same VLAN, else leaks", nor     *)
(* MAC-only and switch ports.                                              *)
MacPortAlone ==
  \A v \in VlanId, p \in MacPort : InVlan(p, v) => vlan[v].active = {p}

(* A port that joined may leave: it is a member of the VLAN it is in.      *)
JoinedMayLeave ==
  \A p \in VirtPort, v \in VlanId : InVlan(p, v) => p \in vlan[v].virtMember

(* A VLAN table that is full is full of VLANs somebody is in, or of the    *)
(* configured ones.                                                        *)
FullIsInUse ==
  TableFull => \A v \in VlanId :
                 vlan[v] # Free => vlan[v].isStatic \/ vlan[v].active # {}
=============================================================================
