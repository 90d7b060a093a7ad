----------------------- MODULE ClientResourcesProofs ------------------------
(***************************************************************************)
(* The resources of the clients and the proxy ARP table, for any ports,    *)
(* flows, channels, addresses and table size, and whichever requests,      *)
(* driver calls and answers fail.                                          *)
(***************************************************************************)
EXTENDS ClientResources, FiniteSetTheorems, TLAPS

(* ArpInv and Resolve for any table t, so that they can be used of the     *)
(* table before and after a step.                                          *)
HoldsIn(t, i, ip) == t[i] # NoEntry /\ t[i].ip = ip

Good(t) ==
  /\ t \in [ArpSlots -> ArpEntry \cup {NoEntry}]
  /\ \A i, j \in ArpSlots, ip \in Ip : HoldsIn(t, i, ip) /\ HoldsIn(t, j, ip) => i = j

AddressesIn(t) == {t[i].ip : i \in {j \in ArpSlots : t[j] # NoEntry}}

FirstIn(t, i, ip) == HoldsIn(t, i, ip) /\ \A j \in 1..(i - 1) : ~HoldsIn(t, j, ip)

Lookup(t) ==
  [ip \in AddressesIn(t) |-> t[CHOOSE i \in ArpSlots : FirstIn(t, i, ip)].hw]

(* The invariant and the answers of the table are those of its value.      *)
LEMMA Parts ==
  /\ ArpInv <=> Good(arp)
  /\ ArpInv' <=> Good(arp')
  /\ Resolve = Lookup(arp)
  /\ Resolve' = Lookup(arp')
BY DEF ArpInv, ArpTypeOK, OneEntryEach, Good, Holds, HoldsIn, Resolve, Lookup,
       AddressesIn, FirstHolding, FirstIn

(* A table answers for the addresses that have an entry, with the MAC      *)
(* address of that entry.                                                  *)
LEMMA LookupIs ==
  ASSUME NEW t, Good(t), NEW i \in ArpSlots, t[i] # NoEntry
  PROVE  /\ t[i].ip \in Ip /\ t[i].hw \in Hw
         /\ t[i].ip \in AddressesIn(t)
         /\ Lookup(t)[t[i].ip] = t[i].hw
<1> DEFINE ip == t[i].ip
<1>1. t[i] \in ArpEntry
  BY DEF Good
<1>2. ip \in Ip /\ t[i].hw \in Hw /\ ip \in AddressesIn(t)
  BY <1>1 DEF ArpEntry, AddressesIn
<1>3. HoldsIn(t, i, ip)
  BY DEF HoldsIn
<1>4. \A j \in ArpSlots : HoldsIn(t, j, ip) => j = i
  BY <1>2, <1>3 DEF Good
<1>5. FirstIn(t, i, ip)
  <2>1. \A j \in 1..(i - 1) : j \in ArpSlots /\ j # i
    BY ArpAssumption DEF ArpSlots
  <2> QED BY <2>1, <1>3, <1>4 DEF FirstIn
<1>6. (CHOOSE j \in ArpSlots : FirstIn(t, j, ip)) = i
  <2>1. \A j \in ArpSlots : FirstIn(t, j, ip) => j = i
    BY <1>4 DEF FirstIn
  <2> QED BY <1>5, <2>1
<1> QED BY <1>2, <1>6 DEF Lookup

(* With a free entry there is room for another address.                    *)
LEMMA Room ==
  ASSUME NEW t, Good(t), NEW k \in ArpSlots, t[k] = NoEntry
  PROVE  Cardinality(AddressesIn(t)) < ArpSize
<1> DEFINE A == AddressesIn(t)
           B == (1..ArpSize) \ {k}
           slot == [ip \in A |-> CHOOSE i \in ArpSlots : HoldsIn(t, i, ip)]
<1>1. ASSUME NEW ip \in A
      PROVE  slot[ip] \in B /\ HoldsIn(t, slot[ip], ip)
  <2>1. PICK i \in ArpSlots : HoldsIn(t, i, ip)
    BY DEF AddressesIn, HoldsIn
  <2>2. slot[ip] \in ArpSlots /\ HoldsIn(t, slot[ip], ip)
    BY <2>1
  <2> QED BY <2>2 DEF ArpSlots, HoldsIn
<1>2. slot \in Injection(A, B)
  <2>1. slot \in [A -> B]
    BY <1>1
  <2>2. ASSUME NEW a \in A, NEW b \in A, slot[a] = slot[b] PROVE a = b
    BY <1>1, <2>2 DEF HoldsIn
  <2> QED BY <2>1, <2>2 DEF Injection, IsInjective
<1>3. /\ IsFiniteSet(1..ArpSize)
      /\ Cardinality(1..ArpSize) = ArpSize
  BY FS_Interval, ArpAssumption
<1>4. IsFiniteSet(B) /\ Cardinality(B) = ArpSize - 1
  <2>1. k \in 1..ArpSize
    BY DEF ArpSlots
  <2> QED BY <1>3, <2>1, FS_RemoveElement
<1>5. IsFiniteSet(A) /\ Cardinality(A) <= Cardinality(B)
  BY <1>2, <1>4, FS_Injection
<1>6. Cardinality(A) \in Nat
  BY <1>5, FS_CardinalityType
<1> QED BY <1>4, <1>5, <1>6, ArpAssumption

(* An add keeps a table good and binds the address, or finds it full.      *)
LEMMA AddAddrBinds ==
  ASSUME NEW ip \in Ip, NEW hw \in Hw, Good(arp), AddAddr(ip, hw)
  PROVE  /\ Good(arp')
         /\ \/ arp' = arp
            \/ /\ ip \in AddressesIn(arp) \/ Cardinality(AddressesIn(arp)) < ArpSize
               /\ Lookup(arp') = [a \in AddressesIn(arp) \cup {ip} |->
                                    IF a = ip THEN hw ELSE Lookup(arp)[a]]
<1>1. CASE UNCHANGED arp
  BY <1>1
<1>2. CASE \E i \in ArpSlots :
             \/ FirstHolding(i, ip) /\ arp' = [arp EXCEPT ![i].hw = hw]
             \/ /\ ~Known(ip) /\ FirstFreeEntry(i)
                /\ arp' = [arp EXCEPT ![i] = [ip |-> ip, hw |-> hw]]
  <2> DEFINE e == [ip |-> ip, hw |-> hw]
  <2>1. PICK k \in ArpSlots :
          /\ arp' = [arp EXCEPT ![k] = e]
          /\ \A i \in ArpSlots : arp[i] # NoEntry /\ arp[i].ip = ip => i = k
          /\ arp[k] = NoEntry \/ (arp[k] # NoEntry /\ arp[k].ip = ip)
    <3>1. PICK k \in ArpSlots :
             \/ FirstHolding(k, ip) /\ arp' = [arp EXCEPT ![k].hw = hw]
             \/ /\ ~Known(ip) /\ FirstFreeEntry(k)
                /\ arp' = [arp EXCEPT ![k] = [ip |-> ip, hw |-> hw]]
      BY <1>2
    <3>2. CASE FirstHolding(k, ip) /\ arp' = [arp EXCEPT ![k].hw = hw]
      <4>1. arp[k] \in ArpEntry /\ arp[k].ip = ip /\ arp[k] # NoEntry
        BY <3>2 DEF FirstHolding, Holds, Good
      <4>2. [arp[k] EXCEPT !.hw = hw] = e
        BY <4>1 DEF ArpEntry
      <4>3. \A i \in ArpSlots : arp[i] # NoEntry /\ arp[i].ip = ip => i = k
        BY <4>1 DEF Good, HoldsIn
      <4>4. arp' = [arp EXCEPT ![k] = e]
        BY <3>2, <4>2
      <4> QED BY <4>1, <4>3, <4>4
    <3>3. CASE /\ ~Known(ip) /\ FirstFreeEntry(k)
               /\ arp' = [arp EXCEPT ![k] = [ip |-> ip, hw |-> hw]]
      BY <3>3 DEF Known, Holds, FirstFreeEntry
    <3> QED BY <3>1, <3>2, <3>3
  <2>2. e \in ArpEntry /\ e # NoEntry
    BY ArpAssumption DEF ArpEntry
  <2>3. Good(arp')
    BY <2>1, <2>2 DEF Good, HoldsIn
  <2>4. AddressesIn(arp') = AddressesIn(arp) \cup {ip}
    BY <2>1, <2>2 DEF AddressesIn, Good
  <2>5. ASSUME NEW a \in AddressesIn(arp')
        PROVE  Lookup(arp')[a] = IF a = ip THEN hw ELSE Lookup(arp)[a]
    <3>1. PICK i \in ArpSlots : arp'[i] # NoEntry /\ arp'[i].ip = a
      BY DEF AddressesIn
    <3>2. Lookup(arp')[a] = arp'[i].hw
      BY <2>3, <3>1, LookupIs
    <3>3. CASE i = k
      BY <2>1, <3>1, <3>2, <3>3 DEF Good
    <3>4. CASE i # k
      <4>1. arp'[i] = arp[i]
        BY <2>1, <3>4 DEF Good
      <4>2. a # ip
        BY <2>1, <3>1, <3>4, <4>1
      <4>3. Lookup(arp)[a] = arp[i].hw
        BY <3>1, <4>1, LookupIs
      <4> QED BY <3>2, <4>1, <4>2, <4>3
    <3> QED BY <3>3, <3>4
  <2>6. Lookup(arp') = [a \in AddressesIn(arp) \cup {ip} |->
                          IF a = ip THEN hw ELSE Lookup(arp)[a]]
    <3> DEFINE L == [a \in AddressesIn(arp') |-> arp'[CHOOSE i \in ArpSlots : FirstIn(arp', i, a)].hw]
    <3>1. Lookup(arp') = L
      BY DEF Lookup
    <3>2. \A a \in AddressesIn(arp') : L[a] = IF a = ip THEN hw ELSE Lookup(arp)[a]
      BY <2>5, <3>1
    <3>3. L = [a \in AddressesIn(arp') |-> L[a]]
      OBVIOUS
    <3> HIDE DEF L
    <3> QED BY <2>4, <3>1, <3>2, <3>3
  <2>7. ip \in AddressesIn(arp) \/ Cardinality(AddressesIn(arp)) < ArpSize
    <3>1. CASE arp[k] = NoEntry
      BY <3>1, Room
    <3>2. CASE arp[k] # NoEntry /\ arp[k].ip = ip
      BY <3>2, LookupIs
    <3> QED BY <2>1, <3>1, <3>2
  <2> QED BY <2>3, <2>6, <2>7
<1> QED BY <1>1, <1>2 DEF AddAddr

(* A delete keeps a table good and unbinds the address, if it was bound.   *)
LEMMA DelAddrUnbinds ==
  ASSUME NEW ip \in Ip, Good(arp), DelAddr(ip)
  PROVE  /\ Good(arp')
         /\ \/ arp' = arp
            \/ /\ ip \in AddressesIn(arp)
               /\ Lookup(arp') = [a \in AddressesIn(arp) \ {ip} |-> Lookup(arp)[a]]
<1>1. CASE UNCHANGED arp
  BY <1>1
<1>2. CASE \E i \in ArpSlots : FirstHolding(i, ip) /\ arp' = [arp EXCEPT ![i] = NoEntry]
  <2>1. PICK k \in ArpSlots : FirstHolding(k, ip) /\ arp' = [arp EXCEPT ![k] = NoEntry]
    BY <1>2
  <2>2. HoldsIn(arp, k, ip) /\ \A i \in ArpSlots : HoldsIn(arp, i, ip) => i = k
    BY <2>1 DEF FirstHolding, Holds, HoldsIn, Good
  <2>3. Good(arp')
    BY <2>1 DEF Good, HoldsIn
  <2>4. AddressesIn(arp') = AddressesIn(arp) \ {ip}
    BY <2>1, <2>2 DEF AddressesIn, HoldsIn, Good
  <2>5. ASSUME NEW a \in AddressesIn(arp')
        PROVE  Lookup(arp')[a] = Lookup(arp)[a]
    <3>1. PICK i \in ArpSlots : arp'[i] # NoEntry /\ arp'[i].ip = a
      BY DEF AddressesIn
    <3>2. Lookup(arp')[a] = arp'[i].hw
      BY <2>3, <3>1, LookupIs
    <3>3. arp'[i] = arp[i]
      BY <2>1, <3>1 DEF Good
    <3> QED BY <3>1, <3>2, <3>3, LookupIs
  <2>6. Lookup(arp') = [a \in AddressesIn(arp) \ {ip} |-> Lookup(arp)[a]]
    <3> DEFINE L == [a \in AddressesIn(arp') |-> arp'[CHOOSE i \in ArpSlots : FirstIn(arp', i, a)].hw]
    <3>1. Lookup(arp') = L
      BY DEF Lookup
    <3>2. \A a \in AddressesIn(arp') : L[a] = Lookup(arp)[a]
      BY <2>5, <3>1
    <3>3. L = [a \in AddressesIn(arp') |-> L[a]]
      OBVIOUS
    <3> HIDE DEF L
    <3> QED BY <2>4, <3>1, <3>2, <3>3
  <2>7. ip \in AddressesIn(arp)
    BY <2>2 DEF HoldsIn, AddressesIn
  <2> QED BY <2>3, <2>6, <2>7
<1> QED BY <1>1, <1>2 DEF DelAddr

(* The empty table is good, and answers for no address.                    *)
LEMMA EmptyTable == ArpInit => Good(arp) /\ Lookup(arp) = [ip \in {} |-> ip]
<1> SUFFICES ASSUME ArpInit PROVE Good(arp) /\ Lookup(arp) = [ip \in {} |-> ip]
  OBVIOUS
<1>1. Good(arp)
  BY DEF ArpInit, Good, HoldsIn
<1>2. AddressesIn(arp) = {}
  BY DEF ArpInit, AddressesIn
<1> QED BY <1>1, <1>2 DEF Lookup

(* The cardinality of AddressMap is that of this module.                   *)
LEMMA SameCardinality == ASSUME NEW S PROVE Addresses!Cardinality(S) = Cardinality(S)
BY DEF Addresses!Cardinality, Cardinality, Addresses!IsFiniteSet, IsFiniteSet

(* Every step keeps the table good and is a step of the map or none.       *)
LEMMA StepOfMap ==
  ASSUME Good(arp), [ArpNext]_arp
  PROVE  Good(arp') /\ [Addresses!Next]_Resolve
<1>1. CASE UNCHANGED arp
  BY <1>1, Parts
<1>2. ASSUME NEW ip \in Ip, DelAddr(ip)
      PROVE  Good(arp') /\ [Addresses!Next]_Resolve
  <2>1. CASE arp' = arp
    BY <2>1, Parts
  <2>2. CASE /\ ip \in AddressesIn(arp)
             /\ Lookup(arp') = [a \in AddressesIn(arp) \ {ip} |-> Lookup(arp)[a]]
    <3>1. DOMAIN Resolve = AddressesIn(arp)
      BY Parts DEF Lookup
    <3>2. Addresses!Unbind(ip)
      BY <2>2, <3>1, Parts DEF Addresses!Unbind
    <3> QED BY <3>2, <1>2, DelAddrUnbinds DEF Addresses!Next
  <2> QED BY <2>1, <2>2, <1>2, DelAddrUnbinds
<1>3. ASSUME NEW ip \in Ip, NEW hw \in Hw, AddAddr(ip, hw)
      PROVE  Good(arp') /\ [Addresses!Next]_Resolve
  <2>1. CASE arp' = arp
    BY <2>1, Parts
  <2>2. CASE /\ ip \in AddressesIn(arp) \/ Cardinality(AddressesIn(arp)) < ArpSize
             /\ Lookup(arp') = [a \in AddressesIn(arp) \cup {ip} |->
                                  IF a = ip THEN hw ELSE Lookup(arp)[a]]
    <3>1. DOMAIN Resolve = AddressesIn(arp)
      BY Parts DEF Lookup
    <3>2. Addresses!Bind(ip, hw)
      BY <2>2, <3>1, Parts, SameCardinality DEF Addresses!Bind
    <3> QED BY <3>2, <1>3, AddAddrBinds DEF Addresses!Next
  <2> QED BY <2>1, <2>2, <1>3, AddAddrBinds
<1> QED BY <1>1, <1>2, <1>3 DEF ArpNext

(* The table never has two entries for one address, whatever the adds and  *)
(* deletes of EthFwArp_addAddr and EthFwArp_delAddr.                       *)
THEOREM OneEntryPerAddress == ArpSpec => []ArpInv
<1>1. ArpInit => ArpInv
  BY EmptyTable, Parts
<1>2. ArpInv /\ [ArpNext]_arp => ArpInv'
  BY StepOfMap, Parts
<1> QED BY <1>1, <1>2, PTL DEF ArpSpec

(* The table answers as the map does: an address added again gets its new  *)
(* MAC address, a new one is refused exactly when every entry is in use.   *)
THEOREM TableIsMap == ArpSpec => ImplementsAddressMap
<1>1. ArpInit => ArpInv /\ Addresses!Init
  BY EmptyTable, Parts DEF Addresses!Init
<1>2. ArpInv /\ [ArpNext]_arp => ArpInv' /\ [Addresses!Next]_Resolve
  BY StepOfMap, Parts
<1> QED BY <1>1, <1>2, PTL DEF ArpSpec, ImplementsAddressMap, Addresses!Spec

-----------------------------------------------------------------------------
(* The clients' requests change the table only by its own operations; an   *)
(* address of zero is in no entry.                                         *)
LEMMA RequestsOfTable ==
  ASSUME TypeOK, [Next]_vars
  PROVE  [ArpNext]_arp
<1>1. ASSUME NEW p \in VirtPort, RegisterIpv4(p) PROVE ArpNext
  <2>1. PICK ip \in IpOf[p] : AddAddr(ip, hold[p].mac)
    BY <1>1 DEF RegisterIpv4
  <2>2. p \in SwitchPort /\ hold[p] \in Kept
    BY <1>1 DEF RegisterIpv4, TypeOK
  <2>3. ip \in Ip /\ hold[p].mac \in Hw
    BY <2>2, ResourceAssumption DEF Kept
  <2> QED BY <2>1, <2>3 DEF ArpNext
<1>2. ASSUME NEW p \in VirtPort, DeregisterIpv4(p) PROVE [ArpNext]_arp
  <2>1. DelAddr(hold[p].ip) /\ hold[p].ip \in Ip \cup {None}
    BY <1>2 DEF DeregisterIpv4, TypeOK, Kept
  <2>2. CASE hold[p].ip \in Ip
    BY <2>1, <2>2 DEF ArpNext
  <2>3. CASE hold[p].ip = None
    <3>1. \A i \in ArpSlots : ~Holds(i, None)
      BY ResourceAssumption DEF TypeOK, ArpTypeOK, ArpEntry, Holds
    <3> QED BY <2>1, <2>3, <3>1 DEF DelAddr, FirstHolding
  <2> QED BY <2>1, <2>2, <2>3
<1>3. ASSUME NEW p \in VirtPort, Client(p), ~RegisterIpv4(p), ~DeregisterIpv4(p)
      PROVE  UNCHANGED arp
  BY <1>3 DEF Client, AllocTx, AllocRx, AllocMac, AttachExt, RegisterRxDefault,
              RegisterMac, RegMacPortFlow, Route, FreeTx, DeregisterRxDefault,
              UnregisterMac, UnregMacPortFlow, Unroute, FreeMac, FreeRx, Restart
<1> QED BY <1>1, <1>2, <1>3 DEF Next, vars

-----------------------------------------------------------------------------
(* One request moves its client's program and no other's.                  *)
LEMMA GoType ==
  ASSUME TypeOK, NEW p \in VirtPort, NEW from, NEW to \in Request, Go(p, from, to)
  PROVE  /\ step' \in [VirtPort -> Request]
         /\ step[p] = from /\ step'[p] = to
         /\ \A q \in VirtPort \ {p} : step'[q] = step[q]
         /\ visits' \in 0..MaxVisit /\ config' = config
BY ResourceAssumption DEF Go, TypeOK

(* The kinds of ids an answer may carry.                                   *)
KindOf(k) == CASE k = "flow" -> Flow \cup {None}
               [] k = "base" -> BOOLEAN
               [] k = "ch" -> Ch \cup {None}
               [] k = "mac" -> Mac \cup {None}
               [] k = "ip" -> Ip \cup {None}

Kind == {"flow", "base", "ch", "mac", "ip"}

(* What a client remembers is a value of each kind.                        *)
LEMMA KeptIs ==
  ASSUME NEW r
  PROVE  /\ r \in Kept => \A k \in Kind : r[k] \in KindOf(k)
         /\ (\E e : r = [k \in Kind |-> e[k]]) /\ (\A k \in Kind : r[k] \in KindOf(k))
              => r \in Kept
<1>1. ASSUME r \in Kept PROVE \A k \in Kind : r[k] \in KindOf(k)
  BY <1>1 DEF Kept, Kind, KindOf
<1>2. ASSUME NEW e, r = [k \in Kind |-> e[k]], \A k \in Kind : r[k] \in KindOf(k)
      PROVE  r \in Kept
  <2>1. r = [flow |-> r["flow"], base |-> r["base"], ch |-> r["ch"],
             mac |-> r["mac"], ip |-> r["ip"]]
    BY <1>2 DEF Kind
  <2>2. /\ r["flow"] \in Flow \cup {None} /\ r["base"] \in BOOLEAN
        /\ r["ch"] \in Ch \cup {None} /\ r["mac"] \in Mac \cup {None}
        /\ r["ip"] \in Ip \cup {None}
    BY <1>2 DEF Kind, KindOf
  <2> QED BY <2>1, <2>2 DEF Kept
<1> QED BY <1>1, <1>2

(* What an answer changes: what its client remembers of the kinds asked    *)
(* for; and the client is told that the ids are its own only if they are   *)
(* those granted.                                                          *)
Answered(p, kinds, g, ok, clean) ==
  /\ hold' \in [VirtPort -> Kept]
  /\ told' \in [VirtPort -> SUBSET Granted]
  /\ faults' \in 0..MaxFault
  /\ \A q \in VirtPort \ {p} : hold'[q] = hold[q] /\ told'[q] = told[q]
  /\ \A k \in Kind \ kinds : hold'[p][k] = hold[p][k]
  /\ told'[p] = told[p] \cup kinds \/ told'[p] = told[p] \ kinds
  /\ told'[p] \cap kinds # {} =>
       /\ ok
       /\ told'[p] = told[p] \cup kinds
       /\ \A k \in kinds : hold'[p][k] = g[k]
  /\ faults' = 0 =>
       /\ faults = 0 /\ clean
       /\ ok => told'[p] = told[p] \cup kinds
       /\ \A k \in kinds : hold'[p][k] = g[k]

(* An answer does that, whether it arrives in time or not.                 *)
LEMMA AnswerEffect ==
  ASSUME TypeOK, NEW p \in VirtPort, NEW kinds \in SUBSET Granted, NEW g,
         NEW ok \in BOOLEAN, NEW clean \in BOOLEAN,
         Answer(p, kinds, g, ok, clean),
         \A k \in kinds : g[k] \in KindOf(k)
  PROVE  Answered(p, kinds, g, ok, clean)
<1> DEFINE new(arrives) ==
             [k \in Kind |-> IF k \notin kinds THEN hold[p][k]
                             ELSE IF arrives THEN g[k] ELSE Nothing[k]]
<1>0. /\ hold[p] \in Kept /\ told[p] \subseteq Granted
      /\ DOMAIN Nothing = Kind /\ kinds \subseteq Kind
      /\ faults \in 0..MaxFault /\ MaxFault \in Nat \ {0}
  BY ResourceAssumption DEF TypeOK, Nothing, Kind, Granted
<1>1. PICK arrives \in BOOLEAN :
        /\ hold' = [hold EXCEPT ![p] = new(arrives)]
        /\ told' = [told EXCEPT ![p] = IF arrives /\ ok THEN @ \cup kinds ELSE @ \ kinds]
        /\ Quiet(arrives /\ clean)
  BY <1>0 DEF Answer
<1>2. \A k \in Kind : Nothing[k] \in KindOf(k)
  <2>1. Nothing \in Kept
    BY DEF Nothing, Kept
  <2> QED BY <2>1, KeptIs
<1>3. new(arrives) \in Kept
  <2>1. \A k \in Kind : new(arrives)[k] \in KindOf(k)
    BY <1>0, <1>2, KeptIs
  <2>2. new(arrives) = [k \in Kind |-> new(arrives)[k]]
    OBVIOUS
  <2> HIDE DEF new
  <2> QED BY <2>1, <2>2, KeptIs
<1>4. hold' \in [VirtPort -> Kept] /\ hold'[p] = new(arrives)
  <2> HIDE DEF new
  <2> QED BY <1>1, <1>3 DEF TypeOK
<1>5. \A q \in VirtPort \ {p} : hold'[q] = hold[q] /\ told'[q] = told[q]
  <2> HIDE DEF new
  <2> QED BY <1>1 DEF TypeOK
<1>6. /\ told' \in [VirtPort -> SUBSET Granted]
      /\ told'[p] = IF arrives /\ ok THEN told[p] \cup kinds ELSE told[p] \ kinds
  BY <1>0, <1>1 DEF TypeOK
<1>7. faults' \in 0..MaxFault /\ (faults' = 0 => faults = 0 /\ arrives /\ clean)
  BY <1>0, <1>1 DEF Quiet
<1>8. \A k \in Kind : new(arrives)[k] = IF k \notin kinds THEN hold[p][k]
                                        ELSE IF arrives THEN g[k] ELSE Nothing[k]
  OBVIOUS
<1> HIDE DEF new
<1>9. \A k \in Kind \ kinds : hold'[p][k] = hold[p][k]
  BY <1>4, <1>8
<1>10. arrives => \A k \in kinds : hold'[p][k] = g[k]
  BY <1>0, <1>4, <1>8
<1>11. told'[p] \cap kinds # {} => arrives /\ ok
  BY <1>6
<1>12. told'[p] \cap kinds # {} =>
         /\ ok
         /\ told'[p] = told[p] \cup kinds
         /\ \A k \in kinds : hold'[p][k] = g[k]
  <2> SUFFICES ASSUME told'[p] \cap kinds # {}
               PROVE  /\ ok
                      /\ told'[p] = told[p] \cup kinds
                      /\ \A k \in kinds : hold'[p][k] = g[k]
    OBVIOUS
  <2>1. arrives /\ ok
    BY <1>11
  <2> QED BY <1>6, <1>10, <2>1
<1>13. faults' = 0 =>
         /\ faults = 0 /\ clean
         /\ ok => told'[p] = told[p] \cup kinds
         /\ \A k \in kinds : hold'[p][k] = g[k]
  BY <1>6, <1>7, <1>10
<1>14. told'[p] = told[p] \cup kinds \/ told'[p] = told[p] \ kinds
  BY <1>6
<1> QED BY <1>4, <1>5, <1>6, <1>7, <1>9, <1>12, <1>13, <1>14 DEF Answered

-----------------------------------------------------------------------------
(* While its interface is up a client has its classifier in the switch.    *)
Routed == {"UP", "DEREGISTER_IPv4", "UNREGISTER"}

(* What the classifier of a client's registration matches.                 *)
RouteMatch(p) == IF p \in config.dflt THEN "DEFAULT"
                 ELSE IF p \in SwitchPort THEN hold[p].mac ELSE p

(* Only the place of the primary flow is ever taken.                       *)
OnlyPrimary == \A p \in VirtPort, j \in RelFlow \ {0} : offset[p][j] \notin Flow

(* A classifier steers to a flow of its port, and its client will remove   *)
(* it: with the flow's policers, or by the end of its registration.        *)
Right(c) ==
  /\ owner[c.flow] = c.port
  /\ \/ c.match \in CustomOf(c.port)
     \/ /\ step[c.port] \in Routed
        /\ c.flow = hold[c.port].flow /\ c.flow = offset[c.port][0]
        /\ hold[c.port].base = TRUE
        /\ c.match = RouteMatch(c.port)

(* What makes SteeredToHolder inductive.                                   *)
Removable == \A c \in steer \ left : c.flow \in Flow \ astray => Right(c)

FlowInv == TypeOK /\ OneEntryEach /\ OffsetsOwned /\ OnlyPrimary /\ FlowsKept
                  /\ Removable

(* Most requests take nothing from anybody.                                *)
OwnersKept == \A f \in Flow : owner[f] # None => owner'[f] = owner[f]

(* A flow is the primary one of a port exactly if the first place has it.  *)
LEMMA Primary ==
  ASSUME NEW p, NEW f
  PROVE  IsRel(p, 0, f) <=> offset[p][0] = f
BY DEF IsRel, RelFlow

(* What FlowsKept says after a step.                                       *)
LEMMA ToldPrimary ==
  FlowsKept' <=>
    \A q \in VirtPort : "flow" \in told'[q] =>
      /\ hold'[q].flow \in Flow /\ offset'[q][0] = hold'[q].flow
      /\ owner'[hold'[q].flow] = q \/ hold'[q].flow \in astray'
BY DEF FlowsKept, IsRel, RelFlow

(* The offsets stay right when the handler does not touch them.            *)
LEMMA OffsetsFrame ==
  ASSUME OffsetsOwned, OnlyPrimary, OwnersKept, astray \subseteq astray', offset' = offset
  PROVE  OffsetsOwned' /\ OnlyPrimary'
BY ResourceAssumption DEF OffsetsOwned, OnlyPrimary, OwnersKept, IsRel

(* ... and when it remembers a flow the driver just allocated.             *)
LEMMA OffsetsSaved ==
  ASSUME TypeOK, OffsetsOwned, OnlyPrimary, OwnersKept, astray \subseteq astray',
         NEW p \in VirtPort, NEW f \in Flow, owner[f] = None, owner'[f] = p,
         SaveOffset(p, f)
  PROVE  OffsetsOwned' /\ OnlyPrimary'
<1>0. 0 \in RelFlow /\ RelFlow \subseteq Nat
  BY ResourceAssumption DEF RelFlow
<1>1. /\ \A q \in VirtPort \ {p} : offset'[q] = offset[q]
      /\ \A j \in RelFlow \ {0} : offset'[p][j] = offset[p][j]
      /\ offset'[p][0] = f
  BY <1>0 DEF SaveOffset, TypeOK
<1>2. OnlyPrimary'
  BY <1>1 DEF OnlyPrimary
<1>3. ASSUME NEW q \in VirtPort, NEW j \in RelFlow, NEW g \in Flow, offset'[q][j] = g
      PROVE  /\ owner'[g] = q \/ g \in astray'
             /\ \A i \in RelFlow : i < j => offset'[q][i] # g
  <2>1. CASE q = p /\ j = 0
    BY <1>0, <1>1, <1>3, <2>1
  <2>2. CASE q = p /\ j # 0
    BY <1>2, <1>3, <2>2 DEF OnlyPrimary
  <2>3. CASE q # p
    <3>1. offset[q][j] = g /\ offset'[q] = offset[q]
      BY <1>1, <1>3, <2>3
    <3>2. /\ owner[g] = q \/ g \in astray
          /\ \A i \in RelFlow : i < j => offset[q][i] # g
      BY <3>1 DEF OffsetsOwned, IsRel
    <3>3. owner'[g] = q \/ g \in astray'
      BY <3>2, ResourceAssumption DEF OwnersKept
    <3> QED BY <3>1, <3>2, <3>3
  <2> QED BY <2>1, <2>2, <2>3
<1>4. OffsetsOwned'
  BY <1>3 DEF OffsetsOwned, IsRel
<1> QED BY <1>2, <1>4

(* A told flow stays its client's, or is one just granted.                 *)
LEMMA FlowsFrame ==
  ASSUME FlowsKept, OwnersKept, astray \subseteq astray',
         \A q \in VirtPort : "flow" \in told'[q] =>
           \/ /\ "flow" \in told[q] /\ hold'[q].flow = hold[q].flow
              /\ offset'[q] = offset[q]
           \/ /\ hold'[q].flow \in Flow /\ owner'[hold'[q].flow] = q
              /\ offset'[q][0] = hold'[q].flow
  PROVE  FlowsKept'
<1>1. ASSUME NEW q \in VirtPort, "flow" \in told'[q]
      PROVE  /\ hold'[q].flow \in Flow /\ offset'[q][0] = hold'[q].flow
             /\ owner'[hold'[q].flow] = q \/ hold'[q].flow \in astray'
  <2>1. CASE /\ "flow" \in told[q] /\ hold'[q].flow = hold[q].flow
             /\ offset'[q] = offset[q]
    <3>1. /\ hold[q].flow \in Flow /\ offset[q][0] = hold[q].flow
          /\ owner[hold[q].flow] = q \/ hold[q].flow \in astray
      BY <2>1, Primary DEF FlowsKept
    <3>2. owner'[hold[q].flow] = q \/ hold[q].flow \in astray'
      BY <3>1, ResourceAssumption DEF OwnersKept
    <3> QED BY <2>1, <3>1, <3>2
  <2> QED BY <1>1, <2>1
<1> QED BY <1>1, ToldPrimary

(* The classifiers stay right when a request takes no flow away and leaves *)
(* a registered client what its classifier was made from.                  *)
LEMMA RemovableFrame ==
  ASSUME TypeOK, Removable, OwnersKept, astray \subseteq astray',
         NEW p \in VirtPort, config' = config,
         \A q \in VirtPort \ {p} : /\ hold'[q] = hold[q] /\ step'[q] = step[q]
                                   /\ offset'[q] = offset[q],
         step[p] \in Routed =>
           /\ step'[p] \in Routed /\ offset'[p] = offset[p]
           /\ hold'[p].flow = hold[p].flow /\ hold'[p].base = hold[p].base
           /\ hold'[p].mac = hold[p].mac,
         \A c \in steer' \ left' :
           c.flow \in Flow \ astray' => c \in steer \ left \/ Right(c)'
  PROVE  Removable'
<1>1. ASSUME NEW c \in steer \ left, c.flow \in Flow \ astray' PROVE Right(c)'
  <2>1. c.port \in VirtPort
    BY DEF TypeOK, Classifier
  <2>2. Right(c)
    BY <1>1 DEF Removable
  <2>3. owner'[c.flow] = c.port
    BY <1>1, <2>1, <2>2, ResourceAssumption DEF Right, OwnersKept
  <2>4. CASE c.match \in CustomOf(c.port)
    BY <2>3, <2>4 DEF Right, CustomOf
  <2>5. CASE c.match \notin CustomOf(c.port)
    <3> DEFINE q == c.port
    <3>1. /\ step[q] \in Routed /\ c.flow = hold[q].flow /\ c.flow = offset[q][0]
          /\ hold[q].base = TRUE /\ c.match = RouteMatch(q)
      BY <2>2, <2>5 DEF Right
    <3>2. /\ step'[q] \in Routed /\ offset'[q] = offset[q]
          /\ hold'[q].flow = hold[q].flow
      BY <2>1, <3>1
    <3>3. hold'[q].base = hold[q].base
      BY <2>1, <3>1
    <3>4. hold'[q].mac = hold[q].mac
      BY <2>1, <3>1
    <3>5. RouteMatch(q)' = RouteMatch(q)
      BY <3>4 DEF RouteMatch
    <3> QED BY <2>3, <3>1, <3>2, <3>3, <3>5 DEF Right
  <2> QED BY <2>4, <2>5
<1> QED BY <1>1 DEF Removable

-----------------------------------------------------------------------------
(* The driver allocates what was free.                                     *)
LEMMA TakeOwner ==
  ASSUME TypeOK, NEW p \in VirtPort, NEW r \in Resource, Take(p, r)
  PROVE  /\ owner' \in [Resource -> VirtPort \cup {None}]
         /\ owner[r] = None /\ owner'[r] = p
         /\ \A s \in Resource \ {r} : owner'[s] = owner[s]
         /\ OwnersKept
BY DEF Take, TypeOK, OwnersKept, Resource

(* The driver frees what is not a flow.                                    *)
LEMMA GiveOwner ==
  ASSUME TypeOK, NEW r \in Ch \cup Mac \cup {None}, NEW ok \in BOOLEAN, Give(r, ok)
  PROVE  /\ owner' \in [Resource -> VirtPort \cup {None}]
         /\ OwnersKept
BY ResourceAssumption DEF Give, TypeOK, OwnersKept, Resource

(* A request for a channel or a MAC address touches no flow.               *)
LEMMA OneIdKeeps ==
  ASSUME FlowInv, ArpInv', NEW p \in VirtPort, NEW k \in {"ch", "mac"},
         NEW from, from \notin Routed, NEW to \in Request, Go(p, from, to),
         NEW g, NEW ok \in BOOLEAN, NEW clean \in BOOLEAN,
         g[k] \in KindOf(k), Answer(p, {k}, g, ok, clean),
         owner' \in [Resource -> VirtPort \cup {None}], OwnersKept,
         UNCHANGED <<offset, steer, left, wild, astray>>
  PROVE  FlowInv'
<1>0. TypeOK /\ {k} \in SUBSET Granted
  BY DEF FlowInv, Granted
<1>1. /\ step' \in [VirtPort -> Request]
      /\ step[p] = from
      /\ \A q \in VirtPort \ {p} : step'[q] = step[q]
      /\ visits' \in 0..MaxVisit /\ config' = config
  BY <1>0, GoType
<1>2. /\ hold' \in [VirtPort -> Kept]
      /\ told' \in [VirtPort -> SUBSET Granted]
      /\ faults' \in 0..MaxFault
      /\ \A q \in VirtPort \ {p} : hold'[q] = hold[q] /\ told'[q] = told[q]
      /\ \A l \in Kind \ {k} : hold'[p][l] = hold[p][l]
      /\ told'[p] = told[p] \cup {k} \/ told'[p] = told[p] \ {k}
  <2>1. \A l \in {k} : g[l] \in KindOf(l)
    OBVIOUS
  <2>2. Answered(p, {k}, g, ok, clean)
    BY <1>0, <2>1, AnswerEffect
  <2> QED BY <2>2 DEF Answered
<1>3. TypeOK'
  BY <1>0, <1>1, <1>2 DEF TypeOK, ArpInv
<1>4. OffsetsOwned' /\ OnlyPrimary'
  BY OffsetsFrame DEF FlowInv
<1>5. FlowsKept'
  <2>1. hold'[p].flow = hold[p].flow
    BY <1>2 DEF Kind
  <2>2. "flow" \in told'[p] => "flow" \in told[p]
    BY <1>2
  <2> QED BY <1>2, <2>1, <2>2, FlowsFrame DEF FlowInv
<1>6. Removable'
  BY <1>0, <1>1, <1>2, RemovableFrame DEF FlowInv
<1> QED BY <1>3, <1>4, <1>5, <1>6 DEF FlowInv, ArpInv

(* CpswProxyServer_allocTxHandlerCb.                                       *)
LEMMA AllocTxKeeps ==
  ASSUME FlowInv, ArpInv', NEW p \in VirtPort, AllocTx(p)
  PROVE  FlowInv'
<1>0. TypeOK /\ TxChOf[p] \in Ch /\ TxChOf[p] \in Resource
  BY ResourceAssumption DEF FlowInv, Resource
<1>1. /\ Go(p, "DOWN", "ALLOC_RX") /\ UNCHANGED <<offset, steer, left, wild, astray>>
      /\ "DOWN" \notin Routed /\ "ALLOC_RX" \in Request
  BY DEF AllocTx, Routed, Request
<1>2. CASE Take(p, TxChOf[p]) /\ Answer(p, {"ch"}, [ch |-> TxChOf[p]], TRUE, TRUE)
  <2>1. owner' \in [Resource -> VirtPort \cup {None}] /\ OwnersKept
    BY <1>0, <1>2, TakeOwner
  <2>2. [ch |-> TxChOf[p]]["ch"] \in KindOf("ch")
    BY <1>0 DEF KindOf
  <2> QED BY <1>1, <1>2, <2>1, <2>2, OneIdKeeps
<1>3. CASE Refuse(p, {"ch"}, {TxChOf[p]})
  <2>1. PICK g \in Kept : Answer(p, {"ch"}, g, FALSE, FALSE)
    BY <1>3 DEF Refuse
  <2>2. g["ch"] \in KindOf("ch")
    BY DEF Kept, KindOf
  <2>3. owner' \in [Resource -> VirtPort \cup {None}] /\ OwnersKept
    BY <1>0, <1>3 DEF Refuse, TypeOK, OwnersKept
  <2> QED BY <1>1, <2>1, <2>2, <2>3, OneIdKeeps
<1> QED BY <1>2, <1>3 DEF AllocTx

(* CpswProxyServer_allocMacHandlerCb.                                      *)
LEMMA AllocMacKeeps ==
  ASSUME FlowInv, ArpInv', NEW p \in VirtPort, AllocMac(p)
  PROVE  FlowInv'
<1>0. TypeOK
  BY DEF FlowInv
<1>1. /\ Go(p, "ALLOC_MAC", "REGISTER") /\ UNCHANGED <<offset, steer, left, wild, astray>>
      /\ "ALLOC_MAC" \notin Routed /\ "REGISTER" \in Request
  BY DEF AllocMac, Routed, Request
<1>2. ASSUME NEW m \in Mac, Take(p, m), Answer(p, {"mac"}, [mac |-> m], TRUE, TRUE)
      PROVE  FlowInv'
  <2>1. owner' \in [Resource -> VirtPort \cup {None}] /\ OwnersKept
    BY <1>0, <1>2, TakeOwner DEF Resource
  <2>2. [mac |-> m]["mac"] \in KindOf("mac")
    BY DEF KindOf
  <2> QED BY <1>1, <1>2, <2>1, <2>2, OneIdKeeps
<1>3. CASE Refuse(p, {"mac"}, Mac)
  <2>1. PICK g \in Kept : Answer(p, {"mac"}, g, FALSE, FALSE)
    BY <1>3 DEF Refuse
  <2>2. g["mac"] \in KindOf("mac")
    BY DEF Kept, KindOf
  <2>3. owner' \in [Resource -> VirtPort \cup {None}] /\ OwnersKept
    BY <1>0, <1>3 DEF Refuse, TypeOK, OwnersKept
  <2> QED BY <1>1, <2>1, <2>2, <2>3, OneIdKeeps
<1> QED BY <1>2, <1>3 DEF AllocMac

(* CpswProxyServer_allocRxHandlerCb: the flow that is answered is the one  *)
(* that was allocated and remembered, and its policers steer to it.        *)
LEMMA AllocRxKeeps ==
  ASSUME FlowInv, ArpInv', NEW p \in VirtPort, AllocRx(p)
  PROVE  FlowInv'
<1> DEFINE kinds == {"flow", "base"}
<1>0. TypeOK /\ kinds \in SUBSET Granted
  BY DEF FlowInv, Granted
<1>1. /\ step' \in [VirtPort -> Request]
      /\ step[p] = "ALLOC_RX" /\ step[p] \notin Routed
      /\ \A q \in VirtPort \ {p} : step'[q] = step[q]
      /\ visits' \in 0..MaxVisit /\ config' = config
      /\ UNCHANGED <<left, wild, astray>>
  <2>1. Go(p, "ALLOC_RX", "ALLOC_MAC") /\ "ALLOC_MAC" \in Request
    BY DEF AllocRx, Request
  <2>2. UNCHANGED <<left, wild, astray>>
    BY DEF AllocRx
  <2> QED BY <1>0, <2>1, <2>2, GoType DEF Routed
<1>2. ASSUME NEW f \in Flow, NEW done \in SUBSET CustomOf(p),
             Take(p, f), SaveOffset(p, f),
             steer' = {c \in steer : c.match \notin done}
                        \cup [match : done, flow : {f}, port : {p}],
             Answer(p, kinds, [flow |-> f, base |-> TRUE],
                    LastDone(p, done), done = CustomOf(p))
      PROVE  FlowInv'
  <2> DEFINE g == [flow |-> f, base |-> TRUE]
  <2>1. g["flow"] = f /\ g["base"] = TRUE /\ \A k \in kinds : g[k] \in KindOf(k)
    <3>1. g["flow"] = f /\ g["base"] = TRUE
      OBVIOUS
    <3>2. f \in KindOf("flow") /\ TRUE \in KindOf("base")
      BY DEF KindOf
    <3> QED BY <3>1, <3>2
  <2>2. /\ owner' \in [Resource -> VirtPort \cup {None}]
        /\ owner[f] = None /\ owner'[f] = p /\ OwnersKept
    BY <1>0, <1>2, TakeOwner DEF Resource
  <2>3. LastDone(p, done) \in BOOLEAN
    BY DEF LastDone
  <2> HIDE DEF g
  <2>4. /\ hold' \in [VirtPort -> Kept]
        /\ told' \in [VirtPort -> SUBSET Granted]
        /\ faults' \in 0..MaxFault
        /\ \A q \in VirtPort \ {p} : hold'[q] = hold[q] /\ told'[q] = told[q]
        /\ told'[p] \cap kinds # {} => hold'[p]["flow"] = f
        /\ \A q \in VirtPort \ {p} : offset'[q] = offset[q]
        /\ offset'[p][0] = f
    <3>1. Answer(p, kinds, g, LastDone(p, done), done = CustomOf(p))
      BY <1>2 DEF g
    <3>2. Answered(p, kinds, g, LastDone(p, done), done = CustomOf(p))
      BY <1>0, <2>1, <2>3, <3>1, AnswerEffect, (done = CustomOf(p)) \in BOOLEAN
    <3>3. /\ \A q \in VirtPort \ {p} : offset'[q] = offset[q]
          /\ offset'[p][0] = f
      BY <1>0, <1>2, ResourceAssumption DEF SaveOffset, TypeOK, RelFlow
    <3> QED BY <3>2, <3>3, <2>1 DEF Answered
  <2>5. steer' \subseteq Classifier
    <3>1. [match : done, flow : {f}, port : {p}] \subseteq Classifier
      BY DEF Classifier, Match, Custom
    <3> QED BY <1>0, <1>2, <3>1 DEF TypeOK
  <2>6. offset' \in [VirtPort -> [RelFlow -> Flow \cup {None, Invalid}]]
    BY <1>0, <1>2 DEF SaveOffset, TypeOK
  <2>7. TypeOK'
    BY <1>0, <1>1, <2>2, <2>4, <2>5, <2>6 DEF TypeOK, ArpInv
  <2>8. OffsetsOwned' /\ OnlyPrimary'
    BY <1>0, <1>1, <1>2, <2>2, OffsetsSaved DEF FlowInv
  <2>9. FlowsKept'
    BY <1>1, <2>2, <2>4, FlowsFrame DEF FlowInv
  <2>10. Removable'
    <3>1. ASSUME NEW c \in steer' \ left', c.flow \in Flow \ astray'
          PROVE  c \in steer \ left \/ Right(c)'
      <4>1. CASE c \in steer
        BY <1>1, <3>1, <4>1
      <4>2. CASE c \notin steer
        <5>1. c.match \in CustomOf(p) /\ c.flow = f /\ c.port = p
          BY <1>2, <3>1, <4>2
        <5> QED BY <2>2, <5>1 DEF Right, CustomOf
      <4> QED BY <4>1, <4>2
    <3> QED BY <1>0, <1>1, <2>2, <2>4, <3>1, RemovableFrame DEF FlowInv
  <2> QED BY <2>7, <2>8, <2>9, <2>10 DEF FlowInv, ArpInv
<1>3. CASE Refuse(p, kinds, Flow) /\ UNCHANGED <<offset, steer>>
  <2>1. PICK g \in Kept : Answer(p, kinds, g, FALSE, FALSE)
    BY <1>3 DEF Refuse
  <2>2. \A k \in kinds : g[k] \in KindOf(k)
    BY KeptIs DEF Kind
  <2>3. /\ hold' \in [VirtPort -> Kept]
        /\ told' \in [VirtPort -> SUBSET Granted]
        /\ faults' \in 0..MaxFault
        /\ \A q \in VirtPort \ {p} : hold'[q] = hold[q] /\ told'[q] = told[q]
        /\ told'[p] \cap kinds = {}
    <3>1. Answered(p, kinds, g, FALSE, FALSE)
      BY <1>0, <2>1, <2>2, AnswerEffect
    <3> QED BY <3>1 DEF Answered
  <2>4. owner' \in [Resource -> VirtPort \cup {None}] /\ OwnersKept
    BY <1>0, <1>3 DEF Refuse, TypeOK, OwnersKept
  <2>5. TypeOK'
    BY <1>0, <1>1, <1>3, <2>3, <2>4 DEF TypeOK, ArpInv
  <2>6. OffsetsOwned' /\ OnlyPrimary'
    BY <1>1, <1>3, <2>4, OffsetsFrame DEF FlowInv
  <2>7. FlowsKept'
    BY <1>1, <1>3, <2>3, <2>4, FlowsFrame DEF FlowInv
  <2>8. Removable'
    BY <1>0, <1>1, <1>3, <2>3, <2>4, RemovableFrame DEF FlowInv
  <2> QED BY <2>5, <2>6, <2>7, <2>8 DEF FlowInv, ArpInv
<1> QED BY <1>2, <1>3 DEF AllocRx

(* CpswProxyServer_attachExtHandlerCb: the ids are the client's own only   *)
(* when all three could be allocated.                                      *)
LEMMA AttachExtKeeps ==
  ASSUME FlowInv, ArpInv', NEW p \in VirtPort, AttachExt(p)
  PROVE  FlowInv'
<1>0. TypeOK
  BY DEF FlowInv
<1>1. /\ step' \in [VirtPort -> Request]
      /\ step[p] \notin Routed
      /\ \A q \in VirtPort \ {p} : step'[q] = step[q]
      /\ visits' \in 0..MaxVisit /\ config' = config
      /\ UNCHANGED <<steer, left, wild, astray>>
  <2>1. Go(p, "DOWN", "REGISTER") /\ "REGISTER" \in Request
    BY DEF AttachExt, Request
  <2>2. UNCHANGED <<steer, left, wild, astray>>
    BY DEF AttachExt
  <2> QED BY <1>0, <2>1, <2>2, GoType DEF Routed
<1>ids. PICK f \in Flow \cup {None}, c \in Ch \cup {None}, m \in Mac \cup {None} :
        /\ f = None => c = None /\ CannotAlloc(Flow)
        /\ c = None => m = None /\ (f = None \/ CannotAlloc(Ch))
        /\ m = None => c = None \/ CannotAlloc(Mac)
        /\ \A r \in {f, c, m} \ {None} : owner[r] = None
        /\ owner' = [r \in Resource |-> IF r \in {f, c, m} THEN p ELSE owner[r]]
        /\ IF f = None THEN UNCHANGED offset ELSE SaveOffset(p, f)
        /\ \/ /\ m # None
              /\ hold' = [hold EXCEPT ![p] = [flow |-> f, base |-> TRUE, ch |-> c,
                                              mac |-> m, ip |-> hold[p].ip]]
              /\ told' = [told EXCEPT ![p] = Granted]
              /\ UNCHANGED faults
           \/ /\ m = None \/ CanFail("ANSWER")
              /\ \E g \in {k \in Kept : k.mac = hold[p].mac /\ k.ip = hold[p].ip} :
                   hold' = [hold EXCEPT ![p] = g]
              /\ told' = [told EXCEPT ![p] = {}]
              /\ Quiet(FALSE)
  BY Zenon DEF AttachExt
<1>2. /\ f = None => c = None
      /\ c = None => m = None
      /\ \A r \in {f, c, m} \ {None} : owner[r] = None
      /\ owner' = [r \in Resource |-> IF r \in {f, c, m} THEN p ELSE owner[r]]
      /\ f = None => UNCHANGED offset
      /\ f # None => SaveOffset(p, f)
      /\ \/ /\ m # None
            /\ hold' = [hold EXCEPT ![p] = [flow |-> f, base |-> TRUE, ch |-> c,
                                            mac |-> m, ip |-> hold[p].ip]]
            /\ told' = [told EXCEPT ![p] = Granted]
            /\ UNCHANGED faults
         \/ /\ \E g \in Kept : hold' = [hold EXCEPT ![p] = g]
            /\ told' = [told EXCEPT ![p] = {}]
            /\ Quiet(FALSE)
  BY <1>ids
<1>3. /\ owner' \in [Resource -> VirtPort \cup {None}]
      /\ OwnersKept
      /\ f # None => owner[f] = None /\ owner'[f] = p
  <2>1. owner' \in [Resource -> VirtPort \cup {None}]
    BY <1>0, <1>2 DEF TypeOK
  <2>2. None \notin Flow
    BY ResourceAssumption DEF Resource
  <2>3. OwnersKept
    BY <1>2, <2>2 DEF OwnersKept, Resource
  <2> QED BY <1>2, <2>1, <2>3 DEF Resource
<1>4. /\ hold' \in [VirtPort -> Kept]
      /\ told' \in [VirtPort -> SUBSET Granted]
      /\ faults' \in 0..MaxFault
      /\ \A q \in VirtPort \ {p} : hold'[q] = hold[q] /\ told'[q] = told[q]
      /\ "flow" \in told'[p] => hold'[p].flow = f /\ f # None
  <2>1. hold[p] \in Kept
    BY <1>0 DEF TypeOK
  <2>2. CASE /\ m # None
             /\ hold' = [hold EXCEPT ![p] = [flow |-> f, base |-> TRUE, ch |-> c,
                                             mac |-> m, ip |-> hold[p].ip]]
             /\ told' = [told EXCEPT ![p] = Granted]
             /\ UNCHANGED faults
    <3> DEFINE h == [flow |-> f, base |-> TRUE, ch |-> c, mac |-> m, ip |-> hold[p].ip]
    <3>1. h \in Kept /\ h.flow = f
      BY <2>1 DEF Kept
    <3>2. f # None
      BY <1>2, <2>2
    <3> HIDE DEF h
    <3>3. /\ hold' \in [VirtPort -> Kept] /\ hold'[p] = h
          /\ \A q \in VirtPort \ {p} : hold'[q] = hold[q]
      BY <1>0, <2>2, <3>1 DEF TypeOK, h
    <3>4. /\ told' \in [VirtPort -> SUBSET Granted]
          /\ \A q \in VirtPort \ {p} : told'[q] = told[q]
      BY <1>0, <2>2 DEF TypeOK
    <3>5. faults' \in 0..MaxFault
      BY <1>0, <2>2 DEF TypeOK
    <3>6. hold'[p].flow = f /\ f # None
      BY <3>1, <3>2, <3>3
    <3> QED BY <3>3, <3>4, <3>5, <3>6
  <2>3. CASE /\ \E g \in Kept : hold' = [hold EXCEPT ![p] = g]
             /\ told' = [told EXCEPT ![p] = {}]
             /\ Quiet(FALSE)
    <3>1. faults' \in 0..MaxFault
      BY <1>0, <2>3, ResourceAssumption DEF TypeOK, Quiet
    <3> QED BY <1>0, <2>3, <3>1 DEF TypeOK
  <2> QED BY <1>2, <2>2, <2>3
<1>5. offset' \in [VirtPort -> [RelFlow -> Flow \cup {None, Invalid}]]
  <2>1. CASE f = None
    BY <1>0, <1>2, <2>1 DEF TypeOK
  <2>2. CASE f # None
    <3>1. f \in Flow /\ SaveOffset(p, f)
      BY <1>2, <2>2
    <3> QED BY <1>0, <3>1 DEF SaveOffset, TypeOK
  <2> QED BY <2>1, <2>2
<1>6. TypeOK'
  BY <1>0, <1>1, <1>3, <1>4, <1>5 DEF TypeOK, ArpInv
<1>7. OffsetsOwned' /\ OnlyPrimary'
  <2>1. CASE f = None
    BY <1>1, <1>2, <1>3, <2>1, OffsetsFrame DEF FlowInv
  <2>2. CASE f # None
    BY <1>0, <1>1, <1>2, <1>3, <2>2, OffsetsSaved DEF FlowInv
  <2> QED BY <2>1, <2>2
<1>of. /\ \A q \in VirtPort \ {p} : offset'[q] = offset[q]
       /\ f # None => offset'[p][0] = f
  BY <1>0, <1>2, ResourceAssumption DEF SaveOffset, TypeOK, RelFlow
<1>8. FlowsKept'
  BY <1>1, <1>3, <1>4, <1>of, FlowsFrame DEF FlowInv
<1>9. Removable'
  BY <1>0, <1>1, <1>3, <1>4, <1>of, RemovableFrame DEF FlowInv
<1> QED BY <1>6, <1>7, <1>8, <1>9 DEF FlowInv, ArpInv

(* A registration is made for the flow the server remembers for the port.  *)
LEMMA RouteKeeps ==
  ASSUME FlowInv, ArpInv', NEW p \in VirtPort, NEW match,
         match = RouteMatch(p), Route(p, match)
  PROVE  FlowInv'
<1>0. TypeOK
  BY DEF FlowInv
<1>1. /\ step' \in [VirtPort -> Request]
      /\ step[p] \notin Routed /\ step'[p] \in Routed
      /\ \A q \in VirtPort \ {p} : step'[q] = step[q]
      /\ visits' \in 0..MaxVisit /\ config' = config
      /\ UNCHANGED <<owner, offset, left, hold, told, wild>>
  <2>1. Go(p, "REGISTER", "UP") /\ "UP" \in Request
    BY DEF Route, Request
  <2>2. UNCHANGED <<owner, offset, left, hold, told, wild>>
    BY DEF Route
  <2> QED BY <1>0, <2>1, <2>2, GoType DEF Routed
<1>2. faults' \in 0..MaxFault
  BY <1>0, ResourceAssumption DEF Route, Quiet, TypeOK
<1>3. PICK new \in Classifier :
        /\ new.match = match /\ new.flow = hold[p].flow /\ new.port = p
        /\ \/ steer' = steer
           \/ /\ Accepted(p, TRUE)
              /\ steer' = {c \in steer : c.match # match} \cup {new}
  <2> DEFINE new == [match |-> match, flow |-> hold[p].flow, port |-> p]
  <2>1. hold[p] \in Kept
    BY <1>0 DEF TypeOK
  <2>2. match \in Match
    BY <2>1 DEF RouteMatch, Match, Kept, VirtPort
  <2>3. new \in Classifier
    BY <2>1, <2>2 DEF Classifier, Kept
  <2>4. \/ steer' = steer
        \/ /\ Accepted(p, TRUE)
           /\ steer' = {c \in steer : c.match # match} \cup {new}
    <3>1. PICK ok \in BOOLEAN, yes \in BOOLEAN :
            /\ Accepted(p, yes)
            /\ steer' = IF yes /\ ok THEN {c \in steer : c.match # match} \cup {new}
                                     ELSE steer
      BY DEF Route
    <3> QED BY <3>1
  <2> QED BY <2>3, <2>4
<1>4. astray' \subseteq Flow /\ astray \subseteq astray'
  BY <1>0 DEF Route, Strays, TypeOK
<1>6. TypeOK'
  <2>1. steer' \subseteq Classifier
    BY <1>0, <1>3 DEF TypeOK
  <2> QED BY <1>0, <1>1, <1>2, <1>4, <2>1 DEF TypeOK, ArpInv
<1>7. OwnersKept
  BY <1>1 DEF OwnersKept
<1>8. OffsetsOwned' /\ OnlyPrimary' /\ FlowsKept'
  BY <1>1, <1>4, <1>7, OffsetsFrame, FlowsFrame DEF FlowInv
<1>9. Removable'
  <2>1. ASSUME Accepted(p, TRUE), hold[p].flow \in Flow \ astray' PROVE Right(new)'
    <3>1. offset[p][0] = hold[p].flow /\ hold[p].base = TRUE
      <4>1. hold[p].base \in BOOLEAN
        BY <1>0 DEF TypeOK, Kept
      <4>2. hold[p].base = TRUE
        BY <2>1, <4>1 DEF Accepted
      <4>3. ~NotFound(p)
        BY <2>1, <4>2 DEF Route, Strays
      <4> QED BY <2>1, <4>2, <4>3, Primary DEF Accepted
    <3>2. 0 \in RelFlow
      BY ResourceAssumption DEF RelFlow
    <3>3. owner[hold[p].flow] = p
      BY <1>4, <2>1, <3>1, <3>2 DEF FlowInv, OffsetsOwned
    <3>4. RouteMatch(p)' = match
      BY <1>1 DEF RouteMatch
    <3> QED BY <1>1, <1>3, <3>1, <3>3, <3>4 DEF Right
  <2>2. ASSUME NEW c \in steer' \ left', c.flow \in Flow \ astray'
        PROVE  c \in steer \ left \/ Right(c)'
    BY <1>1, <1>3, <2>1, <2>2
  <2> QED BY <1>0, <1>1, <1>4, <1>7, <2>2, RemovableFrame DEF FlowInv
<1> QED BY <1>6, <1>8, <1>9 DEF FlowInv, ArpInv

(* What a client does while it is registered touches neither flows nor     *)
(* classifiers, nor what its classifier was made from.                     *)
LEMMA UpKeeps ==
  ASSUME FlowInv, ArpInv', NEW p \in VirtPort,
         RegisterIpv4(p) \/ FreeTx(p) \/ DeregisterIpv4(p)
  PROVE  FlowInv'
<1>0. TypeOK /\ hold[p] \in Kept
  BY DEF FlowInv, TypeOK
<1>1. PICK from \in Routed, to \in Routed : Go(p, from, to)
  BY DEF RegisterIpv4, FreeTx, DeregisterIpv4, AfterFreeTx, Routed
<1>2. to \in Request
  BY <1>1 DEF Routed, Request
<1>3. /\ step' \in [VirtPort -> Request] /\ step'[p] \in Routed
      /\ \A q \in VirtPort \ {p} : step'[q] = step[q]
      /\ visits' \in 0..MaxVisit /\ config' = config
  BY <1>0, <1>1, <1>2, GoType
<1>4. UNCHANGED <<offset, steer, left, wild, astray>>
  BY DEF RegisterIpv4, FreeTx, DeregisterIpv4
<1>5. owner' \in [Resource -> VirtPort \cup {None}] /\ OwnersKept
  <2>1. CASE UNCHANGED owner
    BY <1>0, <2>1 DEF OwnersKept, TypeOK
  <2>2. CASE FreeTx(p)
    <3>1. PICK ok \in BOOLEAN : Give(hold[p].ch, ok)
      BY <2>2 DEF FreeTx
    <3>2. hold[p].ch \in Ch \cup Mac \cup {None}
      BY <1>0 DEF Kept
    <3> QED BY <1>0, <3>1, <3>2, GiveOwner
  <2> QED BY <2>1, <2>2 DEF RegisterIpv4, DeregisterIpv4
<1>6. faults' \in 0..MaxFault
  BY <1>0, ResourceAssumption DEF RegisterIpv4, FreeTx, DeregisterIpv4, Quiet, TypeOK
<1>7. /\ hold' \in [VirtPort -> Kept]
      /\ \A q \in VirtPort \ {p} : hold'[q] = hold[q]
      /\ hold'[p].flow = hold[p].flow /\ hold'[p].base = hold[p].base
      /\ hold'[p].mac = hold[p].mac
  <2>1. CASE UNCHANGED hold
    BY <1>0, <2>1 DEF TypeOK
  <2>2. ASSUME NEW ip \in Ip, hold' = [hold EXCEPT ![p].ip = ip]
        PROVE  /\ hold' \in [VirtPort -> Kept]
               /\ \A q \in VirtPort \ {p} : hold'[q] = hold[q]
               /\ hold'[p].flow = hold[p].flow /\ hold'[p].base = hold[p].base
               /\ hold'[p].mac = hold[p].mac
    <3>1. [hold[p] EXCEPT !.ip = ip] \in Kept
      BY <1>0 DEF Kept
    <3>2. /\ [hold[p] EXCEPT !.ip = ip].flow = hold[p].flow
          /\ [hold[p] EXCEPT !.ip = ip].base = hold[p].base
          /\ [hold[p] EXCEPT !.ip = ip].mac = hold[p].mac
      BY <1>0 DEF Kept
    <3>3. hold' = [hold EXCEPT ![p] = [hold[p] EXCEPT !.ip = ip]]
      BY <2>2
    <3> QED BY <1>0, <3>1, <3>2, <3>3 DEF TypeOK
  <2>3. ASSUME hold' = [hold EXCEPT ![p].ch = None]
        PROVE  /\ hold' \in [VirtPort -> Kept]
               /\ \A q \in VirtPort \ {p} : hold'[q] = hold[q]
               /\ hold'[p].flow = hold[p].flow /\ hold'[p].base = hold[p].base
               /\ hold'[p].mac = hold[p].mac
    <3>1. [hold[p] EXCEPT !.ch = None] \in Kept
      BY <1>0 DEF Kept
    <3>2. /\ [hold[p] EXCEPT !.ch = None].flow = hold[p].flow
          /\ [hold[p] EXCEPT !.ch = None].base = hold[p].base
          /\ [hold[p] EXCEPT !.ch = None].mac = hold[p].mac
      BY <1>0 DEF Kept
    <3>3. hold' = [hold EXCEPT ![p] = [hold[p] EXCEPT !.ch = None]]
      BY <2>3
    <3> QED BY <1>0, <3>1, <3>2, <3>3 DEF TypeOK
  <2>4. ASSUME RegisterIpv4(p) PROVE \E ip \in Ip : hold' = [hold EXCEPT ![p].ip = ip]
    BY <2>4, ResourceAssumption DEF RegisterIpv4
  <2> QED BY <2>1, <2>2, <2>3, <2>4 DEF FreeTx, DeregisterIpv4
<1>8. /\ told' \in [VirtPort -> SUBSET Granted]
      /\ \A q \in VirtPort \ {p} : told'[q] = told[q]
      /\ told'[p] \subseteq told[p]
  <2>1. UNCHANGED told \/ told' = [told EXCEPT ![p] = @ \ {"ch"}]
    BY DEF RegisterIpv4, FreeTx, DeregisterIpv4
  <2> QED BY <1>0, <2>1 DEF TypeOK
<1>9. TypeOK'
  BY <1>0, <1>3, <1>4, <1>5, <1>6, <1>7, <1>8 DEF TypeOK, ArpInv
<1>10. OffsetsOwned' /\ OnlyPrimary'
  BY <1>4, <1>5, OffsetsFrame DEF FlowInv
<1>11. FlowsKept'
  BY <1>4, <1>5, <1>7, <1>8, FlowsFrame DEF FlowInv
<1>12. Removable'
  BY <1>0, <1>3, <1>4, <1>5, <1>7, RemovableFrame DEF FlowInv
<1> QED BY <1>9, <1>10, <1>11, <1>12 DEF FlowInv, ArpInv

-----------------------------------------------------------------------------
(* A registration is ended for the flow and the match it was made for: all *)
(* classifiers its client was to remove are then gone, or nobody will.     *)
LEMMA UnrouteKeeps ==
  ASSUME FlowInv, ArpInv', NEW p \in VirtPort, NEW match,
         match = RouteMatch(p), Unroute(p, match)
  PROVE  FlowInv'
<1>0. TypeOK
  BY DEF FlowInv
<1>1. /\ step' \in [VirtPort -> Request]
      /\ \A q \in VirtPort \ {p} : step'[q] = step[q]
      /\ visits' \in 0..MaxVisit /\ config' = config
      /\ UNCHANGED <<owner, offset, hold, told, wild>>
  <2>1. Go(p, "UNREGISTER", "FREE_MAC") /\ "FREE_MAC" \in Request
    BY DEF Unroute, Request
  <2>2. UNCHANGED <<owner, offset, hold, told, wild>>
    BY DEF Unroute
  <2> QED BY <1>0, <2>1, <2>2, GoType
<1>2. faults' \in 0..MaxFault
  BY <1>0, ResourceAssumption DEF Unroute, Quiet, TypeOK
<1>3. PICK gone \in SUBSET steer :
        /\ \A c \in steer : c.match = match /\ c.flow = hold[p].flow /\ ~Accepted(p, FALSE)
                              => c \in gone
        /\ \/ steer' = steer \ gone /\ left' = left
           \/ steer' = steer /\ left' = left \cup gone
  <2>1. PICK ok \in BOOLEAN, yes \in BOOLEAN :
          LET gone == IF yes THEN Gone(p, match) ELSE {}
          IN  /\ Accepted(p, yes)
              /\ IF ok THEN steer' = steer \ gone /\ UNCHANGED left
                       ELSE left' = left \cup gone /\ UNCHANGED steer
    BY DEF Unroute
  <2> DEFINE gone == IF yes THEN Gone(p, match) ELSE {}
  <2>2. gone \in SUBSET steer
    BY DEF Gone
  <2>3. ASSUME NEW c \in steer, c.match = match, c.flow = hold[p].flow, ~Accepted(p, FALSE)
        PROVE  c \in gone
    BY <2>1, <2>3 DEF Gone
  <2> QED BY <2>1, <2>2, <2>3
<1>a. astray' \subseteq Flow /\ astray \subseteq astray'
  BY <1>0 DEF Unroute, Strays, TypeOK
<1>4. TypeOK'
  <2>1. steer' \subseteq Classifier /\ left' \subseteq Classifier
    BY <1>0, <1>3 DEF TypeOK
  <2> QED BY <1>0, <1>1, <1>2, <1>a, <2>1 DEF TypeOK, ArpInv
<1>5. OwnersKept
  BY <1>1 DEF OwnersKept
<1>6. OffsetsOwned' /\ OnlyPrimary' /\ FlowsKept'
  BY <1>1, <1>5, <1>a, OffsetsFrame, FlowsFrame DEF FlowInv
<1>7. Removable'
  <2>1. ASSUME NEW c \in steer' \ left', c.flow \in Flow \ astray'
        PROVE  Right(c)'
    <3>1. c \in steer \ left /\ c \notin gone /\ c.port \in VirtPort
      BY <1>0, <1>3 DEF TypeOK, Classifier
    <3>2. Right(c)
      BY <1>a, <2>1, <3>1 DEF FlowInv, Removable
    <3>3. owner'[c.flow] = c.port
      BY <1>1, <3>2 DEF Right
    <3>4. CASE c.match \in CustomOf(c.port)
      BY <3>3, <3>4 DEF Right, CustomOf
    <3>5. CASE c.match \notin CustomOf(c.port)
      <4> DEFINE q == c.port
      <4>1. /\ step[q] \in Routed /\ c.flow = hold[q].flow /\ c.flow = offset[q][0]
            /\ hold[q].base = TRUE /\ c.match = RouteMatch(q)
        BY <3>2, <3>5 DEF Right
      <4>2. q # p
        <5>1. SUFFICES ASSUME q = p PROVE FALSE
          OBVIOUS
        <5>2. ~Accepted(p, FALSE)
          <6>1. 0 \in RelFlow
            BY ResourceAssumption DEF RelFlow
          <6> QED BY <4>1, <5>1, <6>1, Primary DEF Accepted, NotFound
        <5>3. c.match = match /\ c.flow = hold[p].flow
          BY <4>1, <5>1
        <5> QED BY <1>3, <3>1, <5>2, <5>3
      <4>3. step'[q] = step[q] /\ RouteMatch(q)' = RouteMatch(q)
        BY <1>1, <3>1, <4>2 DEF RouteMatch
      <4> QED BY <1>1, <3>3, <4>1, <4>3 DEF Right
    <3> QED BY <3>4, <3>5
  <2> QED BY <2>1 DEF Removable
<1> QED BY <1>4, <1>6, <1>7 DEF FlowInv, ArpInv

(* The client's program registers and unregisters with one match.          *)
LEMMA OneMatch ==
  ASSUME NEW p \in VirtPort
  PROVE  /\ ByDefault(p) => RouteMatch(p) = "DEFAULT"
         /\ ByMac(p) => RouteMatch(p) = hold[p].mac
         /\ TypeOK /\ ByPort(p) => RouteMatch(p) = p
BY ResourceAssumption DEF ByDefault, ByMac, ByPort, RouteMatch, TypeOK

(* ... whichever of the three requests it uses.                            *)
LEMMA RoutingKeeps ==
  ASSUME FlowInv, ArpInv', NEW p \in VirtPort,
         \/ RegisterRxDefault(p) \/ RegisterMac(p) \/ RegMacPortFlow(p)
         \/ DeregisterRxDefault(p) \/ UnregisterMac(p) \/ UnregMacPortFlow(p)
  PROVE  FlowInv'
<1>1. TypeOK
  BY DEF FlowInv
<1>2. PICK m : m = RouteMatch(p)
  OBVIOUS
<1>3. Route(p, m) \/ Unroute(p, m)
  BY <1>1, <1>2, OneMatch DEF RegisterRxDefault, RegisterMac, RegMacPortFlow,
     DeregisterRxDefault, UnregisterMac, UnregMacPortFlow
<1> QED BY <1>2, <1>3, RouteKeeps, UnrouteKeeps

(* CpswProxyServer_freeMacHandlerCb: no classifier is its client's any     *)
(* more but those of the policers.                                         *)
LEMMA FreeMacKeeps ==
  ASSUME FlowInv, ArpInv', NEW p \in VirtPort, FreeMac(p)
  PROVE  FlowInv'
<1>0. TypeOK /\ hold[p].mac \in Ch \cup Mac \cup {None}
  BY DEF FlowInv, TypeOK, Kept
<1>1. /\ step' \in [VirtPort -> Request]
      /\ step[p] \notin Routed
      /\ \A q \in VirtPort \ {p} : step'[q] = step[q]
      /\ visits' \in 0..MaxVisit /\ config' = config
      /\ UNCHANGED <<offset, steer, left, hold, wild, astray>>
  <2>1. Go(p, "FREE_MAC", "FREE_RX") /\ "FREE_RX" \in Request
    BY DEF FreeMac, Request
  <2>2. UNCHANGED <<offset, steer, left, hold, wild, astray>>
    BY DEF FreeMac
  <2> QED BY <1>0, <2>1, <2>2, GoType DEF Routed
<1>2. PICK ok \in BOOLEAN : Quiet(ok) /\ Give(hold[p].mac, ok)
  BY DEF FreeMac
<1>3. owner' \in [Resource -> VirtPort \cup {None}] /\ OwnersKept
  BY <1>0, <1>2, GiveOwner
<1>4. faults' \in 0..MaxFault
  BY <1>0, <1>2, ResourceAssumption DEF Quiet, TypeOK
<1>5. /\ told' \in [VirtPort -> SUBSET Granted]
      /\ \A q \in VirtPort \ {p} : told'[q] = told[q]
      /\ told'[p] \subseteq told[p]
  BY <1>0 DEF FreeMac, TypeOK
<1>6. TypeOK'
  BY <1>0, <1>1, <1>3, <1>4, <1>5 DEF TypeOK, ArpInv
<1>7. OffsetsOwned' /\ OnlyPrimary'
  BY <1>1, <1>3, OffsetsFrame DEF FlowInv
<1>8. FlowsKept'
  BY <1>1, <1>3, <1>5, FlowsFrame DEF FlowInv
<1>9. Removable'
  BY <1>0, <1>1, <1>3, RemovableFrame DEF FlowInv
<1> QED BY <1>6, <1>7, <1>8, <1>9 DEF FlowInv, ArpInv

(* A client core that starts again leaves its classifiers behind.          *)
LEMMA RestartKeeps ==
  ASSUME FlowInv, ArpInv', NEW p \in VirtPort, Restart(p)
  PROVE  FlowInv'
<1>0. TypeOK
  BY DEF FlowInv
<1>1. /\ step' \in [VirtPort -> Request]
      /\ \A q \in VirtPort \ {p} : step'[q] = step[q]
  BY <1>0 DEF Restart, TypeOK, Request
<1>2. /\ hold' \in [VirtPort -> Kept]
      /\ \A q \in VirtPort \ {p} : hold'[q] = hold[q]
  <2>1. Nothing \in Kept
    BY DEF Nothing, Kept
  <2> QED BY <1>0, <2>1 DEF Restart, TypeOK
<1>3. /\ told' \in [VirtPort -> SUBSET Granted] /\ told'[p] = {}
      /\ \A q \in VirtPort \ {p} : told'[q] = told[q]
  BY <1>0 DEF Restart, TypeOK
<1>4. faults' \in 0..MaxFault
  BY <1>0, ResourceAssumption DEF Restart, Quiet, TypeOK
<1>5. /\ left' = left \cup {c \in steer : c.port = p}
      /\ UNCHANGED <<owner, offset, steer, config, visits, wild, astray>>
  BY DEF Restart
<1>6. TypeOK'
  BY <1>0, <1>1, <1>2, <1>3, <1>4, <1>5 DEF TypeOK, ArpInv
<1>7. OwnersKept
  BY <1>5 DEF OwnersKept
<1>8. OffsetsOwned' /\ OnlyPrimary'
  BY <1>5, <1>7, OffsetsFrame DEF FlowInv
<1>9. FlowsKept'
  BY <1>2, <1>3, <1>5, <1>7, FlowsFrame DEF FlowInv
<1>10. Removable'
  <2>1. ASSUME NEW c \in steer' \ left', c.flow \in Flow \ astray'
        PROVE  Right(c)'
    <3>1. c \in steer \ left /\ c.port \in VirtPort \ {p}
      BY <1>0, <1>5 DEF TypeOK, Classifier
    <3>2. Right(c)
      BY <1>5, <2>1, <3>1 DEF FlowInv, Removable
    <3>3. /\ owner'[c.flow] = owner[c.flow] /\ step'[c.port] = step[c.port]
          /\ hold'[c.port] = hold[c.port] /\ offset'[c.port] = offset[c.port]
          /\ RouteMatch(c.port)' = RouteMatch(c.port)
      BY <1>1, <1>2, <1>5, <3>1 DEF RouteMatch
    <3> QED BY <3>2, <3>3 DEF Right, CustomOf
  <2> QED BY <2>1 DEF Removable
<1> QED BY <1>6, <1>8, <1>9, <1>10 DEF FlowInv, ArpInv

-----------------------------------------------------------------------------
(* The offsets stay right when the server forgets one, and frees at most   *)
(* the flow that had it.                                                   *)
LEMMA OffsetsForgotten ==
  ASSUME TypeOK, OffsetsOwned, OnlyPrimary, NEW p \in VirtPort, NEW j \in RelFlow,
         Forget(p, j), astray \subseteq astray',
         \A f \in Flow : owner'[f] = owner[f] \/ offset[p][j] = f \/ f \in astray'
  PROVE  OffsetsOwned' /\ OnlyPrimary'
<1>0. RelFlow \subseteq Nat /\ Invalid \notin Flow
  BY ResourceAssumption DEF RelFlow
<1>1. /\ \A q \in VirtPort \ {p} : offset'[q] = offset[q]
      /\ \A i \in RelFlow \ {j} : offset'[p][i] = offset[p][i]
      /\ offset'[p][j] = Invalid
  BY DEF TypeOK, Forget
<1>2. ASSUME NEW q \in VirtPort, NEW i \in RelFlow, NEW g \in Flow, offset'[q][i] = g
      PROVE  /\ owner'[g] = q \/ g \in astray'
             /\ i = 0
             /\ \A k \in RelFlow : k < i => offset'[q][k] # g
  <2>1. offset[q][i] = g /\ ~(q = p /\ i = j)
    BY <1>0, <1>1, <1>2
  <2>2. (owner[g] = q \/ g \in astray) /\ i = 0
    BY <2>1 DEF OffsetsOwned, OnlyPrimary
  <2>3. offset[p][j] # g \/ g \in astray'
    BY <2>1, <2>2 DEF OffsetsOwned, OnlyPrimary
  <2> QED BY <1>0, <2>2, <2>3
<1>3. OnlyPrimary'
  BY <1>2 DEF OnlyPrimary
<1>4. OffsetsOwned'
  BY <1>2 DEF OffsetsOwned, IsRel
<1> QED BY <1>3, <1>4

(* CpswProxyServer_freeRxHandlerCb: only the client's own flow can be      *)
(* freed, or one that went astray, and the classifiers that steer to it    *)
(* are deleted with it, or their client cannot delete them any more.       *)
LEMMA FreeRxKeeps ==
  ASSUME FlowInv, ArpInv', NEW p \in VirtPort, FreeRx(p)
  PROVE  FlowInv'
<1>0. TypeOK /\ hold[p] \in Kept /\ hold[p].flow \in Flow \cup {None}
  BY DEF FlowInv, TypeOK, Kept
<1>1. /\ step' \in [VirtPort -> Request]
      /\ step[p] \notin Routed
      /\ \A q \in VirtPort \ {p} : step'[q] = step[q]
      /\ visits' \in 0..MaxVisit /\ config' = config
  <2>1. Go(p, "FREE_RX", "DOWN") /\ "DOWN" \in Request
    BY DEF FreeRx, Request
  <2> QED BY <1>0, <2>1, GoType DEF Routed
<1>2. /\ hold' \in [VirtPort -> Kept]
      /\ \A q \in VirtPort \ {p} : hold'[q] = hold[q]
  <2> DEFINE h == [Nothing EXCEPT !.ip = hold[p].ip,
                       !.mac = IF p \in config.ext THEN hold[p].mac ELSE None]
  <2>1. h \in Kept
    BY <1>0 DEF Nothing, Kept
  <2>2. hold' = [hold EXCEPT ![p] = h]
    BY DEF FreeRx
  <2> HIDE DEF h
  <2> QED BY <1>0, <2>1, <2>2 DEF TypeOK
<1>3. /\ told' \in [VirtPort -> SUBSET Granted] /\ told'[p] = {}
      /\ \A q \in VirtPort \ {p} : told'[q] = told[q]
  BY <1>0 DEF FreeRx, TypeOK
<1>4. /\ astray' \subseteq Flow /\ astray \subseteq astray'
      /\ \A j \in RelFlow :
           (IF NotFound(p) THEN j = 0 ELSE IsRel(p, j, hold[p].flow)) =>
             \/ offset[p][j] = hold[p].flow
             \/ hold[p].base /\ hold[p].flow \in Flow => hold[p].flow \in astray'
  BY <1>0 DEF FreeRx, Strays, TypeOK, IsRel
<1>5. ASSUME NEW j \in RelFlow, Forget(p, j),
             wild' = TRUE, UNCHANGED <<owner, steer, left, faults>>
      PROVE  FlowInv'
  <2>1. OwnersKept
    BY <1>5 DEF OwnersKept
  <2>2. /\ offset' \in [VirtPort -> [RelFlow -> Flow \cup {None, Invalid}]]
        /\ \A q \in VirtPort \ {p} : offset'[q] = offset[q]
    BY <1>0, <1>5 DEF TypeOK, Forget
  <2>3. TypeOK'
    BY <1>0, <1>1, <1>2, <1>3, <1>4, <1>5, <2>2 DEF TypeOK, ArpInv
  <2>4. OffsetsOwned' /\ OnlyPrimary'
    BY <1>0, <1>4, <1>5, OffsetsForgotten DEF FlowInv
  <2>5. FlowsKept'
    BY <1>2, <1>3, <1>4, <2>1, <2>2, FlowsFrame DEF FlowInv
  <2>6. Removable'
    BY <1>0, <1>1, <1>2, <1>4, <1>5, <2>1, <2>2, RemovableFrame DEF FlowInv
  <2> QED BY <2>3, <2>4, <2>5, <2>6 DEF FlowInv, ArpInv
<1>6. ASSUME NEW j \in RelFlow, Forget(p, j),
             IF NotFound(p) THEN j = 0 ELSE IsRel(p, j, hold[p].flow),
             NEW ok \in BOOLEAN, NEW done \in SUBSET CustomOf(p), NEW free,
             DeletePolicers(p, j, done),
             Quiet(ok /\ done = InSwitch(p, j)),
             Give(hold[p].flow, free), free => hold[p].base,
             UNCHANGED wild
      PROVE  FlowInv'
  <2> DEFINE f == hold[p].flow
  <2>1. /\ offset' \in [VirtPort -> [RelFlow -> Flow \cup {None, Invalid}]]
        /\ \A q \in VirtPort \ {p} : offset'[q] = offset[q]
    BY <1>0, <1>6 DEF TypeOK, Forget
  <2>2. /\ owner' \in [Resource -> VirtPort \cup {None}]
        /\ \A g \in Flow : owner'[g] = owner[g] \/ (f = g /\ hold[p].base)
    BY <1>0, <1>6 DEF Give, TypeOK, Resource
  <2>3. /\ steer' \subseteq steer
        /\ left' = left \cup {c \in steer : c.match \in PolicersOf(p, j) \ done}
        /\ \A c \in steer' : c.match \notin done
    BY <1>6 DEF DeletePolicers
  <2>4. faults' \in 0..MaxFault
    BY <1>0, <1>6, ResourceAssumption DEF Quiet, TypeOK
  <2>5. TypeOK'
    <3>1. steer' \subseteq Classifier /\ left' \subseteq Classifier
      BY <1>0, <2>3 DEF TypeOK
    <3> QED BY <1>0, <1>1, <1>2, <1>3, <1>4, <1>6, <2>1, <2>2, <2>4, <3>1 DEF TypeOK, ArpInv
  <2>6. \A g \in Flow \ astray' : owner'[g] = owner[g] \/ (f = g /\ offset[p][j] = f)
    BY <1>4, <1>6, <2>2
  <2>7. OffsetsOwned' /\ OnlyPrimary'
    BY <1>0, <1>4, <1>6, <2>6, OffsetsForgotten DEF FlowInv
  <2>8. f \in Flow \ astray' /\ offset[p][j] = f => owner[f] = p /\ j = 0
    BY <1>4 DEF FlowInv, OffsetsOwned, OnlyPrimary
  <2>9. FlowsKept'
    <3>1. ASSUME NEW q \in VirtPort, "flow" \in told'[q]
          PROVE  /\ hold'[q].flow \in Flow /\ offset'[q][0] = hold'[q].flow
                 /\ owner'[hold'[q].flow] = q \/ hold'[q].flow \in astray'
      <4>1. q # p /\ hold'[q] = hold[q] /\ told'[q] = told[q] /\ offset'[q] = offset[q]
        BY <1>2, <1>3, <2>1, <3>1
      <4>2. /\ hold[q].flow \in Flow /\ offset[q][0] = hold[q].flow
            /\ owner[hold[q].flow] = q \/ hold[q].flow \in astray
        BY <3>1, <4>1, Primary DEF FlowInv, FlowsKept
      <4>3. owner'[hold[q].flow] = q \/ hold[q].flow \in astray'
        BY <1>4, <2>6, <2>8, <4>1, <4>2
      <4> QED BY <4>1, <4>2, <4>3
    <3> QED BY <3>1, ToldPrimary
  <2>10. Removable'
    <3>1. ASSUME NEW c \in steer' \ left', c.flow \in Flow \ astray'
          PROVE  Right(c)'
      <4>1. c \in steer \ left /\ c.port \in VirtPort
        BY <1>0, <2>3 DEF TypeOK, Classifier
      <4>2. Right(c)
        BY <1>4, <3>1, <4>1 DEF FlowInv, Removable
      <4>3. ~(c.flow = f /\ offset[p][j] = f)
        <5>1. SUFFICES ASSUME c.flow = f, offset[p][j] = f PROVE FALSE
          OBVIOUS
        <5>2. c.port = p /\ j = 0
          BY <2>8, <3>1, <4>2, <5>1 DEF Right
        <5>3. c.match \in CustomOf(p)
          BY <1>1, <4>2, <5>2 DEF Right
        <5>4. c.match \in PolicersOf(p, j)
          BY <5>2, <5>3 DEF PolicersOf
        <5> QED BY <2>3, <3>1, <4>1, <5>4
      <4>4. owner'[c.flow] = c.port
        BY <2>6, <3>1, <4>2, <4>3 DEF Right
      <4>5. CASE c.match \in CustomOf(c.port)
        BY <4>4, <4>5 DEF Right, CustomOf
      <4>6. CASE c.match \notin CustomOf(c.port)
        <5>1. /\ step[c.port] \in Routed /\ c.flow = hold[c.port].flow
              /\ c.flow = offset[c.port][0] /\ hold[c.port].base = TRUE
              /\ c.match = RouteMatch(c.port)
          BY <4>2, <4>6 DEF Right
        <5>2. c.port # p
          BY <1>1, <5>1
        <5>3. /\ step'[c.port] = step[c.port] /\ hold'[c.port] = hold[c.port]
              /\ offset'[c.port] = offset[c.port]
              /\ RouteMatch(c.port)' = RouteMatch(c.port)
          BY <1>1, <1>2, <2>1, <4>1, <5>2 DEF RouteMatch
        <5> QED BY <4>4, <5>1, <5>3 DEF Right
      <4> QED BY <4>5, <4>6
    <3> QED BY <3>1 DEF Removable
  <2> QED BY <2>5, <2>7, <2>9, <2>10 DEF FlowInv, ArpInv
<1>7. PICK j \in RelFlow :
        /\ IF NotFound(p) THEN j = 0 ELSE IsRel(p, j, hold[p].flow)
        /\ Forget(p, j)
        /\ \/ wild' = TRUE /\ UNCHANGED <<owner, steer, left, faults>>
           \/ /\ \E ok \in BOOLEAN, done \in SUBSET CustomOf(p) :
                   /\ DeletePolicers(p, j, done)
                   /\ Quiet(ok /\ done = InSwitch(p, j))
                   /\ Give(hold[p].flow, ok /\ hold[p].base /\ (j = 0 => LastDone(p, done)))
              /\ UNCHANGED wild
  BY DEF FreeRx
<1>8. CASE wild' = TRUE /\ UNCHANGED <<owner, steer, left, faults>>
  BY <1>5, <1>7, <1>8
<1>9. ASSUME NEW ok \in BOOLEAN, NEW done \in SUBSET CustomOf(p),
             DeletePolicers(p, j, done), Quiet(ok /\ done = InSwitch(p, j)),
             Give(hold[p].flow, ok /\ hold[p].base /\ (j = 0 => LastDone(p, done))),
             UNCHANGED wild
      PROVE  FlowInv'
  <2>1. PICK free : free = (ok /\ hold[p].base /\ (j = 0 => LastDone(p, done)))
    OBVIOUS
  <2>2. Give(hold[p].flow, free) /\ (free => hold[p].base)
    BY <1>9, <2>1
  <2> QED BY <1>6, <1>7, <1>9, <2>2
<1> QED BY <1>7, <1>8, <1>9

-----------------------------------------------------------------------------
(* Nothing is allocated, remembered or steered at first.                   *)
LEMMA FlowInvInit == Init => FlowInv /\ ArpInv
<1> SUFFICES ASSUME Init PROVE FlowInv /\ ArpInv
  OBVIOUS
<1>1. ArpInv
  BY EmptyTable, Parts DEF Init
<1>2. Nothing \in Kept /\ None \notin Flow /\ MaxFault \in Nat /\ MaxVisit \in Nat
  BY ResourceAssumption DEF Nothing, Kept, Resource
<1>3. config \in [ext : SUBSET VirtPort, dflt : SUBSET SwitchPort]
  BY DEF Init
<1>4. step \in [VirtPort -> Request]
  BY DEF Init, Request
<1>5. TypeOK
  <2>1. /\ owner \in [Resource -> VirtPort \cup {None}]
        /\ offset \in [VirtPort -> [RelFlow -> Flow \cup {None, Invalid}]]
    BY DEF Init
  <2>2. /\ hold \in [VirtPort -> Kept] /\ told \in [VirtPort -> SUBSET Granted]
        /\ steer \subseteq Classifier /\ left \subseteq Classifier
    <3>1. hold = [p \in VirtPort |-> Nothing] /\ told = [p \in VirtPort |-> {}]
      BY DEF Init
    <3>2. steer = {} /\ left = {}
      BY DEF Init
    <3> QED BY <1>2, <3>1, <3>2
  <2>3. /\ faults \in 0..MaxFault /\ visits \in 0..MaxVisit
        /\ wild \in BOOLEAN /\ astray \subseteq Flow
    <3>1. faults = 0 /\ visits = 0 /\ wild = FALSE /\ astray = {}
      BY DEF Init
    <3>2. faults \in 0..MaxFault /\ visits \in 0..MaxVisit
      BY <1>2, <3>1
    <3>3. wild \in BOOLEAN
      BY <3>1, Zenon
    <3> QED BY <3>1, <3>2, <3>3
  <2> QED BY <1>1, <1>3, <1>4, <2>1, <2>2, <2>3 DEF TypeOK, ArpInv
<1>6. OffsetsOwned /\ OnlyPrimary /\ FlowsKept /\ Removable
  BY <1>2 DEF Init, OffsetsOwned, OnlyPrimary, FlowsKept, Removable, RelFlow
<1> QED BY <1>1, <1>5, <1>6 DEF FlowInv, ArpInv

(* Every request, failed or not, leaves the tables and what the clients    *)
(* were told of them in agreement.                                         *)
LEMMA FlowInvStep == FlowInv /\ [Next]_vars => FlowInv' /\ ArpInv'
<1> SUFFICES ASSUME FlowInv, [Next]_vars PROVE FlowInv' /\ ArpInv'
  OBVIOUS
<1>1. ArpInv'
  BY RequestsOfTable, StepOfMap, Parts DEF FlowInv, TypeOK, ArpInv
<1>2. ASSUME NEW p \in VirtPort, Client(p) PROVE FlowInv'
  BY <1>1, <1>2, AllocTxKeeps, AllocRxKeeps, AllocMacKeeps, AttachExtKeeps,
     RoutingKeeps, UpKeeps, FreeMacKeeps, FreeRxKeeps, RestartKeeps DEF Client
<1>3. CASE UNCHANGED vars
  <2>1. OwnersKept /\ offset' = offset /\ astray' = astray
    BY <1>3 DEF vars, OwnersKept
  <2>2. TypeOK'
    BY <1>1, <1>3 DEF vars, FlowInv, TypeOK, ArpInv
  <2>3. OffsetsOwned' /\ OnlyPrimary'
    BY <2>1, OffsetsFrame DEF FlowInv
  <2>4. FlowsKept'
    BY <1>3 DEF vars, FlowInv, FlowsKept, IsRel
  <2>5. Removable'
    BY <1>3 DEF vars, FlowInv, Removable, Right, RouteMatch, CustomOf
  <2> QED BY <1>1, <2>2, <2>3, <2>4, <2>5 DEF FlowInv, ArpInv
<1> QED BY <1>1, <1>2, <1>3 DEF Next

(* Whatever fails, is late or is asked with numbers that are not the       *)
(* client's, a flow the server remembers for a port is remembered once and *)
(* is the driver's allocation for that port, or was named to the server by *)
(* a client it did not know the flow of.                                   *)
THEOREM ResourcesOwned == Spec => []ResourceInv
<1>1. FlowInv => ResourceInv
  BY DEF FlowInv, ResourceInv
<1> QED BY <1>1, FlowInvInit, FlowInvStep, PTL DEF Spec

(* A flow a client was told is its own stays the primary flow of its port  *)
(* until it frees it, and stays allocated for it unless a client that was  *)
(* told no flow names just this one: no other late or failed request of    *)
(* anybody takes it.                                                       *)
THEOREM FlowStays == Spec => []FlowsKept
<1>1. FlowInv => FlowsKept
  BY DEF FlowInv
<1> QED BY <1>1, FlowInvInit, FlowInvStep, PTL DEF Spec

(* A classifier that its client is still to remove steers to a flow        *)
(* allocated for that client, never to the next one to have the flow, but  *)
(* for the flows that went astray.                                         *)
THEOREM NoForeignPackets == Spec => []SteeredToHolder
<1>1. FlowInv => SteeredToHolder
  BY DEF FlowInv, Removable, SteeredToHolder, Right
<1> QED BY <1>1, FlowInvInit, FlowInvStep, PTL DEF Spec

(* Driven by the clients' requests, the table is still the map.            *)
THEOREM ClientsUseMap == Spec => ImplementsAddressMap
<1>1. Init => FlowInv /\ Addresses!Init
  BY FlowInvInit, EmptyTable, Parts DEF Init, Addresses!Init
<1>2. FlowInv /\ [Next]_vars => FlowInv' /\ [Addresses!Next]_Resolve
  <2>1. FlowInv => TypeOK /\ Good(arp)
    BY Parts DEF FlowInv, TypeOK, ArpInv
  <2> QED BY <2>1, FlowInvStep, RequestsOfTable, StepOfMap
<1> QED BY <1>1, <1>2, PTL DEF Spec, ImplementsAddressMap, Addresses!Spec

-----------------------------------------------------------------------------
(* The table has nothing new after an add but the address added ...        *)
LEMMA AddedOnly ==
  ASSUME NEW ip \in Ip, NEW hw \in Hw, Good(arp), AddAddr(ip, hw)
  PROVE  \A a \in AddressesIn(arp') :
           IF a = ip THEN Lookup(arp')[a] = hw
           ELSE a \in AddressesIn(arp) /\ Lookup(arp')[a] = Lookup(arp)[a]
<1>1. CASE arp' = arp
  <2>1. ASSUME ip \in AddressesIn(arp) PROVE Lookup(arp)[ip] = hw
    <3>1. Known(ip)
      BY <2>1 DEF Known, Holds, AddressesIn
    <3>2. PICK i \in ArpSlots : FirstHolding(i, ip) /\ arp' = [arp EXCEPT ![i].hw = hw]
      BY <3>1 DEF AddAddr
    <3>3. arp[i] \in ArpEntry /\ arp[i] # NoEntry /\ arp[i].ip = ip
      BY <3>2 DEF FirstHolding, Holds, Good
    <3>4. arp[i].hw = hw
      BY <1>1, <3>2, <3>3 DEF Good, ArpEntry
    <3> QED BY <3>3, <3>4, LookupIs
  <2> QED BY <1>1, <2>1
<1>2. CASE Lookup(arp') = [a \in AddressesIn(arp) \cup {ip} |->
                             IF a = ip THEN hw ELSE Lookup(arp)[a]]
  <2>1. AddressesIn(arp') = DOMAIN Lookup(arp')
    BY DEF Lookup
  <2> QED BY <1>2, <2>1
<1> QED BY <1>1, <1>2, AddAddrBinds

(* ... and all but the address deleted after a delete.                     *)
LEMMA DeletedOnly ==
  ASSUME NEW ip \in Ip, Good(arp), DelAddr(ip)
  PROVE  \A a \in AddressesIn(arp') :
           a # ip /\ a \in AddressesIn(arp) /\ Lookup(arp')[a] = Lookup(arp)[a]
<1>1. CASE arp' = arp
  <2>1. ASSUME ip \in AddressesIn(arp) PROVE FALSE
    <3>1. Known(ip)
      BY <2>1 DEF Known, Holds, AddressesIn
    <3>2. PICK i \in ArpSlots : FirstHolding(i, ip) /\ arp' = [arp EXCEPT ![i] = NoEntry]
      BY <3>1 DEF DelAddr
    <3> QED BY <1>1, <3>2 DEF FirstHolding, Holds, Good
  <2> QED BY <1>1, <2>1
<1>2. CASE Lookup(arp') = [a \in AddressesIn(arp) \ {ip} |-> Lookup(arp)[a]]
  <2>1. AddressesIn(arp') = DOMAIN Lookup(arp')
    BY DEF Lookup
  <2> QED BY <1>2, <2>1
<1> QED BY <1>1, <1>2, DelAddrUnbinds

-----------------------------------------------------------------------------
(* The configurations in which clients do not get in each other's way: no  *)
(* two ports have a custom policer or an IP address in common, and none is *)
(* set for what a registration matches.                                    *)
Apart ==
  /\ \A p, q \in VirtPort : p # q => CustomOf(p) \cap CustomOf(q) = {}
  /\ Custom \cap (Mac \cup MacPort \cup {"DEFAULT"}) = {}
  /\ \A p, q \in SwitchPort : p # q => IpOf[p] \cap IpOf[q] = {}

(* How far a client's program has come with each kind of resource.         *)
HasCh(s) == s \in {"ALLOC_RX", "ALLOC_MAC", "REGISTER", "UP"}
HasFlow(s) == s \notin {"DOWN", "ALLOC_RX"}
HasMac(s) == s \in {"REGISTER", "UP", "DEREGISTER_IPv4", "UNREGISTER", "FREE_MAC"}

(* What is allocated for a port is what its client holds.                  *)
OwnsHeld(p) ==
  \A r \in Resource : owner[r] = p =>
    \/ r \in Ch /\ HasCh(step[p]) /\ r = hold[p].ch
    \/ r \in Flow /\ HasFlow(step[p]) /\ r = hold[p].flow
    \/ r \in Mac /\ HasMac(step[p]) /\ r = hold[p].mac

(* The server knows the place of the flow and has set its policers.        *)
FlowHeld(p) ==
  HasFlow(step[p]) =>
    /\ hold[p].flow \in Flow /\ hold[p].base = TRUE
    /\ offset[p][0] = hold[p].flow
    /\ \A m \in CustomOf(p) : \E c \in steer : c.match = m

MacHeld(p) == HasMac(step[p]) => hold[p].mac \in Mac /\ "mac" \in told[p]

(* At most one of a client's addresses is in the ARP table, while its      *)
(* interface is up.                                                        *)
IpRight(p, t, s, h) ==
  /\ h.ip \in IpOf[p] \cup {None}
  /\ \A ip \in IpOf[p] \cap AddressesIn(t) :
       /\ s \in {"UP", "DEREGISTER_IPv4"}
       /\ ip = h.ip /\ Lookup(t)[ip] = h.mac

IpHeld(p) == p \in SwitchPort => IpRight(p, arp, step[p], hold[p])

(* What makes GivenBack and AnswersReachHolder inductive.                  *)
CalmInv ==
  calm => /\ left = {} /\ ~wild /\ astray = {}
          /\ \A c \in steer : c.flow \in Flow
          /\ \A p \in config.ext : Policers[p] = <<>>
          /\ \A p \in VirtPort : OwnsHeld(p) /\ FlowHeld(p) /\ MacHeld(p) /\ IpHeld(p)

(* A request of one client leaves the others what they hold.               *)
OthersKept(p) ==
  /\ \A q \in VirtPort \ {p} : /\ step'[q] = step[q] /\ hold'[q] = hold[q]
                               /\ told'[q] = told[q] /\ offset'[q] = offset[q]
  /\ \A r \in Resource : owner'[r] \in {owner[r], p, None}
  /\ \A q \in VirtPort \ {p} : \A m \in CustomOf(q) :
       (\E c \in steer : c.match = m) => \E c \in steer' : c.match = m
  /\ \A q \in SwitchPort \ {p} : \A ip \in IpOf[q] \cap AddressesIn(arp') :
       ip \in AddressesIn(arp) /\ Lookup(arp')[ip] = Lookup(arp)[ip]
  /\ config' = config

(* What a client has in the ARP table, after a step.                       *)
LEMMA IpHeldNext ==
  ASSUME NEW p
  PROVE  IpHeld(p)' <=> (p \in SwitchPort => IpRight(p, arp', step'[p], hold'[p]))
BY DEF IpHeld, IpRight, AddressesIn, Lookup, FirstIn, HoldsIn

(* The invariant holds after a request that keeps it for its own client.   *)
LEMMA CalmStep ==
  ASSUME CalmInv, calm, NEW p \in VirtPort, OthersKept(p),
         left' = {}, ~wild', astray' = {}, \A c \in steer' : c.flow \in Flow,
         OwnsHeld(p)', FlowHeld(p)', MacHeld(p)', IpHeld(p)'
  PROVE  CalmInv'
<1>1. ASSUME NEW q \in VirtPort, q # p
      PROVE  OwnsHeld(q)' /\ FlowHeld(q)' /\ MacHeld(q)' /\ IpHeld(q)'
  <2>1. OwnsHeld(q) /\ FlowHeld(q) /\ MacHeld(q) /\ IpHeld(q)
    BY <1>1 DEF CalmInv
  <2>2. /\ step'[q] = step[q] /\ hold'[q] = hold[q]
        /\ told'[q] = told[q] /\ offset'[q] = offset[q]
    BY <1>1 DEF OthersKept
  <2>3. OwnsHeld(q)'
    <3>1. \A r \in Resource : owner'[r] = q => owner[r] = q
      BY <1>1, ResourceAssumption DEF OthersKept
    <3> QED BY <2>1, <2>2, <3>1 DEF OwnsHeld
  <2>4. FlowHeld(q)'
    <3>1. \A m \in CustomOf(q) :
            (\E c \in steer : c.match = m) => \E c \in steer' : c.match = m
      BY <1>1 DEF OthersKept
    <3> QED BY <2>1, <2>2, <3>1 DEF FlowHeld, CustomOf
  <2>5. MacHeld(q)'
    BY <2>1, <2>2 DEF MacHeld
  <2>6. IpHeld(q)'
    <3>1. q \in SwitchPort => IpRight(q, arp', step'[q], hold'[q])
      BY <1>1, <2>1, <2>2 DEF OthersKept, IpHeld, IpRight
    <3> QED BY <3>1, IpHeldNext
  <2> QED BY <2>3, <2>4, <2>5, <2>6
<1>2. \A q \in config'.ext : Policers[q] = <<>>
  BY DEF CalmInv, OthersKept
<1> QED BY <1>1, <1>2 DEF CalmInv

(* Requests that leave the ARP table alone, and with it the address and,   *)
(* while it may be in the table, the MAC address of their client.          *)
LEMMA TableKept ==
  ASSUME NEW p \in VirtPort, IpHeld(p), arp' = arp, hold'[p].ip = hold[p].ip,
         step[p] \in {"UP", "DEREGISTER_IPv4"} =>
           step'[p] \in {"UP", "DEREGISTER_IPv4"} /\ hold'[p].mac = hold[p].mac
  PROVE  IpHeld(p)'
<1>1. p \in SwitchPort => IpRight(p, arp', step'[p], hold'[p])
  BY DEF IpHeld, IpRight
<1> QED BY <1>1, IpHeldNext

(* ... and the others'.                                                    *)
LEMMA OthersFrame ==
  ASSUME NEW p \in VirtPort, arp' = arp, config' = config,
         \A q \in VirtPort \ {p} : /\ step'[q] = step[q] /\ hold'[q] = hold[q]
                                   /\ told'[q] = told[q] /\ offset'[q] = offset[q],
         \A r \in Resource : owner'[r] \in {owner[r], p, None},
         \A q \in VirtPort \ {p} : \A m \in CustomOf(q) :
           (\E c \in steer : c.match = m) => \E c \in steer' : c.match = m
  PROVE  OthersKept(p)
BY DEF OthersKept

-----------------------------------------------------------------------------
(* A request for ids that is refused is a fault.                           *)
LEMMA RefusedIsFault ==
  ASSUME TypeOK, NEW p, NEW kinds, NEW pool, Refuse(p, kinds, pool)
  PROVE  faults' # 0
<1>1. PICK arrives \in BOOLEAN : Quiet(arrives /\ FALSE)
  BY DEF Refuse, Answer
<1> QED BY <1>1, ResourceAssumption DEF Quiet, TypeOK

(* What one granted id changes while nothing fails.                        *)
OneIdTaken(p, k, r, to) ==
  /\ calm
  /\ step'[p] = to
  /\ hold'[p][k] = r
  /\ \A l \in Kind \ {k} : hold'[p][l] = hold[p][l]
  /\ told'[p] = told[p] \cup {k}
  /\ owner[r] = None /\ owner'[r] = p
  /\ \A s \in Resource \ {r} : owner'[s] = owner[s]
  /\ OthersKept(p)
  /\ UNCHANGED <<arp, offset, steer, left, wild, astray>>

(* ... and that it does.                                                   *)
LEMMA OneIdGranted ==
  ASSUME TypeOK, NEW p \in VirtPort, NEW k \in {"ch", "mac"}, NEW from, NEW to \in Request,
         Go(p, from, to), NEW r \in Resource, r \in KindOf(k), Take(p, r),
         NEW g, g[k] = r, Answer(p, {k}, g, TRUE, TRUE),
         UNCHANGED <<arp, offset, steer, left, wild, astray>>, faults' = 0
  PROVE  OneIdTaken(p, k, r, to)
<1>1. /\ step'[p] = to /\ config' = config
      /\ \A q \in VirtPort \ {p} : step'[q] = step[q]
  BY GoType
<1>2. {k} \in SUBSET Granted /\ \A l \in {k} : g[l] \in KindOf(l)
  BY DEF Granted
<1>3. Answered(p, {k}, g, TRUE, TRUE)
  BY <1>2, AnswerEffect
<1>4. /\ calm
      /\ \A q \in VirtPort \ {p} : hold'[q] = hold[q] /\ told'[q] = told[q]
      /\ \A l \in Kind \ {k} : hold'[p][l] = hold[p][l]
      /\ told'[p] = told[p] \cup {k}
      /\ hold'[p][k] = r
  BY <1>3 DEF Answered, calm
<1>5. /\ owner[r] = None /\ owner'[r] = p
      /\ \A s \in Resource \ {r} : owner'[s] = owner[s]
  BY TakeOwner
<1>6. OthersKept(p)
  BY <1>1, <1>4, <1>5, OthersFrame
<1> QED BY <1>1, <1>4, <1>5, <1>6 DEF OneIdTaken

(* CpswProxyServer_allocTxHandlerCb.                                       *)
LEMMA AllocTxCalm ==
  ASSUME FlowInv, CalmInv, NEW p \in VirtPort, AllocTx(p), faults' = 0
  PROVE  CalmInv'
<1>0. TypeOK /\ TxChOf[p] \in Ch /\ TxChOf[p] \in Resource
  BY ResourceAssumption DEF FlowInv, Resource
<1>1. ~Refuse(p, {"ch"}, {TxChOf[p]})
  BY <1>0, RefusedIsFault
<1>2. /\ step[p] = "DOWN" /\ "ALLOC_RX" \in Request
      /\ Go(p, "DOWN", "ALLOC_RX") /\ Take(p, TxChOf[p])
      /\ Answer(p, {"ch"}, [ch |-> TxChOf[p]], TRUE, TRUE)
      /\ UNCHANGED <<arp, offset, steer, left, wild, astray>>
  BY <1>1 DEF AllocTx, Go, Request
<1>3. [ch |-> TxChOf[p]]["ch"] = TxChOf[p] /\ TxChOf[p] \in KindOf("ch")
  BY <1>0 DEF KindOf
<1>4. OneIdTaken(p, "ch", TxChOf[p], "ALLOC_RX")
  BY <1>0, <1>2, <1>3, OneIdGranted
<1>5. calm /\ OwnsHeld(p) /\ IpHeld(p)
  BY <1>4 DEF OneIdTaken, CalmInv
<1>6. OwnsHeld(p)'
  <2>1. \A r \in Resource : owner[r] # p
    BY <1>2, <1>5 DEF OwnsHeld, HasCh, HasFlow, HasMac
  <2> QED BY <1>0, <1>4, <2>1 DEF OneIdTaken, OwnsHeld, HasCh
<1>7. FlowHeld(p)' /\ MacHeld(p)'
  BY <1>4 DEF OneIdTaken, FlowHeld, MacHeld, HasFlow, HasMac
<1>8. IpHeld(p)'
  <2>1. hold'[p].ip = hold[p].ip /\ arp' = arp
    BY <1>4 DEF OneIdTaken, Kind
  <2> QED BY <1>2, <1>5, <2>1, TableKept
<1> QED BY <1>4, <1>5, <1>6, <1>7, <1>8, CalmStep DEF OneIdTaken, CalmInv

(* CpswProxyServer_allocMacHandlerCb.                                      *)
LEMMA AllocMacCalm ==
  ASSUME FlowInv, CalmInv, NEW p \in VirtPort, AllocMac(p), faults' = 0
  PROVE  CalmInv'
<1>0. TypeOK
  BY DEF FlowInv
<1>1. ~Refuse(p, {"mac"}, Mac)
  BY <1>0, RefusedIsFault
<1>2. PICK m \in Mac : Take(p, m) /\ Answer(p, {"mac"}, [mac |-> m], TRUE, TRUE)
  BY <1>1 DEF AllocMac
<1>3. /\ step[p] = "ALLOC_MAC" /\ "REGISTER" \in Request
      /\ Go(p, "ALLOC_MAC", "REGISTER")
      /\ UNCHANGED <<arp, offset, steer, left, wild, astray>>
  BY DEF AllocMac, Go, Request
<1>4. [mac |-> m]["mac"] = m /\ m \in KindOf("mac") /\ m \in Resource
  BY DEF KindOf, Resource
<1>5. OneIdTaken(p, "mac", m, "REGISTER")
  BY <1>0, <1>2, <1>3, <1>4, OneIdGranted
<1>6. calm /\ OwnsHeld(p) /\ FlowHeld(p) /\ IpHeld(p)
  BY <1>5 DEF OneIdTaken, CalmInv
<1>7. /\ hold'[p].ch = hold[p].ch /\ hold'[p].flow = hold[p].flow
      /\ hold'[p].base = hold[p].base /\ hold'[p].ip = hold[p].ip
      /\ hold'[p].mac = m /\ step'[p] = "REGISTER" /\ arp' = arp
  BY <1>5 DEF OneIdTaken, Kind
<1>8. OwnsHeld(p)'
  <2>1. ASSUME NEW r \in Resource, owner'[r] = p
        PROVE  \/ r \in Ch /\ HasCh(step'[p]) /\ r = hold'[p].ch
               \/ r \in Flow /\ HasFlow(step'[p]) /\ r = hold'[p].flow
               \/ r \in Mac /\ HasMac(step'[p]) /\ r = hold'[p].mac
    <3>1. CASE r = m
      BY <1>7, <3>1 DEF HasMac
    <3>2. CASE r # m
      <4>1. owner[r] = p
        BY <1>5, <2>1, <3>2 DEF OneIdTaken
      <4> QED BY <1>3, <1>6, <1>7, <4>1 DEF OwnsHeld, HasCh, HasFlow, HasMac
    <3> QED BY <3>1, <3>2
  <2> QED BY <2>1 DEF OwnsHeld
<1>9. FlowHeld(p)'
  BY <1>3, <1>5, <1>6, <1>7 DEF OneIdTaken, FlowHeld, HasFlow, CustomOf
<1>10. MacHeld(p)'
  BY <1>5, <1>7 DEF OneIdTaken, MacHeld
<1>11. IpHeld(p)'
  BY <1>3, <1>6, <1>7, TableKept
<1> QED BY <1>5, <1>6, <1>8, <1>9, <1>10, <1>11, CalmStep DEF OneIdTaken, CalmInv

(* CpswProxyServer_allocRxHandlerCb.                                       *)
LEMMA AllocRxCalm ==
  ASSUME FlowInv, CalmInv, NEW p \in VirtPort, AllocRx(p), faults' = 0
  PROVE  CalmInv'
<1> DEFINE kinds == {"flow", "base"}
<1>0. TypeOK /\ kinds \in SUBSET Granted
  BY DEF FlowInv, Granted
<1>1. ~Refuse(p, kinds, Flow)
  BY <1>0, RefusedIsFault
<1>2. PICK f \in Flow, done \in SUBSET CustomOf(p) :
        /\ Take(p, f)
        /\ SaveOffset(p, f)
        /\ steer' = {c \in steer : c.match \notin done}
                      \cup [match : done, flow : {f}, port : {p}]
        /\ Answer(p, kinds, [flow |-> f, base |-> TRUE],
                  LastDone(p, done), done = CustomOf(p))
  BY <1>1 DEF AllocRx
<1>3. /\ step[p] = "ALLOC_RX" /\ step'[p] = "ALLOC_MAC" /\ config' = config
      /\ \A q \in VirtPort \ {p} : step'[q] = step[q]
      /\ UNCHANGED <<arp, left, wild, astray>>
  <2>1. Go(p, "ALLOC_RX", "ALLOC_MAC") /\ "ALLOC_MAC" \in Request
    BY DEF AllocRx, Request
  <2>2. UNCHANGED <<arp, left, wild, astray>>
    BY DEF AllocRx
  <2> QED BY <1>0, <2>1, <2>2, GoType
<1> DEFINE g == [flow |-> f, base |-> TRUE]
<1>4. g["flow"] = f /\ g["base"] = TRUE /\ \A k \in kinds : g[k] \in KindOf(k)
  <2>1. g["flow"] = f /\ g["base"] = TRUE
    OBVIOUS
  <2>2. f \in KindOf("flow") /\ TRUE \in KindOf("base")
    BY DEF KindOf
  <2> QED BY <2>1, <2>2
<1> HIDE DEF g
<1>5. Answered(p, kinds, g, LastDone(p, done), done = CustomOf(p))
  <2>1. Answer(p, kinds, g, LastDone(p, done), done = CustomOf(p))
    BY <1>2 DEF g
  <2>2. LastDone(p, done) \in BOOLEAN /\ (done = CustomOf(p)) \in BOOLEAN
    BY DEF LastDone
  <2> QED BY <1>0, <1>4, <2>1, <2>2, AnswerEffect
<1>6. /\ calm /\ done = CustomOf(p)
      /\ \A q \in VirtPort \ {p} : hold'[q] = hold[q] /\ told'[q] = told[q]
      /\ hold'[p]["flow"] = f /\ hold'[p]["base"] = TRUE
      /\ hold'[p].ch = hold[p].ch /\ hold'[p].ip = hold[p].ip
  <2>1. /\ calm /\ done = CustomOf(p)
        /\ \A q \in VirtPort \ {p} : hold'[q] = hold[q] /\ told'[q] = told[q]
        /\ \A k \in kinds : hold'[p][k] = g[k]
        /\ \A k \in Kind \ kinds : hold'[p][k] = hold[p][k]
    BY <1>5 DEF Answered, calm
  <2>2. hold'[p]["flow"] = g["flow"] /\ hold'[p]["base"] = g["base"]
    BY <2>1
  <2>3. hold'[p].ch = hold[p].ch /\ hold'[p].ip = hold[p].ip
    BY <2>1 DEF Kind
  <2> QED BY <1>4, <2>1, <2>2, <2>3
<1>7. OwnsHeld(p) /\ IpHeld(p) /\ (\A c \in steer : c.flow \in Flow) /\ left = {} /\ ~wild /\ astray = {}
  BY <1>6 DEF CalmInv
<1>8. /\ owner'[f] = p /\ \A r \in Resource \ {f} : owner'[r] = owner[r]
      /\ f \in Resource
  BY <1>0, <1>2, TakeOwner DEF Resource
<1>9. /\ offset'[p][0] = f
      /\ \A q \in VirtPort \ {p} : offset'[q] = offset[q]
  <2>1. 0 \in RelFlow
    BY ResourceAssumption DEF RelFlow
  <2> QED BY <1>0, <1>2, <2>1 DEF SaveOffset, TypeOK
<1>10. /\ \A m \in CustomOf(p) : \E c \in steer' : c.match = m
       /\ \A c \in steer' : c.flow \in Flow
       /\ \A c \in steer : \E d \in steer' : d.match = c.match
  <2>1. \A m \in done : [match |-> m, flow |-> f, port |-> p] \in steer'
    BY <1>2
  <2>2. \A m \in done : \E c \in steer' : c.match = m
    BY <2>1
  <2>3. \A c \in steer' : c.flow \in Flow
    BY <1>2, <1>7
  <2>4. ASSUME NEW c \in steer PROVE \E d \in steer' : d.match = c.match
    <3>1. CASE c.match \in done
      BY <2>2, <3>1
    <3>2. CASE c.match \notin done
      BY <1>2, <3>2
    <3> QED BY <3>1, <3>2
  <2> QED BY <1>6, <2>2, <2>3, <2>4
<1>11. OwnsHeld(p)'
  <2>1. ASSUME NEW r \in Resource, owner'[r] = p
        PROVE  \/ r \in Ch /\ HasCh(step'[p]) /\ r = hold'[p].ch
               \/ r \in Flow /\ HasFlow(step'[p]) /\ r = hold'[p].flow
               \/ r \in Mac /\ HasMac(step'[p]) /\ r = hold'[p].mac
    <3>1. CASE r = f
      BY <1>3, <1>6, <3>1 DEF HasFlow
    <3>2. CASE r # f
      <4>1. owner[r] = p
        BY <1>8, <2>1, <3>2
      <4> QED BY <1>3, <1>6, <1>7, <4>1 DEF OwnsHeld, HasCh, HasFlow, HasMac
    <3> QED BY <3>1, <3>2
  <2> QED BY <2>1 DEF OwnsHeld
<1>12. FlowHeld(p)'
  BY <1>6, <1>9, <1>10 DEF FlowHeld, CustomOf
<1>13. MacHeld(p)'
  BY <1>3 DEF MacHeld, HasMac
<1>14. IpHeld(p)'
  BY <1>3, <1>6, <1>7, TableKept
<1>15. OthersKept(p)
  BY <1>3, <1>6, <1>8, <1>9, <1>10, OthersFrame
<1> QED BY <1>3, <1>6, <1>7, <1>10, <1>11, <1>12, <1>13, <1>14, <1>15, CalmStep

(* CpswProxyServer_attachExtHandlerCb.                                     *)
LEMMA AttachExtCalm ==
  ASSUME FlowInv, CalmInv, NEW p \in VirtPort, AttachExt(p), faults' = 0
  PROVE  CalmInv'
<1>0. TypeOK /\ None \notin Resource
  BY ResourceAssumption DEF FlowInv
<1>1. /\ step[p] = "DOWN" /\ step'[p] = "REGISTER" /\ config' = config
      /\ \A q \in VirtPort \ {p} : step'[q] = step[q]
      /\ p \in config.ext
      /\ UNCHANGED <<arp, steer, left, wild, astray>>
  <2>1. Go(p, "DOWN", "REGISTER") /\ "REGISTER" \in Request
    BY DEF AttachExt, Request
  <2>2. p \in config.ext /\ UNCHANGED <<arp, steer, left, wild, astray>>
    BY DEF AttachExt
  <2> QED BY <1>0, <2>1, <2>2, GoType
<1>2. ~Quiet(FALSE)
  BY <1>0, ResourceAssumption DEF Quiet, TypeOK
<1>3. PICK f \in Flow \cup {None}, c \in Ch \cup {None}, m \in Mac \cup {None} :
        /\ f = None => c = None /\ CannotAlloc(Flow)
        /\ c = None => m = None /\ (f = None \/ CannotAlloc(Ch))
        /\ m = None => c = None \/ CannotAlloc(Mac)
        /\ \A r \in {f, c, m} \ {None} : owner[r] = None
        /\ owner' = [r \in Resource |-> IF r \in {f, c, m} THEN p ELSE owner[r]]
        /\ IF f = None THEN UNCHANGED offset ELSE SaveOffset(p, f)
        /\ \/ /\ m # None
              /\ hold' = [hold EXCEPT ![p] = [flow |-> f, base |-> TRUE, ch |-> c,
                                              mac |-> m, ip |-> hold[p].ip]]
              /\ told' = [told EXCEPT ![p] = Granted]
              /\ UNCHANGED faults
           \/ /\ m = None \/ CanFail("ANSWER")
              /\ \E g \in {k \in Kept : k.mac = hold[p].mac /\ k.ip = hold[p].ip} :
                   hold' = [hold EXCEPT ![p] = g]
              /\ told' = [told EXCEPT ![p] = {}]
              /\ Quiet(FALSE)
  BY Zenon DEF AttachExt
<1>4. /\ f \in Flow /\ c \in Ch /\ m \in Mac
      /\ owner' = [r \in Resource |-> IF r \in {f, c, m} THEN p ELSE owner[r]]
      /\ SaveOffset(p, f)
      /\ hold' = [hold EXCEPT ![p] = [flow |-> f, base |-> TRUE, ch |-> c,
                                      mac |-> m, ip |-> hold[p].ip]]
      /\ told' = [told EXCEPT ![p] = Granted]
      /\ UNCHANGED faults
  BY <1>2, <1>3
<1>5. calm /\ OwnsHeld(p) /\ IpHeld(p) /\ Policers[p] = <<>>
      /\ (\A d \in steer : d.flow \in Flow) /\ left = {} /\ ~wild /\ astray = {}
  <2>1. calm
    BY <1>4 DEF calm
  <2> QED BY <1>1, <2>1 DEF CalmInv
<1>6. /\ hold'[p].flow = f /\ hold'[p].base = TRUE /\ hold'[p].ch = c
      /\ hold'[p].mac = m /\ hold'[p].ip = hold[p].ip
      /\ \A q \in VirtPort \ {p} : hold'[q] = hold[q]
  <2> DEFINE h == [flow |-> f, base |-> TRUE, ch |-> c, mac |-> m, ip |-> hold[p].ip]
  <2>1. /\ h.flow = f /\ h.base = TRUE /\ h.ch = c /\ h.mac = m /\ h.ip = hold[p].ip
    OBVIOUS
  <2>2. hold' = [hold EXCEPT ![p] = h]
    BY <1>4
  <2> HIDE DEF h
  <2>3. hold'[p] = h /\ \A q \in VirtPort \ {p} : hold'[q] = hold[q]
    BY <1>0, <2>2 DEF TypeOK
  <2> QED BY <2>1, <2>3
<1>7. /\ told'[p] = Granted /\ \A q \in VirtPort \ {p} : told'[q] = told[q]
  BY <1>0, <1>4 DEF TypeOK
<1>8. /\ offset'[p][0] = f
      /\ \A q \in VirtPort \ {p} : offset'[q] = offset[q]
  <2>1. 0 \in RelFlow
    BY ResourceAssumption DEF RelFlow
  <2> QED BY <1>0, <1>4, <2>1 DEF SaveOffset, TypeOK
<1>9. OwnsHeld(p)'
  <2>1. ASSUME NEW r \in Resource, owner'[r] = p PROVE r \in {f, c, m}
    BY <1>1, <1>4, <1>5, <2>1 DEF OwnsHeld, HasCh, HasFlow, HasMac
  <2>2. HasCh(step'[p]) /\ HasFlow(step'[p]) /\ HasMac(step'[p])
    BY <1>1 DEF HasCh, HasFlow, HasMac
  <2> QED BY <1>4, <1>6, <2>1, <2>2 DEF OwnsHeld
<1>10. FlowHeld(p)'
  <2>1. CustomOf(p) = {}
    BY <1>5 DEF CustomOf
  <2> QED BY <1>4, <1>6, <1>8, <2>1 DEF FlowHeld, CustomOf
<1>11. MacHeld(p)'
  BY <1>4, <1>6, <1>7 DEF MacHeld, Granted
<1>12. IpHeld(p)'
  BY <1>1, <1>5, <1>6, TableKept
<1>13. OthersKept(p)
  <2>1. \A r \in Resource : owner'[r] \in {owner[r], p, None}
    BY <1>4
  <2> QED BY <1>1, <1>6, <1>7, <1>8, <2>1, OthersFrame
<1> QED BY <1>1, <1>5, <1>9, <1>10, <1>11, <1>12, <1>13, CalmStep

(* A client that holds the flow the server knows names no other.           *)
LEMMA NoneAstray ==
  ASSUME NEW p \in VirtPort, Strays(p), astray = {}, offset[p][0] = hold[p].flow
  PROVE  astray' = {}
<1>1. 0 \in RelFlow
  BY ResourceAssumption DEF RelFlow
<1> QED BY <1>1 DEF Strays, NotFound

(* A registration, of whichever kind, takes no policer out of the switch.  *)
LEMMA RouteCalm ==
  ASSUME FlowInv, CalmInv, NEW p \in VirtPort, NEW match, Route(p, match), faults' = 0
  PROVE  CalmInv'
<1>0. TypeOK
  BY DEF FlowInv
<1>1. /\ step[p] = "REGISTER" /\ step'[p] = "UP" /\ config' = config
      /\ \A q \in VirtPort \ {p} : step'[q] = step[q]
      /\ UNCHANGED <<arp, owner, offset, left, hold, told, wild>>
  <2>1. Go(p, "REGISTER", "UP") /\ "UP" \in Request
    BY DEF Route, Request
  <2>2. UNCHANGED <<arp, owner, offset, left, hold, told, wild>>
    BY DEF Route
  <2> QED BY <1>0, <2>1, <2>2, GoType
<1>2. calm
  BY <1>0, ResourceAssumption DEF Route, Quiet, TypeOK, calm
<1>3. /\ OwnsHeld(p) /\ FlowHeld(p) /\ MacHeld(p) /\ IpHeld(p)
      /\ (\A c \in steer : c.flow \in Flow) /\ left = {} /\ ~wild /\ astray = {}
  BY <1>2 DEF CalmInv
<1>4. /\ \A c \in steer : \E d \in steer' : d.match = c.match
      /\ \A c \in steer' : c.flow \in Flow
  <2>1. PICK new : /\ new = [match |-> match, flow |-> hold[p].flow, port |-> p]
                   /\ \/ steer' = steer
                      \/ steer' = {c \in steer : c.match # match} \cup {new}
    BY DEF Route
  <2>2. new.match = match /\ new.flow \in Flow
    BY <1>1, <1>3, <2>1 DEF FlowHeld, HasFlow
  <2> QED BY <1>3, <2>1, <2>2
<1>5. OwnsHeld(p)'
  <2>1. HasCh(step'[p]) /\ HasFlow(step'[p]) /\ HasMac(step'[p])
    BY <1>1 DEF HasCh, HasFlow, HasMac
  <2> QED BY <1>1, <1>3, <2>1 DEF OwnsHeld
<1>6. FlowHeld(p)'
  <2>1. HasFlow(step[p])
    BY <1>1 DEF HasFlow
  <2>2. \A m \in CustomOf(p) : \E c \in steer' : c.match = m
    BY <1>3, <1>4, <2>1 DEF FlowHeld
  <2> QED BY <1>1, <1>3, <2>1, <2>2 DEF FlowHeld, CustomOf
<1>7. MacHeld(p)'
  BY <1>1, <1>3 DEF MacHeld, HasMac
<1>8. IpHeld(p)'
  BY <1>1, <1>3, TableKept
<1>9. OthersKept(p)
  BY <1>1, <1>4, OthersFrame
<1>10. astray' = {}
  BY <1>1, <1>3, NoneAstray DEF Route, FlowHeld, HasFlow
<1> QED BY <1>1, <1>2, <1>3, <1>4, <1>5, <1>6, <1>7, <1>8, <1>9, <1>10, CalmStep

(* The end of a registration takes no policer out of the switch: what a    *)
(* registration matches is no policer's match.                             *)
LEMMA UnrouteCalm ==
  ASSUME Apart, FlowInv, CalmInv, NEW p \in VirtPort, NEW match,
         match = RouteMatch(p), Unroute(p, match), faults' = 0
  PROVE  CalmInv'
<1>0. TypeOK
  BY DEF FlowInv
<1>1. /\ step[p] = "UNREGISTER" /\ step'[p] = "FREE_MAC" /\ config' = config
      /\ \A q \in VirtPort \ {p} : step'[q] = step[q]
      /\ UNCHANGED <<arp, owner, offset, hold, told, wild>>
  <2>1. Go(p, "UNREGISTER", "FREE_MAC") /\ "FREE_MAC" \in Request
    BY DEF Unroute, Request
  <2>2. UNCHANGED <<arp, owner, offset, hold, told, wild>>
    BY DEF Unroute
  <2> QED BY <1>0, <2>1, <2>2, GoType
<1>2. PICK ok \in BOOLEAN, gone \in SUBSET steer :
        /\ \A c \in gone : c.match = match
        /\ Quiet(ok)
        /\ IF ok THEN steer' = steer \ gone /\ UNCHANGED left
                 ELSE left' = left \cup gone /\ UNCHANGED steer
  <2>1. PICK ok \in BOOLEAN, yes \in BOOLEAN :
          LET gone == IF yes THEN Gone(p, match) ELSE {}
          IN  /\ Quiet(ok)
              /\ IF ok THEN steer' = steer \ gone /\ UNCHANGED left
                       ELSE left' = left \cup gone /\ UNCHANGED steer
    BY DEF Unroute
  <2> DEFINE gone == IF yes THEN Gone(p, match) ELSE {}
  <2>2. gone \in SUBSET steer /\ \A c \in gone : c.match = match
    BY DEF Gone
  <2> HIDE DEF gone
  <2>3. /\ Quiet(ok)
        /\ IF ok THEN steer' = steer \ gone /\ UNCHANGED left
                 ELSE left' = left \cup gone /\ UNCHANGED steer
    BY <2>1 DEF gone
  <2> QED BY <2>2, <2>3
<1>3. calm /\ steer' = steer \ gone /\ left' = left
  BY <1>0, <1>2, ResourceAssumption DEF Quiet, TypeOK, calm
<1>4. /\ OwnsHeld(p) /\ FlowHeld(p) /\ MacHeld(p) /\ IpHeld(p)
      /\ (\A c \in steer : c.flow \in Flow) /\ left = {} /\ ~wild /\ astray = {}
  BY <1>3 DEF CalmInv
<1>5. match \notin Custom
  BY <1>1, <1>4 DEF RouteMatch, MacHeld, HasMac, Apart, VirtPort
<1>6. \A q \in VirtPort : \A m \in CustomOf(q) :
        (\E c \in steer : c.match = m) => \E c \in steer' : c.match = m
  <2>1. ASSUME NEW q \in VirtPort, NEW m \in CustomOf(q), NEW c \in steer, c.match = m
        PROVE  c \in steer'
    <3>1. m \in Custom
      BY <2>1 DEF Custom
    <3> QED BY <1>2, <1>3, <1>5, <2>1, <3>1
  <2> QED BY <2>1
<1>7. OwnsHeld(p)'
  BY <1>1, <1>4 DEF OwnsHeld, HasCh, HasFlow, HasMac
<1>8. FlowHeld(p)'
  BY <1>1, <1>4, <1>6 DEF FlowHeld, HasFlow, CustomOf
<1>9. MacHeld(p)'
  BY <1>1, <1>4 DEF MacHeld, HasMac
<1>10. IpHeld(p)'
  BY <1>1, <1>4, TableKept
<1>11. OthersKept(p)
  BY <1>1, <1>6, OthersFrame
<1>12. \A c \in steer' : c.flow \in Flow
  BY <1>3, <1>4
<1>13. astray' = {}
  BY <1>1, <1>4, NoneAstray DEF Unroute, FlowHeld, HasFlow
<1> QED BY <1>1, <1>3, <1>4, <1>7, <1>8, <1>9, <1>10, <1>11, <1>12, <1>13, CalmStep

-----------------------------------------------------------------------------
(* The interface gets an address; the one it had is not in the table, or   *)
(* is the same.                                                            *)
LEMMA RegisterIpv4Calm ==
  ASSUME Apart, FlowInv, CalmInv, NEW p \in VirtPort, RegisterIpv4(p), faults' = 0
  PROVE  CalmInv'
<1>0. TypeOK /\ Good(arp) /\ p \in SwitchPort /\ hold[p] \in Kept
  BY Parts DEF FlowInv, TypeOK, ArpInv, RegisterIpv4
<1>1. /\ step[p] = "UP" /\ step' = step /\ config' = config
      /\ UNCHANGED <<owner, offset, steer, left, told, wild, astray>>
  <2>1. Go(p, "UP", "UP") /\ "UP" \in Request
    BY DEF RegisterIpv4, Request
  <2>2. UNCHANGED <<owner, offset, steer, left, told, wild, astray>>
    BY DEF RegisterIpv4
  <2>3. step' = step
    BY <1>0, <2>1 DEF Go, TypeOK
  <2> QED BY <1>0, <2>1, <2>2, <2>3, GoType
<1>2. PICK ip \in IpOf[p], same \in BOOLEAN, room \in BOOLEAN :
        /\ same <=> (Known(hold[p].ip) => ip = hold[p].ip)
        /\ AddAddr(ip, hold[p].mac)
        /\ hold' = [hold EXCEPT ![p].ip = ip]
        /\ Quiet(same /\ room)
  <2>1. PICK ip \in IpOf[p] :
          LET same == Known(hold[p].ip) => ip = hold[p].ip
              room == Known(ip) \/ \E i \in ArpSlots : arp[i] = NoEntry
          IN  /\ same \/ CanFail("RENUMBER")
              /\ AddAddr(ip, hold[p].mac)
              /\ hold' = [hold EXCEPT ![p].ip = ip]
              /\ Quiet(same /\ room)
    BY DEF RegisterIpv4
  <2> DEFINE same == Known(hold[p].ip) => ip = hold[p].ip
             room == Known(ip) \/ \E i \in ArpSlots : arp[i] = NoEntry
  <2>2. same \in BOOLEAN /\ room \in BOOLEAN
    OBVIOUS
  <2> QED BY <2>1, <2>2
<1>3. calm /\ (Known(hold[p].ip) => ip = hold[p].ip)
  BY <1>0, <1>2, ResourceAssumption DEF Quiet, TypeOK, calm
<1>4. /\ OwnsHeld(p) /\ FlowHeld(p) /\ MacHeld(p) /\ IpHeld(p)
      /\ (\A c \in steer : c.flow \in Flow) /\ left = {} /\ ~wild /\ astray = {}
  BY <1>3 DEF CalmInv
<1>5. /\ hold'[p].ip = ip /\ hold'[p].mac = hold[p].mac /\ hold'[p].ch = hold[p].ch
      /\ hold'[p].flow = hold[p].flow /\ hold'[p].base = hold[p].base
      /\ \A q \in VirtPort \ {p} : hold'[q] = hold[q]
  <2> DEFINE h == [hold[p] EXCEPT !.ip = ip]
  <2>1. /\ h.ip = ip /\ h.mac = hold[p].mac /\ h.ch = hold[p].ch
        /\ h.flow = hold[p].flow /\ h.base = hold[p].base
    BY <1>0 DEF Kept
  <2>2. hold' = [hold EXCEPT ![p] = h]
    BY <1>2
  <2> HIDE DEF h
  <2>3. hold'[p] = h /\ \A q \in VirtPort \ {p} : hold'[q] = hold[q]
    BY <1>0, <2>2 DEF TypeOK
  <2> QED BY <2>1, <2>3
<1>6. ip \in Ip /\ hold[p].mac \in Hw
  BY <1>0, <1>2, ResourceAssumption DEF Kept
<1>7. \A a \in AddressesIn(arp') :
        IF a = ip THEN Lookup(arp')[a] = hold[p].mac
        ELSE a \in AddressesIn(arp) /\ Lookup(arp')[a] = Lookup(arp)[a]
  BY <1>0, <1>2, <1>6, AddedOnly
<1>8. \A a \in AddressesIn(arp) : Known(a)
  BY DEF AddressesIn, Known, Holds
<1>9. IpHeld(p)'
  <2>1. ASSUME NEW a \in IpOf[p] \cap AddressesIn(arp')
        PROVE  a = ip /\ Lookup(arp')[a] = hold[p].mac
    <3>1. CASE a = ip
      BY <1>7, <2>1, <3>1
    <3>2. CASE a # ip
      <4>1. a \in AddressesIn(arp)
        BY <1>7, <2>1, <3>2
      <4>2. a = hold[p].ip
        BY <1>0, <1>4, <2>1, <4>1 DEF IpHeld, IpRight
      <4> QED BY <1>3, <1>8, <3>2, <4>1, <4>2
    <3> QED BY <3>1, <3>2
  <2>2. IpRight(p, arp', step'[p], hold'[p])
    BY <1>1, <1>2, <1>5, <2>1 DEF IpRight
  <2> QED BY <2>2, IpHeldNext
<1>10. OwnsHeld(p)'
  BY <1>1, <1>4, <1>5 DEF OwnsHeld
<1>11. FlowHeld(p)'
  BY <1>1, <1>4, <1>5 DEF FlowHeld, CustomOf
<1>12. MacHeld(p)'
  BY <1>1, <1>4, <1>5 DEF MacHeld
<1>13. OthersKept(p)
  <2>1. ASSUME NEW q \in SwitchPort \ {p}, NEW a \in IpOf[q] \cap AddressesIn(arp')
        PROVE  a \in AddressesIn(arp) /\ Lookup(arp')[a] = Lookup(arp)[a]
    <3>1. a # ip
      BY <1>0, <1>2, <2>1 DEF Apart
    <3> QED BY <1>7, <2>1, <3>1
  <2> QED BY <1>1, <1>5, <2>1 DEF OthersKept
<1> QED BY <1>1, <1>3, <1>4, <1>9, <1>10, <1>11, <1>12, <1>13, CalmStep

(* CpswProxyServer_freeTxHandlerCb.                                        *)
LEMMA FreeTxCalm ==
  ASSUME FlowInv, CalmInv, NEW p \in VirtPort, FreeTx(p), faults' = 0
  PROVE  CalmInv'
<1>0. TypeOK /\ hold[p] \in Kept
  BY DEF FlowInv, TypeOK
<1>1. /\ step[p] = "UP" /\ step'[p] = AfterFreeTx(p) /\ config' = config
      /\ \A q \in VirtPort \ {p} : step'[q] = step[q]
      /\ UNCHANGED <<arp, offset, steer, left, wild, astray>>
  <2>1. Go(p, "UP", AfterFreeTx(p)) /\ AfterFreeTx(p) \in Request
    BY DEF FreeTx, AfterFreeTx, Request
  <2>2. UNCHANGED <<arp, offset, steer, left, wild, astray>>
    BY DEF FreeTx
  <2> QED BY <1>0, <2>1, <2>2, GoType
<1>2. PICK ok \in BOOLEAN : Quiet(ok) /\ Give(hold[p].ch, ok)
  BY DEF FreeTx
<1>3. calm /\ ok = TRUE
  BY <1>0, <1>2, ResourceAssumption DEF Quiet, TypeOK, calm
<1>4. /\ OwnsHeld(p) /\ FlowHeld(p) /\ MacHeld(p) /\ IpHeld(p)
      /\ (\A c \in steer : c.flow \in Flow) /\ left = {} /\ ~wild /\ astray = {}
  BY <1>3 DEF CalmInv
<1>5. /\ \A r \in Resource : owner'[r] \in {owner[r], p, None}
      /\ \A r \in Resource : owner'[r] = p => owner[r] = p /\ r # hold[p].ch
  BY <1>0, <1>2, <1>3, ResourceAssumption DEF Give, TypeOK
<1>6. /\ told'[p] = told[p] \ {"ch"} /\ \A q \in VirtPort \ {p} : told'[q] = told[q]
  BY <1>0 DEF FreeTx, TypeOK
<1>7. /\ hold'[p].ip = hold[p].ip /\ hold'[p].mac = hold[p].mac
      /\ hold'[p].flow = hold[p].flow /\ hold'[p].base = hold[p].base
      /\ \A q \in VirtPort \ {p} : hold'[q] = hold[q]
  <2> DEFINE h == [hold[p] EXCEPT !.ch = None]
  <2>1. /\ h.ip = hold[p].ip /\ h.mac = hold[p].mac
        /\ h.flow = hold[p].flow /\ h.base = hold[p].base
    BY <1>0 DEF Kept
  <2>2. hold' = [hold EXCEPT ![p] = h]
    BY DEF FreeTx
  <2> HIDE DEF h
  <2>3. hold'[p] = h /\ \A q \in VirtPort \ {p} : hold'[q] = hold[q]
    BY <1>0, <2>2 DEF TypeOK
  <2> QED BY <2>1, <2>3
<1>8. /\ HasFlow(step'[p]) /\ HasMac(step'[p]) /\ HasFlow(step[p]) /\ HasMac(step[p])
      /\ p \in SwitchPort => step'[p] = "DEREGISTER_IPv4"
  BY <1>1 DEF AfterFreeTx, HasFlow, HasMac
<1>9. OwnsHeld(p)'
  BY <1>4, <1>5, <1>7, <1>8 DEF OwnsHeld
<1>10. FlowHeld(p)'
  BY <1>1, <1>4, <1>7, <1>8 DEF FlowHeld, CustomOf
<1>11. MacHeld(p)'
  BY <1>4, <1>6, <1>7, <1>8 DEF MacHeld
<1>12. IpHeld(p)'
  <2>1. p \in SwitchPort => IpRight(p, arp', step'[p], hold'[p])
    BY <1>1, <1>4, <1>7, <1>8 DEF IpHeld, IpRight
  <2> QED BY <2>1, IpHeldNext
<1>13. OthersKept(p)
  BY <1>1, <1>5, <1>6, <1>7, OthersFrame
<1> QED BY <1>1, <1>3, <1>4, <1>9, <1>10, <1>11, <1>12, <1>13, CalmStep

(* The address the client registered leaves the table.                     *)
LEMMA DeregisterIpv4Calm ==
  ASSUME Apart, FlowInv, CalmInv, NEW p \in VirtPort, DeregisterIpv4(p), faults' = 0
  PROVE  CalmInv'
<1>0. TypeOK /\ Good(arp) /\ hold[p] \in Kept
  BY Parts DEF FlowInv, TypeOK, ArpInv
<1>1. /\ step[p] = "DEREGISTER_IPv4" /\ step'[p] = "UNREGISTER" /\ config' = config
      /\ \A q \in VirtPort \ {p} : step'[q] = step[q]
      /\ UNCHANGED <<owner, offset, steer, left, hold, told, faults, wild, astray>>
  <2>1. Go(p, "DEREGISTER_IPv4", "UNREGISTER") /\ "UNREGISTER" \in Request
    BY DEF DeregisterIpv4, Request
  <2>2. UNCHANGED <<owner, offset, steer, left, hold, told, faults, wild, astray>>
    BY DEF DeregisterIpv4
  <2> QED BY <1>0, <2>1, <2>2, GoType
<1>2. calm
  BY <1>1 DEF calm
<1>3. /\ OwnsHeld(p) /\ FlowHeld(p) /\ MacHeld(p) /\ IpHeld(p)
      /\ (\A c \in steer : c.flow \in Flow) /\ left = {} /\ ~wild /\ astray = {}
  BY <1>2 DEF CalmInv
<1>4. \A a \in AddressesIn(arp') :
        a # hold[p].ip /\ a \in AddressesIn(arp) /\ Lookup(arp')[a] = Lookup(arp)[a]
  <2>1. DelAddr(hold[p].ip) /\ hold[p].ip \in Ip \cup {None}
    BY <1>0 DEF DeregisterIpv4, Kept
  <2>2. CASE hold[p].ip \in Ip
    BY <1>0, <2>1, <2>2, DeletedOnly
  <2>3. CASE hold[p].ip = None
    <3>1. \A i \in ArpSlots : ~Holds(i, None)
      BY <1>0, ResourceAssumption DEF TypeOK, ArpTypeOK, ArpEntry, Holds
    <3>2. arp' = arp
      BY <2>1, <2>3, <3>1 DEF DelAddr, FirstHolding
    <3>3. None \notin AddressesIn(arp)
      BY <3>1 DEF AddressesIn, Holds
    <3> QED BY <2>3, <3>2, <3>3
  <2> QED BY <2>1, <2>2, <2>3
<1>5. IpHeld(p)'
  <2>1. p \in SwitchPort => IpRight(p, arp', step'[p], hold'[p])
    BY <1>1, <1>3, <1>4 DEF IpHeld, IpRight
  <2> QED BY <2>1, IpHeldNext
<1>6. OwnsHeld(p)'
  BY <1>1, <1>3 DEF OwnsHeld, HasCh, HasFlow, HasMac
<1>7. FlowHeld(p)'
  BY <1>1, <1>3 DEF FlowHeld, HasFlow, CustomOf
<1>8. MacHeld(p)'
  BY <1>1, <1>3 DEF MacHeld, HasMac
<1>9. OthersKept(p)
  BY <1>1, <1>4 DEF OthersKept
<1> QED BY <1>1, <1>2, <1>3, <1>5, <1>6, <1>7, <1>8, <1>9, CalmStep

(* CpswProxyServer_freeMacHandlerCb.                                       *)
LEMMA FreeMacCalm ==
  ASSUME FlowInv, CalmInv, NEW p \in VirtPort, FreeMac(p), faults' = 0
  PROVE  CalmInv'
<1>0. TypeOK /\ hold[p] \in Kept
  BY DEF FlowInv, TypeOK
<1>1. /\ step[p] = "FREE_MAC" /\ step'[p] = "FREE_RX" /\ config' = config
      /\ \A q \in VirtPort \ {p} : step'[q] = step[q]
      /\ UNCHANGED <<arp, offset, steer, left, hold, wild, astray>>
  <2>1. Go(p, "FREE_MAC", "FREE_RX") /\ "FREE_RX" \in Request
    BY DEF FreeMac, Request
  <2>2. UNCHANGED <<arp, offset, steer, left, hold, wild, astray>>
    BY DEF FreeMac
  <2> QED BY <1>0, <2>1, <2>2, GoType
<1>2. PICK ok \in BOOLEAN : Quiet(ok) /\ Give(hold[p].mac, ok)
  BY DEF FreeMac
<1>3. calm /\ ok = TRUE
  BY <1>0, <1>2, ResourceAssumption DEF Quiet, TypeOK, calm
<1>4. /\ OwnsHeld(p) /\ FlowHeld(p) /\ MacHeld(p) /\ IpHeld(p)
      /\ (\A c \in steer : c.flow \in Flow) /\ left = {} /\ ~wild /\ astray = {}
  BY <1>3 DEF CalmInv
<1>5. /\ \A r \in Resource : owner'[r] \in {owner[r], p, None}
      /\ \A r \in Resource : owner'[r] = p => owner[r] = p /\ r # hold[p].mac
  BY <1>0, <1>2, <1>3, ResourceAssumption DEF Give, TypeOK
<1>6. \A q \in VirtPort \ {p} : told'[q] = told[q]
  BY <1>0 DEF FreeMac, TypeOK
<1>7. OwnsHeld(p)'
  BY <1>1, <1>4, <1>5 DEF OwnsHeld, HasCh, HasFlow, HasMac
<1>8. FlowHeld(p)'
  BY <1>1, <1>4 DEF FlowHeld, HasFlow, CustomOf
<1>9. MacHeld(p)'
  BY <1>1 DEF MacHeld, HasMac
<1>10. IpHeld(p)'
  BY <1>1, <1>4, TableKept
<1>11. OthersKept(p)
  BY <1>1, <1>5, <1>6, OthersFrame
<1> QED BY <1>1, <1>3, <1>4, <1>7, <1>8, <1>9, <1>10, <1>11, CalmStep

(* CpswProxyServer_freeRxHandlerCb: all the policers the flow was given    *)
(* are there to be deleted, so that the handler goes on to free the flow.  *)
LEMMA FreeRxCalm ==
  ASSUME Apart, FlowInv, CalmInv, NEW p \in VirtPort, FreeRx(p), faults' = 0
  PROVE  CalmInv'
<1>0. TypeOK /\ hold[p] \in Kept /\ OnlyPrimary
  BY DEF FlowInv, TypeOK
<1>1. /\ step[p] = "FREE_RX" /\ step'[p] = "DOWN" /\ config' = config
      /\ \A q \in VirtPort \ {p} : step'[q] = step[q]
      /\ UNCHANGED arp
  <2>1. Go(p, "FREE_RX", "DOWN") /\ "DOWN" \in Request
    BY DEF FreeRx, Request
  <2>2. UNCHANGED arp
    BY DEF FreeRx
  <2> QED BY <1>0, <2>1, <2>2, GoType
<1>2. /\ hold'[p].ip = hold[p].ip
      /\ \A q \in VirtPort \ {p} : hold'[q] = hold[q] /\ told'[q] = told[q]
  <2> DEFINE h == [Nothing EXCEPT !.ip = hold[p].ip,
                       !.mac = IF p \in config.ext THEN hold[p].mac ELSE None]
  <2>1. h.ip = hold[p].ip
    BY DEF Nothing
  <2>2. hold' = [hold EXCEPT ![p] = h] /\ told' = [told EXCEPT ![p] = {}]
    BY DEF FreeRx
  <2> HIDE DEF h
  <2> QED BY <1>0, <2>1, <2>2 DEF TypeOK
<1>3. calm
  <2>1. (\E ok \in BOOLEAN : Quiet(ok)) \/ faults' = faults
    BY DEF FreeRx
  <2> QED BY <1>0, <2>1, ResourceAssumption DEF Quiet, TypeOK, calm
<1>4. /\ OwnsHeld(p) /\ FlowHeld(p) /\ IpHeld(p)
      /\ (\A c \in steer : c.flow \in Flow) /\ left = {} /\ ~wild /\ astray = {}
  BY <1>3 DEF CalmInv
<1>5. /\ hold[p].flow \in Flow /\ hold[p].base = TRUE
      /\ offset[p][0] = hold[p].flow
      /\ \A m \in CustomOf(p) : \E c \in steer : c.match = m
  BY <1>1, <1>4 DEF FlowHeld, HasFlow
<1>6. 0 \in RelFlow /\ 0 < NumRxFlow[p]
  BY ResourceAssumption DEF RelFlow
<1>8. PICK ok \in BOOLEAN, done \in SUBSET CustomOf(p) :
        /\ Forget(p, 0)
        /\ DeletePolicers(p, 0, done)
        /\ Quiet(ok /\ done = InSwitch(p, 0))
        /\ Give(hold[p].flow, ok /\ hold[p].base /\ (0 = 0 => LastDone(p, done)))
        /\ UNCHANGED wild
  <2>0. ~NotFound(p)
    BY <1>5, <1>6 DEF NotFound
  <2>1. PICK j \in RelFlow :
          /\ IsRel(p, j, hold[p].flow)
          /\ Forget(p, j)
          /\ \/ j >= NumRxFlow[p]
             \/ \E ok \in BOOLEAN, done \in SUBSET CustomOf(p) :
                  /\ DeletePolicers(p, j, done)
                  /\ Quiet(ok /\ done = InSwitch(p, j))
                  /\ Give(hold[p].flow, ok /\ hold[p].base /\ (j = 0 => LastDone(p, done)))
                  /\ UNCHANGED wild
    BY <2>0 DEF FreeRx
  <2>2. j = 0
    BY <1>0, <1>5, <2>1 DEF IsRel, OnlyPrimary
  <2>3. ~(j >= NumRxFlow[p])
    BY <1>6, <2>2, ResourceAssumption
  <2> QED BY <2>1, <2>2, <2>3
<1>9. ok = TRUE /\ done = InSwitch(p, 0)
  <2>1. (ok /\ done = InSwitch(p, 0)) \in BOOLEAN
    OBVIOUS
  <2> QED BY <1>0, <1>8, <2>1, ResourceAssumption DEF Quiet, TypeOK
<1>10. done = CustomOf(p)
  <2>1. \A m \in CustomOf(p) : m \in {c.match : c \in steer}
    BY <1>5
  <2> QED BY <1>9, <2>1 DEF InSwitch, PolicersOf
<1>11. LastDone(p, done)
  <2>1. CASE Policers[p] # <<>>
    <3>1. Policers[p] \in Seq(Custom)
      BY ResourceAssumption
    <3>2. Len(Policers[p]) \in 1..Len(Policers[p])
      BY <2>1, <3>1
    <3> QED BY <1>10, <3>2 DEF LastDone, CustomOf
  <2>2. CASE Policers[p] = <<>>
    BY <2>2 DEF LastDone
  <2> QED BY <2>1, <2>2
<1>12. owner' = [owner EXCEPT ![hold[p].flow] = None]
  <2>1. hold[p].flow # None
    BY <1>5, ResourceAssumption DEF Resource
  <2>2. Give(hold[p].flow, TRUE)
    BY <1>5, <1>8, <1>9, <1>11 DEF Give
  <2> QED BY <2>1, <2>2 DEF Give
<1>13. /\ \A r \in Resource : owner'[r] \in {owner[r], p, None}
       /\ \A r \in Resource : owner'[r] = p => owner[r] = p /\ r # hold[p].flow
  BY <1>0, <1>5, <1>12, ResourceAssumption DEF TypeOK, Resource
<1>14. /\ steer' = {c \in steer : c.match \notin done}
       /\ left' = {}
  BY <1>4, <1>8, <1>10 DEF DeletePolicers, PolicersOf
<1>15. OwnsHeld(p)'
  <2>1. \A r \in Resource : owner'[r] # p
    BY <1>1, <1>4, <1>13 DEF OwnsHeld, HasCh, HasFlow, HasMac
  <2> QED BY <2>1 DEF OwnsHeld
<1>16. FlowHeld(p)' /\ MacHeld(p)'
  BY <1>1 DEF FlowHeld, MacHeld, HasFlow, HasMac
<1>17. IpHeld(p)'
  BY <1>1, <1>2, <1>4, TableKept
<1>18. OthersKept(p)
  <2>1. ASSUME NEW q \in VirtPort \ {p}, NEW m \in CustomOf(q), NEW c \in steer, c.match = m
        PROVE  c \in steer'
    <3>1. m \notin CustomOf(p)
      BY <2>1 DEF Apart
    <3> QED BY <1>10, <1>14, <2>1, <3>1
  <2>2. \A q \in VirtPort \ {p} : \A m \in CustomOf(q) :
          (\E c \in steer : c.match = m) => \E c \in steer' : c.match = m
    BY <2>1
  <2>3. \A q \in VirtPort \ {p} : offset'[q] = offset[q]
    BY <1>0, <1>8 DEF TypeOK, Forget
  <2> QED BY <1>1, <1>2, <1>13, <2>2, <2>3, OthersFrame
<1>19. \A c \in steer' : c.flow \in Flow
  BY <1>4, <1>14
<1>20. ~wild'
  BY <1>4, <1>8
<1>21. astray' = {}
  BY <1>4, <1>5, NoneAstray DEF FreeRx
<1> QED BY <1>3, <1>14, <1>15, <1>16, <1>17, <1>18, <1>19, <1>20, <1>21, CalmStep

-----------------------------------------------------------------------------
(* Nobody holds anything at first.                                         *)
LEMMA CalmInit == Init => CalmInv
<1> SUFFICES ASSUME Init PROVE CalmInv
  OBVIOUS
<1>0. None \notin VirtPort
  BY ResourceAssumption
<1>1. AddressesIn(arp) = {}
  BY DEF Init, ArpInit, AddressesIn
<1>2. ASSUME NEW p \in VirtPort
      PROVE  OwnsHeld(p) /\ FlowHeld(p) /\ MacHeld(p) /\ IpHeld(p)
  <2>1. step[p] = "DOWN" /\ hold[p].ip = None
    BY DEF Init, Nothing
  <2>2. \A r \in Resource : owner[r] # p
    BY <1>0 DEF Init
  <2>3. OwnsHeld(p) /\ FlowHeld(p) /\ MacHeld(p)
    BY <2>1, <2>2 DEF OwnsHeld, FlowHeld, MacHeld, HasFlow, HasMac
  <2>4. IpHeld(p)
    BY <1>1, <2>1 DEF IpHeld, IpRight
  <2> QED BY <2>3, <2>4
<1>3. left = {} /\ ~wild /\ astray = {} /\ (\A c \in steer : c.flow \in Flow)
  BY DEF Init
<1>4. \A p \in config.ext : Policers[p] = <<>>
  BY DEF Init
<1> QED BY <1>2, <1>3, <1>4 DEF CalmInv

(* Every request that does not fail keeps it; a core's restart is a fault. *)
LEMMA CalmNext ==
  ASSUME Apart, FlowInv, CalmInv, [Next]_vars
  PROVE  CalmInv'
<1>1. CASE UNCHANGED vars
  <2>1. ASSUME NEW p \in VirtPort
        PROVE  /\ OwnsHeld(p)' <=> OwnsHeld(p)
               /\ FlowHeld(p)' <=> FlowHeld(p)
               /\ MacHeld(p)' <=> MacHeld(p)
               /\ IpHeld(p)' <=> IpHeld(p)
    <3>1. IpHeld(p)' <=> IpHeld(p)
      <4>1. arp' = arp /\ step' = step /\ hold' = hold
        BY <1>1 DEF vars
      <4> QED BY <4>1, IpHeldNext DEF IpHeld
    <3>2. /\ OwnsHeld(p)' <=> OwnsHeld(p)
          /\ MacHeld(p)' <=> MacHeld(p)
      BY <1>1 DEF vars, OwnsHeld, MacHeld
    <3>3. FlowHeld(p)' <=> FlowHeld(p)
      BY <1>1 DEF vars, FlowHeld, CustomOf
    <3> QED BY <3>1, <3>2, <3>3
  <2> QED BY <1>1, <2>1 DEF vars, CalmInv, calm
<1>2. CASE faults' # 0
  BY <1>2 DEF CalmInv, calm
<1>3. ASSUME NEW p \in VirtPort, Client(p), faults' = 0 PROVE CalmInv'
  <2>1. PICK m : m = RouteMatch(p)
    OBVIOUS
  <2>2. TypeOK /\ ~Restart(p)
    BY <1>3, ResourceAssumption DEF FlowInv, Restart, Quiet, TypeOK
  <2>3. CASE \/ RegisterRxDefault(p) \/ RegisterMac(p) \/ RegMacPortFlow(p)
             \/ DeregisterRxDefault(p) \/ UnregisterMac(p) \/ UnregMacPortFlow(p)
    <3>1. Route(p, m) \/ Unroute(p, m)
      BY <2>1, <2>2, <2>3, OneMatch DEF RegisterRxDefault, RegisterMac,
         RegMacPortFlow, DeregisterRxDefault, UnregisterMac, UnregMacPortFlow
    <3> QED BY <1>3, <2>1, <3>1, RouteCalm, UnrouteCalm
  <2>4. CASE \/ AllocTx(p) \/ AllocRx(p) \/ AllocMac(p) \/ AttachExt(p)
             \/ RegisterIpv4(p) \/ FreeTx(p) \/ DeregisterIpv4(p) \/ FreeMac(p) \/ FreeRx(p)
    BY <1>3, <2>4, AllocTxCalm, AllocRxCalm, AllocMacCalm, AttachExtCalm,
       RegisterIpv4Calm, FreeTxCalm, DeregisterIpv4Calm, FreeMacCalm, FreeRxCalm
  <2> QED BY <1>3, <2>2, <2>3, <2>4 DEF Client
<1> QED BY <1>1, <1>2, <1>3 DEF Next

(* The answers of the table are for the addresses that have an entry.      *)
LEMMA KnownIs == \A ip : Known(ip) <=> ip \in AddressesIn(arp)
BY DEF Known, Holds, AddressesIn

(* While nothing fails and the clients' configurations are apart, every    *)
(* flow can be freed, and a client that went down left nothing behind: no  *)
(* flow, channel, MAC address, classifier or ARP entry.                    *)
THEOREM AllGivenBack == ASSUME Apart PROVE Spec => []GivenBack
<1>1. Init => FlowInv /\ CalmInv
  BY FlowInvInit, CalmInit
<1>2. FlowInv /\ CalmInv /\ [Next]_vars => FlowInv' /\ CalmInv'
  BY FlowInvStep, CalmNext
<1>3. ASSUME FlowInv, CalmInv PROVE GivenBack
  <2> SUFFICES ASSUME calm
               PROVE  FlowsFreeable /\ \A p \in VirtPort : step[p] = "DOWN" => NothingLeft(p)
    BY DEF GivenBack
  <2>1. TypeOK /\ Removable
    BY <1>3 DEF FlowInv
  <2>2. FlowsFreeable
    <3>1. ASSUME NEW f \in Flow, owner[f] # None
          PROVE  \E j \in RelFlow : offset[owner[f]][j] = f
      <4>1. owner[f] \in VirtPort
        BY <2>1, <3>1 DEF TypeOK, Resource
      <4>2. OwnsHeld(owner[f]) /\ FlowHeld(owner[f])
        BY <1>3, <4>1 DEF CalmInv
      <4>3. HasFlow(step[owner[f]]) /\ f = hold[owner[f]].flow
        BY <4>2, ResourceAssumption DEF OwnsHeld, Resource
      <4>4. 0 \in RelFlow
        BY ResourceAssumption DEF RelFlow
      <4> QED BY <4>2, <4>3, <4>4 DEF FlowHeld
    <3> QED BY <1>3, <3>1 DEF FlowsFreeable, CalmInv
  <2>3. ASSUME NEW p \in VirtPort, step[p] = "DOWN" PROVE NothingLeft(p)
    <3>1. /\ OwnsHeld(p) /\ IpHeld(p) /\ left = {} /\ astray = {}
          /\ \A c \in steer : c.flow \in Flow
      BY <1>3 DEF CalmInv
    <3>2. \A r \in Resource : owner[r] # p
      BY <2>3, <3>1 DEF OwnsHeld, HasCh, HasFlow, HasMac
    <3>3. \A c \in steer : c.port # p
      <4>1. \A c \in steer : owner[c.flow] = c.port /\ c.flow \in Resource
        BY <2>1, <3>1 DEF Removable, Right, Resource
      <4> QED BY <3>2, <4>1
    <3>4. p \in SwitchPort => \A ip \in IpOf[p] : ~Known(ip)
      BY <2>3, <3>1, KnownIs DEF IpHeld, IpRight
    <3> QED BY <3>2, <3>3, <3>4 DEF NothingLeft
  <2> QED BY <2>2, <2>3
<1> QED BY <1>1, <1>2, <1>3, PTL DEF Spec

(* While nothing fails and the clients' configurations are apart, an ARP   *)
(* request for a client's address is answered with the MAC address the     *)
(* client was given and still holds.                                       *)
THEOREM AnswersCurrent == ASSUME Apart PROVE Spec => []AnswersReachHolder
<1>1. Init => FlowInv /\ CalmInv
  BY FlowInvInit, CalmInit
<1>2. FlowInv /\ CalmInv /\ [Next]_vars => FlowInv' /\ CalmInv'
  BY FlowInvStep, CalmNext
<1>3. ASSUME CalmInv PROVE AnswersReachHolder
  <2> SUFFICES ASSUME NEW p \in SwitchPort, NEW ip \in IpOf[p], calm, Known(ip)
               PROVE  "mac" \in told[p] /\ Resolve[ip] = hold[p].mac
    BY DEF AnswersReachHolder
  <2>1. p \in VirtPort /\ IpHeld(p) /\ MacHeld(p) /\ ip \in AddressesIn(arp)
    BY <1>3, KnownIs DEF CalmInv, VirtPort
  <2>2. step[p] \in {"UP", "DEREGISTER_IPv4"} /\ Lookup(arp)[ip] = hold[p].mac
    BY <2>1 DEF IpHeld, IpRight
  <2> QED BY <2>1, <2>2, Parts DEF MacHeld, HasMac
<1> QED BY <1>1, <1>2, <1>3, PTL DEF Spec
=============================================================================
