----------------------------- MODULE VepaProofs ------------------------------
(***************************************************************************)
(* Proofs about the software packet duplication, for any clients, shared   *)
(* addresses and VLANs, any size of the table and any width of the count   *)
(* of a client's registrations.                                            *)
(***************************************************************************)
EXTENDS Vepa, FiniteSetTheorems, TLAPS

(* The table and the ports of a key, for any table t, so that they can be  *)
(* used of the table before and after a step.                              *)
HoldsIn(t, i, k) == t[i] # Free /\ t[i].key = k

Good(t) ==
  /\ t \in [Slots -> Entry \cup {Free}]
  /\ \A i, j \in Slots, k \in Key : HoldsIn(t, i, k) /\ HoldsIn(t, j, k) => i = j
  /\ \A i \in Slots : t[i] # Free => t[i].mask # {}

MaskIn(t, k) == {q \in Port : \E i \in Slots : HoldsIn(t, i, k) /\ q \in t[i].mask}

(* Nothing but the ports of key k has changed.                             *)
OnlyAt(k) == \A l \in Key \ {k} : MaskIn(vepa', l) = MaskIn(vepa, l)

(* The invariant of the table is that of its value.                        *)
LEMMA Parts ==
  /\ Good(vepa) <=> vepa \in [Slots -> Entry \cup {Free}] /\ OneEntryEach
  /\ Good(vepa') <=> vepa' \in [Slots -> Entry \cup {Free}] /\ OneEntryEach'
BY DEF Good, OneEntryEach, Holds, HoldsIn

(* A packet finds the ports of the only entry of its key.                  *)
LEMMA MaskIs ==
  ASSUME Good(vepa), NEW k \in Key
  PROVE  MaskOf(k) = MaskIn(vepa, k) /\ (Known(k) <=> MaskIn(vepa, k) # {})
<1>1. \A i \in Slots : i \in Nat /\ \A j \in 1..(i - 1) : j \in Slots /\ j # i
  BY VepaAssumption DEF Slots
<1>2. \A i \in Slots : FirstHolding(i, k) <=> HoldsIn(vepa, i, k)
  BY <1>1 DEF FirstHolding, Holds, HoldsIn, Good
<1>3. \A i \in Slots : vepa[i] # Free => vepa[i].mask \subseteq Port /\ vepa[i].mask # {}
  BY DEF Good, Entry
<1>4. MaskOf(k) = MaskIn(vepa, k)
  <2>1. ASSUME NEW q PROVE q \in MaskOf(k) <=> q \in MaskIn(vepa, k)
    BY <1>2, <1>3 DEF MaskOf, MaskIn, HoldsIn
  <2> QED BY <2>1
<1>5. Known(k) <=> MaskIn(vepa, k) # {}
  BY <1>3 DEF Known, Holds, HoldsIn, MaskIn
<1> QED BY <1>4, <1>5

(* An add keeps the table good and adds the port, unless it is full.       *)
LEMMA AddAddrAdds ==
  ASSUME Good(vepa), NEW p \in Port, NEW k \in Key, AddAddr(p, k)
  PROVE  /\ Good(vepa') /\ OnlyAt(k)
         /\ ~Full(k) => MaskIn(vepa', k) = MaskIn(vepa, k) \cup {p}
<1>1. CASE Full(k) /\ UNCHANGED vepa
  BY <1>1 DEF OnlyAt
<1>2. ASSUME NEW i \in Slots, NEW e \in Entry, e.key = k,
             vepa' = [vepa EXCEPT ![i] = e],
             \/ HoldsIn(vepa, i, k) /\ e.mask = vepa[i].mask \cup {p}
             \/ vepa[i] = Free /\ e.mask = {p} /\ ~Known(k)
      PROVE  Good(vepa') /\ OnlyAt(k) /\ MaskIn(vepa', k) = MaskIn(vepa, k) \cup {p}
  <2>1. e # Free
    BY VepaAssumption
  <2>2. /\ vepa' \in [Slots -> Entry \cup {Free}] /\ vepa'[i] = e
        /\ \A j \in Slots \ {i} : vepa'[j] = vepa[j]
    BY <1>2 DEF Good
  <2>3. \A j \in Slots : HoldsIn(vepa, j, k) => j = i
    BY <1>2 DEF Good, Known, Holds, HoldsIn
  <2>4. vepa[i] # Free => vepa[i].key = k
    BY <1>2 DEF HoldsIn
  <2>5. \A j \in Slots, l \in Key :
          HoldsIn(vepa', j, l) <=> IF j = i THEN l = k ELSE HoldsIn(vepa, j, l)
    BY <1>2, <2>1, <2>2 DEF HoldsIn
  <2>6. Good(vepa')
    <3>1. ASSUME NEW a \in Slots, NEW b \in Slots, NEW l \in Key,
                 HoldsIn(vepa', a, l), HoldsIn(vepa', b, l)
          PROVE  a = b
      BY <2>3, <2>5, <3>1 DEF Good
    <3>2. \A j \in Slots : vepa'[j] # Free => vepa'[j].mask # {}
      BY <1>2, <2>2 DEF Good
    <3> QED BY <2>2, <3>1, <3>2 DEF Good
  <2>7. OnlyAt(k)
    <3>1. ASSUME NEW l \in Key, l # k, NEW j \in Slots
          PROVE  /\ HoldsIn(vepa', j, l) <=> HoldsIn(vepa, j, l)
                 /\ HoldsIn(vepa, j, l) => vepa'[j] = vepa[j]
      BY <2>2, <2>4, <2>5, <3>1 DEF HoldsIn
    <3> QED BY <3>1 DEF OnlyAt, MaskIn
  <2>8. MaskIn(vepa', k) = MaskIn(vepa, k) \cup {p}
    <3>1. \A q : q \in MaskIn(vepa', k) <=> q \in Port /\ q \in e.mask
      BY <2>2, <2>3, <2>5 DEF MaskIn
    <3>2. CASE HoldsIn(vepa, i, k) /\ e.mask = vepa[i].mask \cup {p}
      BY <2>3, <3>1, <3>2 DEF MaskIn
    <3>3. CASE vepa[i] = Free /\ e.mask = {p}
      BY <2>3, <3>1, <3>3 DEF MaskIn, HoldsIn
    <3> QED BY <1>2, <3>2, <3>3
  <2> QED BY <2>6, <2>7, <2>8
<1>3. ASSUME NEW i \in Slots, FirstHolding(i, k),
             vepa' = [vepa EXCEPT ![i].mask = vepa[i].mask \cup {p}]
      PROVE  Good(vepa') /\ OnlyAt(k) /\ MaskIn(vepa', k) = MaskIn(vepa, k) \cup {p}
  <2> DEFINE e == [vepa[i] EXCEPT !.mask = vepa[i].mask \cup {p}]
  <2>1. HoldsIn(vepa, i, k) /\ vepa[i] \in Entry
    BY <1>3 DEF FirstHolding, Holds, HoldsIn, Good
  <2>2. e \in Entry /\ e.key = k /\ e.mask = vepa[i].mask \cup {p}
    BY <2>1 DEF Entry, HoldsIn
  <2>3. vepa' = [vepa EXCEPT ![i] = e]
    BY <1>3
  <2> HIDE DEF e
  <2> QED BY <1>2, <2>1, <2>2, <2>3
<1>4. ASSUME NEW i \in Slots, FirstFree(i), ~Known(k),
             vepa' = [vepa EXCEPT ![i] = [key |-> k, mask |-> {p}]]
      PROVE  Good(vepa') /\ OnlyAt(k) /\ MaskIn(vepa', k) = MaskIn(vepa, k) \cup {p}
  <2> DEFINE e == [key |-> k, mask |-> {p}]
  <2>1. e \in Entry /\ e.key = k /\ e.mask = {p}
    BY DEF Entry
  <2>2. vepa' = [vepa EXCEPT ![i] = e] /\ vepa[i] = Free
    BY <1>4 DEF FirstFree
  <2> HIDE DEF e
  <2> QED BY <1>2, <1>4, <2>1, <2>2
<1> QED BY <1>1, <1>3, <1>4 DEF AddAddr

(* A delete keeps the table good and takes the port out.                   *)
LEMMA DelAddrTakes ==
  ASSUME Good(vepa), NEW p \in Port, NEW k \in Key, DelAddr(p, k)
  PROVE  /\ Good(vepa') /\ OnlyAt(k)
         /\ MaskIn(vepa', k) = MaskIn(vepa, k) \ {p}
<1>1. CASE ~Known(k) /\ UNCHANGED vepa
  <2>1. MaskIn(vepa, k) = {}
    BY <1>1, MaskIs
  <2> QED BY <1>1, <2>1 DEF OnlyAt
<1>2. CASE \E i \in Slots : FirstHolding(i, k) /\ vepa' = [vepa EXCEPT ![i] = Without(vepa[i], p)]
  <2>1. PICK i \in Slots : FirstHolding(i, k) /\ vepa' = [vepa EXCEPT ![i] = Without(vepa[i], p)]
    BY <1>2
  <2>2. /\ HoldsIn(vepa, i, k) /\ vepa[i] \in Entry
        /\ \A j \in Slots : HoldsIn(vepa, j, k) => j = i
    BY <2>1 DEF FirstHolding, Holds, HoldsIn, Good
  <2>3. PICK e \in Entry \cup {Free} :
          /\ vepa' = [vepa EXCEPT ![i] = e]
          /\ \/ e = Free /\ vepa[i].mask \subseteq {p}
             \/ /\ e # Free /\ e.key = k /\ e.mask = vepa[i].mask \ {p}
                /\ e.mask # {}
    <3>1. CASE vepa[i].mask \subseteq {p}
      BY <2>1, <3>1 DEF Without
    <3>2. CASE ~(vepa[i].mask \subseteq {p})
      <4> DEFINE e == [vepa[i] EXCEPT !.mask = vepa[i].mask \ {p}]
      <4>1. e \in Entry /\ e.key = k /\ e.mask = vepa[i].mask \ {p}
        BY <2>2 DEF Entry, HoldsIn
      <4>2. vepa' = [vepa EXCEPT ![i] = e]
        BY <2>1, <3>2 DEF Without
      <4> HIDE DEF e
      <4> QED BY <3>2, <4>1, <4>2, VepaAssumption
    <3> QED BY <3>1, <3>2
  <2>4. /\ vepa' \in [Slots -> Entry \cup {Free}] /\ vepa'[i] = e
        /\ \A j \in Slots \ {i} : vepa'[j] = vepa[j]
    BY <2>3 DEF Good
  <2>5. \A j \in Slots, l \in Key :
          HoldsIn(vepa', j, l) <=> IF j = i THEN e # Free /\ l = k ELSE HoldsIn(vepa, j, l)
    BY <2>3, <2>4 DEF HoldsIn
  <2>6. Good(vepa')
    <3>1. ASSUME NEW a \in Slots, NEW b \in Slots, NEW l \in Key,
                 HoldsIn(vepa', a, l), HoldsIn(vepa', b, l)
          PROVE  a = b
      BY <2>2, <2>5, <3>1 DEF Good
    <3>2. \A j \in Slots : vepa'[j] # Free => vepa'[j].mask # {}
      BY <2>3, <2>4 DEF Good
    <3> QED BY <2>4, <3>1, <3>2 DEF Good
  <2>7. OnlyAt(k)
    <3>1. ASSUME NEW l \in Key, l # k, NEW j \in Slots
          PROVE  /\ HoldsIn(vepa', j, l) <=> HoldsIn(vepa, j, l)
                 /\ HoldsIn(vepa, j, l) => vepa'[j] = vepa[j]
      BY <2>2, <2>4, <2>5, <3>1 DEF HoldsIn
    <3> QED BY <3>1 DEF OnlyAt, MaskIn
  <2>8. MaskIn(vepa', k) = MaskIn(vepa, k) \ {p}
    <3>1. \A q : q \in MaskIn(vepa', k) <=> q \in Port /\ e # Free /\ q \in e.mask
      BY <2>2, <2>4, <2>5 DEF MaskIn
    <3>2. \A q : q \in MaskIn(vepa, k) <=> q \in Port /\ q \in vepa[i].mask
      BY <2>2 DEF MaskIn
    <3> QED BY <2>3, <3>1, <3>2
  <2> QED BY <2>6, <2>7, <2>8
<1> QED BY <1>1, <1>2 DEF DelAddr

-----------------------------------------------------------------------------
Untagged == <<Bcast, NoVlan>>

(* The subscriptions to a shared address, each with its port.              *)
Holders(m) == {x \in Port \X (Vlan \cup {NoVlan}) : <<m, x[2]>> \in granted[x[1]]}

(* While all goes well a shared address is copied to its subscribers, it   *)
(* is referenced once for each, and brought to the duplication flow ...    *)
McastCalm ==
  /\ \A m \in Shared, v \in Vlan \cup {NoVlan} :
       MaskIn(vepa, <<m, v>>) = {p \in Port : <<m, v>> \in granted[p]}
  /\ \A m \in Shared : /\ IsFiniteSet(Holders(m))
                       /\ refCnt[m] = Cardinality(Holders(m))
                       /\ refCnt[m] > 0 => m \in duplicated

(* ... a broadcast of a VLAN to the ports in it ...                        *)
VlanCalm == \A v \in Vlan : MaskIn(vepa, <<Bcast, v>>) = active[v]

(* ... and any other to the clients that are registered, each of them in   *)
(* every place of the switch and counted once.                             *)
ClientCalm ==
  /\ MaskIn(vepa, Untagged) = registered
  /\ Bcast \in duplicated <=> registered # {}
  /\ private = registered /\ macSet = registered /\ route = registered
  /\ \A p \in Port : vlanRefCnt[p] = IF p \in registered THEN 1 ELSE 0

(* What makes CopiesReachReceivers and NothingLeft inductive.              *)
CalmInv == calm => McastCalm /\ VlanCalm /\ ClientCalm

(* The keys of the table.                                                  *)
LEMMA Keys ==
  /\ Untagged \in Key
  /\ \A v \in Vlan : <<Bcast, v>> \in Key /\ <<Bcast, v>> # Untagged
  /\ \A m \in Shared, v \in Vlan \cup {NoVlan} :
       /\ <<m, v>> \in Key /\ <<m, v>> # Untagged
       /\ \A w \in Vlan : <<m, v>> # <<Bcast, w>>
BY VepaAssumption DEF Untagged, Key, Addr

(* A change of another key leaves the shared addresses alone ...           *)
LEMMA McastFrame ==
  ASSUME McastCalm, NEW k, \A m \in Shared, v \in Vlan \cup {NoVlan} : k # <<m, v>>,
         OnlyAt(k), granted' = granted, refCnt' = refCnt,
         \A m \in Shared : m \in duplicated => m \in duplicated'
  PROVE  McastCalm'
<1>1. \A m \in Shared, v \in Vlan \cup {NoVlan} :
        MaskIn(vepa', <<m, v>>) = MaskIn(vepa, <<m, v>>)
  BY Keys DEF OnlyAt
<1>2. \A m \in Shared : Holders(m)' = Holders(m)
  BY DEF Holders
<1> QED BY <1>1, <1>2 DEF McastCalm

(* ... and so it does with the VLANs ...                                   *)
LEMMA VlanFrame ==
  ASSUME VlanCalm, NEW k, \A v \in Vlan : k # <<Bcast, v>>,
         OnlyAt(k), active' = active
  PROVE  VlanCalm'
BY Keys DEF VlanCalm, OnlyAt

(* ... and with the registered clients.                                    *)
LEMMA ClientFrame ==
  ASSUME ClientCalm, NEW k, k # Untagged, OnlyAt(k),
         Bcast \in duplicated' <=> Bcast \in duplicated,
         UNCHANGED <<private, macSet, route, registered, vlanRefCnt>>
  PROVE  ClientCalm'
BY Keys DEF ClientCalm, OnlyAt

(* A client is registered everywhere, or some of it failed.                *)
LEMMA RegisterMacStep ==
  ASSUME VepaInv, CalmInv, NEW p \in Port, RegisterMac(p)
  PROVE  VepaInv' /\ CalmInv'
<1>0. TypeOK /\ Good(vepa) /\ MaxTrouble \in Nat
  BY Parts, VepaAssumption DEF VepaInv, TypeOK
<1>1. UNCHANGED <<dupFlow, refCnt, active, granted>>
  BY DEF RegisterMac
<1>2. PICK routeOk \in BOOLEAN, vlanOk \in BOOLEAN, bcastOk \in BOOLEAN :
        LET first == vlanRefCnt[p] = 0
            ok == routeOk /\ (first => vlanOk)
        IN  /\ route' = IF routeOk THEN route \cup {p} ELSE route
            /\ IF routeOk /\ first
               THEN RegisterClient(p, vlanOk, bcastOk)
               ELSE UNCHANGED <<private, macSet, duplicated, vepa>>
            /\ vlanRefCnt' = IF ok THEN [vlanRefCnt EXCEPT ![p] = NextCount(vlanRefCnt[p])]
                                   ELSE vlanRefCnt
            /\ registered' = IF ok THEN registered \cup {p} ELSE registered
            /\ Note(p \notin registered /\ ok /\ bcastOk /\ ~Full(Untagged))
  BY DEF RegisterMac, Untagged
<1>3. PICK ok \in BOOLEAN :
        /\ ok <=> routeOk /\ (vlanRefCnt[p] = 0 => vlanOk)
        /\ vlanRefCnt' = IF ok THEN [vlanRefCnt EXCEPT ![p] = NextCount(vlanRefCnt[p])]
                               ELSE vlanRefCnt
        /\ registered' = IF ok THEN registered \cup {p} ELSE registered
        /\ Note(p \notin registered /\ ok /\ bcastOk /\ ~Full(Untagged))
  BY <1>2
<1>4. /\ trouble' \in 0..MaxTrouble
      /\ trouble' = 0 => calm /\ p \notin registered /\ ok /\ bcastOk /\ ~Full(Untagged)
  BY <1>0, <1>3 DEF Note, TypeOK, calm
<1>5. \/ UNCHANGED <<private, macSet, duplicated, vepa>>
      \/ /\ private' = private \cup {p} /\ macSet' = macSet \cup {p}
         /\ duplicated' \in {duplicated, duplicated \cup {Bcast}}
         /\ AddAddr(p, Untagged)
  BY <1>2 DEF RegisterClient, SetBcastPolicer, Untagged
<1>6. Good(vepa') /\ OnlyAt(Untagged)
  <2>1. CASE vepa' = vepa
    BY <1>0, <2>1 DEF OnlyAt
  <2>2. CASE AddAddr(p, Untagged)
    BY <1>0, <2>2, Keys, AddAddrAdds
  <2> QED BY <1>5, <2>1, <2>2
<1>7. vlanRefCnt' \in [Port -> 0..(2^Width - 1)]
  <2>1. vlanRefCnt[p] \in 0..(2^Width - 1)
    BY <1>0 DEF TypeOK
  <2>2. NextCount(vlanRefCnt[p]) \in 0..(2^Width - 1)
    BY <2>1, VepaAssumption DEF NextCount
  <2> QED BY <1>0, <1>3, <2>2 DEF TypeOK
<1>8. VepaInv'
  <2>1. /\ duplicated' \subseteq Addr /\ private' \subseteq Port /\ macSet' \subseteq Port
        /\ route' \subseteq Port /\ registered' \subseteq Port
    BY <1>0, <1>2, <1>3, <1>5 DEF TypeOK, Addr
  <2>2. DuplicatedInUse'
    BY <1>1, <1>5, VepaAssumption DEF VepaInv, DuplicatedInUse
  <2>3. TypeOK'
    BY <1>0, <1>1, <1>4, <1>6, <1>7, <2>1, Parts DEF TypeOK
  <2> QED BY <1>6, <2>2, <2>3, Parts DEF VepaInv
<1>9. ASSUME trouble' = 0 PROVE McastCalm' /\ VlanCalm' /\ ClientCalm'
  <2>1. /\ McastCalm /\ VlanCalm /\ ClientCalm
        /\ p \notin registered /\ ok /\ bcastOk /\ ~Full(Untagged)
    BY <1>4, <1>9 DEF CalmInv
  <2>2. vlanRefCnt[p] = 0 /\ routeOk /\ vlanOk
    BY <1>3, <2>1 DEF ClientCalm
  <2>3. RegisterClient(p, TRUE, TRUE)
    BY <1>2, <2>1, <2>2
  <2>4. /\ private' = private \cup {p} /\ macSet' = macSet \cup {p}
        /\ duplicated' = IF ~Known(Untagged) THEN duplicated \cup {Bcast} ELSE duplicated
        /\ AddAddr(p, Untagged)
    BY <2>3 DEF RegisterClient, SetBcastPolicer, Untagged
  <2>5. MaskIn(vepa', Untagged) = registered \cup {p} /\ (Known(Untagged) <=> registered # {})
    BY <1>0, <2>1, <2>4, Keys, AddAddrAdds, MaskIs DEF ClientCalm
  <2>6. McastCalm'
    BY <1>1, <1>6, <2>1, <2>4, Keys, McastFrame
  <2>7. VlanCalm'
    BY <1>1, <1>6, <2>1, Keys, VlanFrame
  <2>8. route' = route \cup {p} /\ registered' = registered \cup {p}
    BY <1>2, <1>3, <2>1, <2>2
  <2>9. vlanRefCnt' = [vlanRefCnt EXCEPT ![p] = 1]
    <3>1. NextCount(vlanRefCnt[p]) = 1
      BY <2>2, VepaAssumption DEF NextCount
    <3> QED BY <1>3, <2>1, <3>1
  <2>10. Bcast \in duplicated'
    BY <2>1, <2>4, <2>5 DEF ClientCalm
  <2>11. \A q \in Port : vlanRefCnt'[q] = IF q \in registered' THEN 1 ELSE 0
    BY <1>0, <2>1, <2>8, <2>9 DEF ClientCalm, TypeOK
  <2>12. ClientCalm'
    BY <2>1, <2>4, <2>5, <2>8, <2>10, <2>11 DEF ClientCalm
  <2> QED BY <2>6, <2>7, <2>12
<1> QED BY <1>8, <1>9 DEF CalmInv, calm

(* A client is taken out everywhere, or some of it failed.                 *)
LEMMA UnregisterMacStep ==
  ASSUME VepaInv, CalmInv, NEW p \in Port, UnregisterMac(p)
  PROVE  VepaInv' /\ CalmInv'
<1>0. TypeOK /\ Good(vepa) /\ MaxTrouble \in Nat
  BY Parts, VepaAssumption DEF VepaInv, TypeOK
<1>1. UNCHANGED <<dupFlow, refCnt, active, granted>>
  BY DEF UnregisterMac
<1>2. PICK routeOk \in BOOLEAN, vlanOk \in BOOLEAN, bcastOk \in BOOLEAN,
           n \in {(vlanRefCnt[p] + 2^Width - 1) % 2^Width} :
        /\ n = (vlanRefCnt[p] + 2^Width - 1) % 2^Width
        /\ routeOk => p \in route
        /\ vlanOk => p \in private
        /\ route' = IF routeOk THEN route \ {p} ELSE route
        /\ vlanRefCnt' = IF routeOk THEN [vlanRefCnt EXCEPT ![p] = n] ELSE vlanRefCnt
        /\ IF routeOk /\ n = 0
           THEN UnregisterClient(p, vlanOk, bcastOk)
           ELSE UNCHANGED <<private, macSet, duplicated, vepa>>
        /\ registered' = IF routeOk /\ (n = 0 => Unregistered(p, vlanOk, bcastOk))
                         THEN registered \ {p} ELSE registered
        /\ Note(p \in registered /\ routeOk /\ vlanOk /\ bcastOk)
  BY DEF UnregisterMac
<1>3. n \in 0..(2^Width - 1)
  <2>1. vlanRefCnt[p] \in 0..(2^Width - 1)
    BY <1>0 DEF TypeOK
  <2> QED BY <1>2, <2>1, VepaAssumption
<1>4. /\ trouble' \in 0..MaxTrouble
      /\ trouble' = 0 => calm /\ p \in registered /\ routeOk /\ vlanOk /\ bcastOk
  BY <1>0, <1>2 DEF Note, TypeOK, calm
<1>5. \/ UNCHANGED <<private, macSet, duplicated, vepa>>
      \/ /\ private' = private \ {p} /\ macSet' = macSet \ {p}
         /\ duplicated' \in {duplicated, duplicated \ {Bcast}}
         /\ DelAddr(p, Untagged)
  BY <1>2 DEF UnregisterClient, Untagged
<1>6. Good(vepa') /\ OnlyAt(Untagged)
  <2>1. CASE vepa' = vepa
    BY <1>0, <2>1 DEF OnlyAt
  <2>2. CASE DelAddr(p, Untagged)
    BY <1>0, <2>2, Keys, DelAddrTakes
  <2> QED BY <1>5, <2>1, <2>2
<1>7. vlanRefCnt' \in [Port -> 0..(2^Width - 1)]
  BY <1>0, <1>2, <1>3 DEF TypeOK
<1>8. VepaInv'
  <2>1. /\ duplicated' \subseteq Addr /\ private' \subseteq Port /\ macSet' \subseteq Port
        /\ route' \subseteq Port /\ registered' \subseteq Port
    BY <1>0, <1>2, <1>5 DEF TypeOK, Addr
  <2>2. DuplicatedInUse'
    BY <1>1, <1>5 DEF VepaInv, DuplicatedInUse
  <2>3. TypeOK'
    BY <1>0, <1>1, <1>4, <1>6, <1>7, <2>1, Parts DEF TypeOK
  <2> QED BY <1>6, <2>2, <2>3, Parts DEF VepaInv
<1>9. ASSUME trouble' = 0 PROVE McastCalm' /\ VlanCalm' /\ ClientCalm'
  <2>1. /\ McastCalm /\ VlanCalm /\ ClientCalm
        /\ p \in registered /\ routeOk /\ vlanOk /\ bcastOk
    BY <1>4, <1>9 DEF CalmInv
  <2>2. vlanRefCnt[p] = 1
    BY <2>1 DEF ClientCalm
  <2>3. n = 0
    BY <1>2, <2>2, VepaAssumption
  <2>4. UnregisterClient(p, TRUE, TRUE)
    BY <1>2, <2>1, <2>3
  <2>5. /\ private' = private \ {p} /\ macSet' = macSet \ {p}
        /\ duplicated' = IF LastHolder(p, Untagged) THEN duplicated \ {Bcast} ELSE duplicated
        /\ DelAddr(p, Untagged)
    BY <2>4 DEF UnregisterClient, Untagged
  <2>6. MaskIn(vepa', Untagged) = registered \ {p} /\ MaskOf(Untagged) = registered
    BY <1>0, <2>1, <2>5, Keys, DelAddrTakes, MaskIs DEF ClientCalm
  <2>7. McastCalm'
    <3>1. \A m \in Shared : m \in duplicated => m \in duplicated'
      BY <2>5, VepaAssumption
    <3> QED BY <1>1, <1>6, <2>1, <3>1, Keys, McastFrame
  <2>8. VlanCalm'
    BY <1>1, <1>6, <2>1, Keys, VlanFrame
  <2>9. route' = route \ {p} /\ registered' = registered \ {p}
    BY <1>2, <2>1 DEF Unregistered
  <2>10. vlanRefCnt' = [vlanRefCnt EXCEPT ![p] = 0]
    BY <1>2, <2>1, <2>3
  <2>11. Bcast \in duplicated' <=> registered' # {}
    <3>1. registered \subseteq {p} <=> registered' = {}
      BY <2>9
    <3> QED BY <2>1, <2>5, <2>6, <3>1 DEF ClientCalm, LastHolder
  <2>12. \A q \in Port : vlanRefCnt'[q] = IF q \in registered' THEN 1 ELSE 0
    BY <1>0, <2>1, <2>9, <2>10 DEF ClientCalm, TypeOK
  <2>13. ClientCalm'
    BY <2>1, <2>5, <2>6, <2>9, <2>11, <2>12 DEF ClientCalm
  <2> QED BY <2>7, <2>8, <2>13
<1> QED BY <1>8, <1>9 DEF CalmInv, calm

(* A port is added to the copies of a shared address and counted, or       *)
(* the switch refused it and nothing has changed.                          *)
LEMMA FilterAddMacStep ==
  ASSUME VepaInv, CalmInv, NEW p \in Port, NEW m \in Shared, NEW v \in Vlan \cup {NoVlan},
         FilterAddMac(p, m, v)
  PROVE  VepaInv' /\ CalmInv'
<1> DEFINE k == <<m, v>>
<1>0. TypeOK /\ Good(vepa) /\ MaxTrouble \in Nat /\ MaxRef \in Nat /\ k \in Key
  BY Parts, Keys, VepaAssumption DEF VepaInv, TypeOK
<1>1. /\ UNCHANGED <<dupFlow, private, macSet, vlanRefCnt, route, active, registered>>
      /\ refCnt[m] < MaxRef
  BY DEF FilterAddMac
<1>2. PICK ok \in BOOLEAN :
        /\ IF ok
           THEN /\ refCnt' = [refCnt EXCEPT ![m] = refCnt[m] + 1]
                /\ duplicated' = IF refCnt[m] = 0 THEN duplicated \cup {m} ELSE duplicated
                /\ AddAddr(p, k)
                /\ granted' = [granted EXCEPT ![p] = granted[p] \cup {k}]
           ELSE UNCHANGED <<refCnt, duplicated, vepa, granted>>
        /\ Note(ok /\ k \notin granted[p] /\ ~Full(k))
  BY DEF FilterAddMac
<1> HIDE DEF k
<1>3. /\ trouble' \in 0..MaxTrouble
      /\ trouble' = 0 => calm /\ ok /\ k \notin granted[p] /\ ~Full(k)
  BY <1>0, <1>2 DEF Note, TypeOK, calm
<1>4. Good(vepa') /\ OnlyAt(k)
  <2>1. CASE vepa' = vepa
    BY <1>0, <2>1 DEF OnlyAt
  <2>2. CASE AddAddr(p, k)
    BY <1>0, <2>2, AddAddrAdds
  <2> QED BY <1>2, <2>1, <2>2
<1>5. VepaInv'
  <2>1. refCnt[m] \in 0..MaxRef
    BY <1>0 DEF TypeOK
  <2>2. refCnt' \in [Shared -> 0..MaxRef]
    BY <1>0, <1>1, <1>2, <2>1 DEF TypeOK
  <2>3. duplicated' \subseteq Addr
    BY <1>0, <1>2 DEF TypeOK, Addr
  <2>4. k \in Shared \X (Vlan \cup {NoVlan})
    BY DEF k
  <2>5. granted' \in [Port -> SUBSET (Shared \X (Vlan \cup {NoVlan}))]
    BY <1>0, <1>2, <2>4 DEF TypeOK
  <2>6. TypeOK'
    BY <1>0, <1>1, <1>3, <1>4, <2>2, <2>3, <2>5, Parts DEF TypeOK
  <2>7. DuplicatedInUse'
    BY <1>0, <1>2, <2>1 DEF VepaInv, DuplicatedInUse, TypeOK
  <2> QED BY <1>4, <2>6, <2>7, Parts DEF VepaInv
<1>6. ASSUME trouble' = 0 PROVE McastCalm' /\ VlanCalm' /\ ClientCalm'
  <2>1. /\ McastCalm /\ VlanCalm /\ ClientCalm
        /\ ok /\ k \notin granted[p] /\ ~Full(k)
    BY <1>3, <1>6 DEF CalmInv
  <2>2. /\ refCnt' = [refCnt EXCEPT ![m] = refCnt[m] + 1]
        /\ duplicated' = IF refCnt[m] = 0 THEN duplicated \cup {m} ELSE duplicated
        /\ AddAddr(p, k)
        /\ granted' = [granted EXCEPT ![p] = granted[p] \cup {k}]
    BY <1>2, <2>1
  <2>2a. duplicated \subseteq duplicated' /\ m \in duplicated'
    <3>1. refCnt[m] > 0 => m \in duplicated
      BY <2>1 DEF McastCalm
    <3>2. refCnt[m] \in 0..MaxRef
      BY <1>0 DEF TypeOK
    <3> QED BY <1>0, <2>2, <3>1, <3>2
  <2>3. MaskIn(vepa', k) = MaskIn(vepa, k) \cup {p}
    BY <1>0, <2>1, <2>2, AddAddrAdds
  <2>4. \A q \in Port : granted'[q] = IF q = p THEN granted[p] \cup {k} ELSE granted[q]
    BY <1>0, <2>2 DEF TypeOK
  <2>5. ASSUME NEW n \in Shared, NEW w \in Vlan \cup {NoVlan}
        PROVE  MaskIn(vepa', <<n, w>>) = {q \in Port : <<n, w>> \in granted'[q]}
    <3>1. MaskIn(vepa, <<n, w>>) = {q \in Port : <<n, w>> \in granted[q]}
      BY <2>1 DEF McastCalm
    <3>2. CASE <<n, w>> = k
      BY <2>3, <2>4, <3>1, <3>2
    <3>3. CASE <<n, w>> # k
      <4>1. MaskIn(vepa', <<n, w>>) = MaskIn(vepa, <<n, w>>)
        BY <1>4, <3>3, Keys DEF OnlyAt
      <4> QED BY <2>4, <3>1, <3>3, <4>1
    <3> QED BY <3>2, <3>3
  <2>6. ASSUME NEW n \in Shared
        PROVE  /\ IsFiniteSet(Holders(n)')
               /\ refCnt'[n] = Cardinality(Holders(n)')
               /\ refCnt'[n] > 0 => n \in duplicated'
    <3>0. /\ IsFiniteSet(Holders(n)) /\ refCnt[n] = Cardinality(Holders(n))
          /\ refCnt[n] > 0 => n \in duplicated
      BY <2>1 DEF McastCalm
    <3>1. CASE n = m
      <4>1. Holders(n)' = Holders(n) \cup {<<p, v>>}
        BY <2>4, <3>1 DEF Holders, k
      <4>2. <<p, v>> \notin Holders(n)
        BY <2>1, <3>1 DEF Holders, k
      <4>3. /\ IsFiniteSet(Holders(n) \cup {<<p, v>>})
            /\ Cardinality(Holders(n) \cup {<<p, v>>}) = Cardinality(Holders(n)) + 1
        BY <3>0, <4>2, FS_AddElement
      <4>4. refCnt'[n] = refCnt[n] + 1
        BY <1>0, <2>2, <3>1 DEF TypeOK
      <4> QED BY <2>2a, <3>0, <3>1, <4>1, <4>3, <4>4
    <3>2. CASE n # m
      <4>1. \A w : <<n, w>> # k
        BY <3>2 DEF k
      <4>2. Holders(n)' = Holders(n)
        BY <2>4, <4>1 DEF Holders
      <4>3. refCnt'[n] = refCnt[n]
        BY <1>0, <2>2, <3>2 DEF TypeOK
      <4> QED BY <2>2a, <3>0, <4>2, <4>3
    <3> QED BY <3>1, <3>2
  <2>7. McastCalm'
    BY <2>5, <2>6 DEF McastCalm
  <2>8. VlanCalm'
    BY <1>1, <1>4, <2>1, Keys, VlanFrame DEF k
  <2>9. ClientCalm'
    <3>1. Bcast \in duplicated' <=> Bcast \in duplicated
      BY <2>2, VepaAssumption
    <3> QED BY <1>1, <1>4, <2>1, <3>1, Keys, ClientFrame DEF k
  <2> QED BY <2>7, <2>8, <2>9
<1> QED BY <1>5, <1>6 DEF CalmInv, calm

(* A port is taken out of the copies of a shared address; its reference    *)
(* goes too, and with the last one the policer, unless some of it failed.  *)
LEMMA FilterDelMacStep ==
  ASSUME VepaInv, CalmInv, NEW p \in Port, NEW m \in Shared, NEW v \in Vlan \cup {NoVlan},
         FilterDelMac(p, m, v)
  PROVE  VepaInv' /\ CalmInv'
<1> DEFINE k == <<m, v>>
<1>0. TypeOK /\ Good(vepa) /\ MaxTrouble \in Nat /\ MaxRef \in Nat /\ k \in Key
  BY Parts, Keys, VepaAssumption DEF VepaInv, TypeOK
<1>1. /\ UNCHANGED <<dupFlow, private, macSet, vlanRefCnt, route, active, registered>>
      /\ DelAddr(p, k)
  BY DEF FilterDelMac
<1>2. PICK polOk \in BOOLEAN, ok \in BOOLEAN :
        /\ ok => Known(k) /\ refCnt[m] # 0 /\ (refCnt[m] = 1 => polOk)
        /\ duplicated' = IF refCnt[m] = 1 /\ polOk THEN duplicated \ {m} ELSE duplicated
        /\ refCnt' = IF ok THEN [refCnt EXCEPT ![m] = refCnt[m] - 1] ELSE refCnt
        /\ granted' = IF ok THEN [granted EXCEPT ![p] = granted[p] \ {k}] ELSE granted
        /\ trouble' \in 0..MaxTrouble
        /\ trouble' = 0 => calm /\ ok /\ k \in granted[p]
  <2>1. CASE Known(k)
    <3>1. PICK polOk \in BOOLEAN, aleOk \in BOOLEAN :
            LET ok == refCnt[m] # 0 /\ (IsLast(refCnt[m]) => polOk /\ aleOk)
            IN  /\ duplicated' = IF IsLast(refCnt[m]) /\ polOk THEN duplicated \ {m} ELSE duplicated
                /\ refCnt' = IF ok THEN [refCnt EXCEPT ![m] = refCnt[m] - 1] ELSE refCnt
                /\ granted' = IF ok THEN [granted EXCEPT ![p] = granted[p] \ {k}] ELSE granted
                /\ Note(ok /\ polOk /\ aleOk /\ k \in granted[p])
      BY <2>1 DEF FilterDelMac, DelMacShared
    <3> HIDE DEF k
    <3>2. PICK ok \in BOOLEAN :
            /\ ok <=> refCnt[m] # 0 /\ (IsLast(refCnt[m]) => polOk /\ aleOk)
            /\ refCnt' = IF ok THEN [refCnt EXCEPT ![m] = refCnt[m] - 1] ELSE refCnt
            /\ granted' = IF ok THEN [granted EXCEPT ![p] = granted[p] \ {k}] ELSE granted
            /\ Note(ok /\ polOk /\ aleOk /\ k \in granted[p])
      BY <3>1
    <3>3. /\ trouble' \in 0..MaxTrouble
          /\ trouble' = 0 => calm /\ ok /\ k \in granted[p]
      BY <1>0, <3>2 DEF Note, TypeOK, calm
    <3>4. duplicated' = IF refCnt[m] = 1 /\ polOk THEN duplicated \ {m} ELSE duplicated
      BY <3>1 DEF IsLast
    <3>5. ok => refCnt[m] # 0 /\ (refCnt[m] = 1 => polOk)
      BY <3>2 DEF IsLast
    <3> QED BY <2>1, <3>2, <3>3, <3>4, <3>5
  <2>2. CASE ~Known(k)
    <3>1. Note(FALSE) /\ UNCHANGED <<duplicated, refCnt, granted>>
      BY <2>2 DEF FilterDelMac
    <3>2. trouble' \in 0..MaxTrouble /\ trouble' # 0
      BY <1>0, <3>1 DEF Note, TypeOK
    <3> QED BY <3>1, <3>2
  <2> QED BY <2>1, <2>2
<1> HIDE DEF k
<1>3. Good(vepa') /\ OnlyAt(k) /\ MaskIn(vepa', k) = MaskIn(vepa, k) \ {p}
  BY <1>0, <1>1, DelAddrTakes
<1>4. VepaInv'
  <2>1. refCnt[m] \in 0..MaxRef
    BY <1>0 DEF TypeOK
  <2>2. ok => refCnt[m] - 1 \in 0..MaxRef
    BY <1>0, <1>2, <2>1
  <2>3. refCnt' \in [Shared -> 0..MaxRef]
    BY <1>0, <1>2, <2>2 DEF TypeOK
  <2>4. duplicated' \subseteq Addr
    BY <1>0, <1>2 DEF TypeOK
  <2>5. granted' \in [Port -> SUBSET (Shared \X (Vlan \cup {NoVlan}))]
    BY <1>0, <1>2 DEF TypeOK
  <2>6. TypeOK'
    BY <1>0, <1>1, <1>2, <1>3, <2>3, <2>4, <2>5, Parts DEF TypeOK
  <2>7. DuplicatedInUse'
    <3>1. ASSUME NEW n \in Shared, n \in duplicated' PROVE refCnt'[n] > 0
      <4>1. refCnt[n] > 0 /\ refCnt[n] \in 0..MaxRef
        BY <1>0, <1>2, <3>1 DEF VepaInv, DuplicatedInUse, TypeOK
      <4>2. CASE n = m /\ ok
        <5>1. refCnt[m] # 1
          BY <1>2, <3>1, <4>2
        <5>2. refCnt'[n] = refCnt[n] - 1
          BY <1>0, <1>2, <4>2 DEF TypeOK
        <5> QED BY <4>1, <4>2, <5>1, <5>2
      <4>3. CASE ~(n = m /\ ok)
        <5>1. refCnt'[n] = refCnt[n]
          BY <1>0, <1>2, <4>3 DEF TypeOK
        <5> QED BY <4>1, <5>1
      <4> QED BY <4>2, <4>3
    <3> QED BY <3>1 DEF DuplicatedInUse
  <2> QED BY <1>3, <2>6, <2>7, Parts DEF VepaInv
<1>5. ASSUME trouble' = 0 PROVE McastCalm' /\ VlanCalm' /\ ClientCalm'
  <2>1. McastCalm /\ VlanCalm /\ ClientCalm /\ ok /\ k \in granted[p]
    BY <1>2, <1>5 DEF CalmInv
  <2>2. /\ refCnt' = [refCnt EXCEPT ![m] = refCnt[m] - 1]
        /\ granted' = [granted EXCEPT ![p] = granted[p] \ {k}]
    BY <1>2, <2>1
  <2>3. \A q \in Port : granted'[q] = IF q = p THEN granted[p] \ {k} ELSE granted[q]
    BY <1>0, <2>2 DEF TypeOK
  <2>4. ASSUME NEW n \in Shared, NEW w \in Vlan \cup {NoVlan}
        PROVE  MaskIn(vepa', <<n, w>>) = {q \in Port : <<n, w>> \in granted'[q]}
    <3>1. MaskIn(vepa, <<n, w>>) = {q \in Port : <<n, w>> \in granted[q]}
      BY <2>1 DEF McastCalm
    <3>2. CASE <<n, w>> = k
      BY <1>3, <2>3, <3>1, <3>2
    <3>3. CASE <<n, w>> # k
      <4>1. MaskIn(vepa', <<n, w>>) = MaskIn(vepa, <<n, w>>)
        BY <1>3, <3>3, Keys DEF OnlyAt
      <4> QED BY <2>3, <3>1, <3>3, <4>1
    <3> QED BY <3>2, <3>3
  <2>5. ASSUME NEW n \in Shared
        PROVE  /\ IsFiniteSet(Holders(n)')
               /\ refCnt'[n] = Cardinality(Holders(n)')
               /\ refCnt'[n] > 0 => n \in duplicated'
    <3>0. /\ IsFiniteSet(Holders(n)) /\ refCnt[n] = Cardinality(Holders(n))
          /\ refCnt[n] > 0 => n \in duplicated
          /\ refCnt[n] \in 0..MaxRef
      BY <1>0, <2>1 DEF McastCalm, TypeOK
    <3>1. CASE n = m
      <4>1. Holders(n)' = Holders(n) \ {<<p, v>>}
        BY <2>3, <3>1 DEF Holders, k
      <4>2. <<p, v>> \in Holders(n)
        BY <2>1, <3>1 DEF Holders, k
      <4>3. /\ IsFiniteSet(Holders(n) \ {<<p, v>>})
            /\ Cardinality(Holders(n) \ {<<p, v>>}) = Cardinality(Holders(n)) - 1
        BY <3>0, <4>2, FS_RemoveElement
      <4>4. refCnt'[n] = refCnt[n] - 1
        BY <1>0, <2>2, <3>1 DEF TypeOK
      <4>5. refCnt'[n] > 0 => n \in duplicated'
        BY <1>2, <3>0, <3>1, <4>4
      <4> QED BY <3>0, <4>1, <4>3, <4>4, <4>5
    <3>2. CASE n # m
      <4>1. \A w : <<n, w>> # k
        BY <3>2 DEF k
      <4>2. Holders(n)' = Holders(n)
        BY <2>3, <4>1 DEF Holders
      <4>3. refCnt'[n] = refCnt[n]
        BY <1>0, <2>2, <3>2 DEF TypeOK
      <4>4. n \in duplicated => n \in duplicated'
        BY <1>2, <3>2
      <4> QED BY <3>0, <4>2, <4>3, <4>4
    <3> QED BY <3>1, <3>2
  <2>6. McastCalm'
    BY <2>4, <2>5 DEF McastCalm
  <2>7. VlanCalm'
    BY <1>1, <1>3, <2>1, Keys, VlanFrame DEF k
  <2>8. ClientCalm'
    <3>1. Bcast \in duplicated' <=> Bcast \in duplicated
      BY <1>2, VepaAssumption
    <3> QED BY <1>1, <1>3, <2>1, <3>1, Keys, ClientFrame DEF k
  <2> QED BY <2>6, <2>7, <2>8
<1> QED BY <1>4, <1>5 DEF CalmInv, calm

(* A port that joins a VLAN gets the copies of its broadcasts ...          *)
LEMMA JoinStep ==
  ASSUME VepaInv, CalmInv, NEW p \in Port, NEW v \in Vlan, Join(p, v)
  PROVE  VepaInv' /\ CalmInv'
<1> DEFINE k == <<Bcast, v>>
<1>0. TypeOK /\ Good(vepa) /\ MaxTrouble \in Nat /\ k \in Key
  BY Parts, Keys, VepaAssumption DEF VepaInv, TypeOK
<1>1. UNCHANGED <<dupFlow, refCnt, duplicated, private, macSet, vlanRefCnt, route, registered,
                  granted>>
  BY DEF Join
<1>2. PICK ok \in BOOLEAN :
        /\ IF ok THEN /\ active' = [active EXCEPT ![v] = active[v] \cup {p}]
                      /\ AddAddr(p, k)
                 ELSE UNCHANGED <<active, vepa>>
        /\ Note(ok /\ ~Full(k))
  BY DEF Join
<1> HIDE DEF k
<1>3. trouble' \in 0..MaxTrouble /\ (trouble' = 0 => calm /\ ok /\ ~Full(k))
  BY <1>0, <1>2 DEF Note, TypeOK, calm
<1>4. Good(vepa') /\ OnlyAt(k)
  <2>1. CASE vepa' = vepa
    BY <1>0, <2>1 DEF OnlyAt
  <2>2. CASE AddAddr(p, k)
    BY <1>0, <2>2, AddAddrAdds
  <2> QED BY <1>2, <2>1, <2>2
<1>5. VepaInv'
  <2>1. active' \in [Vlan -> SUBSET Port]
    BY <1>0, <1>2 DEF TypeOK
  <2>2. TypeOK'
    BY <1>0, <1>1, <1>3, <1>4, <2>1, Parts DEF TypeOK
  <2> QED BY <1>1, <1>4, <2>2, Parts DEF VepaInv, DuplicatedInUse
<1>6. ASSUME trouble' = 0 PROVE McastCalm' /\ VlanCalm' /\ ClientCalm'
  <2>1. McastCalm /\ VlanCalm /\ ClientCalm /\ ok /\ ~Full(k)
    BY <1>3, <1>6 DEF CalmInv
  <2>2. active' = [active EXCEPT ![v] = active[v] \cup {p}] /\ AddAddr(p, k)
    BY <1>2, <2>1
  <2>3. MaskIn(vepa', k) = MaskIn(vepa, k) \cup {p}
    BY <1>0, <2>1, <2>2, AddAddrAdds
  <2>4. ASSUME NEW w \in Vlan PROVE MaskIn(vepa', <<Bcast, w>>) = active'[w]
    <3>1. MaskIn(vepa, <<Bcast, w>>) = active[w]
      BY <2>1 DEF VlanCalm
    <3>2. CASE w = v
      BY <1>0, <2>2, <2>3, <3>1, <3>2 DEF k, TypeOK
    <3>3. CASE w # v
      <4>1. <<Bcast, w>> # k /\ <<Bcast, w>> \in Key
        BY <3>3, Keys DEF k
      <4>2. MaskIn(vepa', <<Bcast, w>>) = MaskIn(vepa, <<Bcast, w>>)
        BY <1>4, <4>1 DEF OnlyAt
      <4> QED BY <1>0, <2>2, <3>1, <3>3, <4>2 DEF TypeOK
    <3> QED BY <3>2, <3>3
  <2>5. McastCalm'
    BY <1>1, <1>4, <2>1, Keys, McastFrame DEF k
  <2>6. ClientCalm'
    BY <1>1, <1>4, <2>1, Keys, ClientFrame DEF k
  <2> QED BY <2>4, <2>5, <2>6 DEF VlanCalm
<1> QED BY <1>5, <1>6 DEF CalmInv, calm

(* ... and one that leaves it gets them no more.                           *)
LEMMA LeaveStep ==
  ASSUME VepaInv, CalmInv, NEW p \in Port, NEW v \in Vlan, Leave(p, v)
  PROVE  VepaInv' /\ CalmInv'
<1> DEFINE k == <<Bcast, v>>
<1>0. TypeOK /\ Good(vepa) /\ MaxTrouble \in Nat /\ k \in Key
  BY Parts, Keys, VepaAssumption DEF VepaInv, TypeOK
<1>1. /\ UNCHANGED <<dupFlow, refCnt, duplicated, private, macSet, vlanRefCnt, route, registered,
                     granted>>
      /\ active' = [active EXCEPT ![v] = active[v] \ {p}]
  BY DEF Leave
<1>2. PICK ok \in BOOLEAN, told \in BOOLEAN :
        /\ IF ok THEN DelAddr(p, k) ELSE UNCHANGED vepa
        /\ Note(ok /\ told)
  BY DEF Leave
<1> HIDE DEF k
<1>3. trouble' \in 0..MaxTrouble /\ (trouble' = 0 => calm /\ ok)
  BY <1>0, <1>2 DEF Note, TypeOK, calm
<1>4. Good(vepa') /\ OnlyAt(k)
  <2>1. CASE vepa' = vepa
    BY <1>0, <2>1 DEF OnlyAt
  <2>2. CASE DelAddr(p, k)
    BY <1>0, <2>2, DelAddrTakes
  <2> QED BY <1>2, <2>1, <2>2
<1>5. VepaInv'
  <2>1. active' \in [Vlan -> SUBSET Port]
    BY <1>0, <1>1 DEF TypeOK
  <2>2. TypeOK'
    BY <1>0, <1>1, <1>3, <1>4, <2>1, Parts DEF TypeOK
  <2> QED BY <1>1, <1>4, <2>2, Parts DEF VepaInv, DuplicatedInUse
<1>6. ASSUME trouble' = 0 PROVE McastCalm' /\ VlanCalm' /\ ClientCalm'
  <2>1. McastCalm /\ VlanCalm /\ ClientCalm /\ DelAddr(p, k)
    BY <1>2, <1>3, <1>6 DEF CalmInv
  <2>2. MaskIn(vepa', k) = MaskIn(vepa, k) \ {p}
    BY <1>0, <2>1, DelAddrTakes
  <2>3. ASSUME NEW w \in Vlan PROVE MaskIn(vepa', <<Bcast, w>>) = active'[w]
    <3>1. MaskIn(vepa, <<Bcast, w>>) = active[w]
      BY <2>1 DEF VlanCalm
    <3>2. CASE w = v
      BY <1>0, <1>1, <2>2, <3>1, <3>2 DEF k, TypeOK
    <3>3. CASE w # v
      <4>1. <<Bcast, w>> # k /\ <<Bcast, w>> \in Key
        BY <3>3, Keys DEF k
      <4>2. MaskIn(vepa', <<Bcast, w>>) = MaskIn(vepa, <<Bcast, w>>)
        BY <1>4, <4>1 DEF OnlyAt
      <4> QED BY <1>0, <1>1, <3>1, <3>3, <4>2 DEF TypeOK
    <3> QED BY <3>2, <3>3
  <2>4. McastCalm'
    BY <1>1, <1>4, <2>1, Keys, McastFrame DEF k
  <2>5. ClientCalm'
    BY <1>1, <1>4, <2>1, Keys, ClientFrame DEF k
  <2> QED BY <2>3, <2>4, <2>5 DEF VlanCalm
<1> QED BY <1>5, <1>6 DEF CalmInv, calm

(* A step that only opens or closes the flow disturbs none of it.          *)
LEMMA FlowStep ==
  ASSUME VepaInv, CalmInv, dupFlow' \in BOOLEAN,
         UNCHANGED <<vepa, refCnt, duplicated, private, macSet, vlanRefCnt, route, active,
                     registered, granted, trouble>>
  PROVE  VepaInv' /\ CalmInv'
<1>1. TypeOK'
  BY DEF VepaInv, TypeOK
<1>2. OneEntryEach' /\ DuplicatedInUse'
  BY DEF VepaInv, OneEntryEach, DuplicatedInUse, Holds
<1>3. \A m \in Shared : Holders(m)' = Holders(m)
  BY DEF Holders
<1>4. McastCalm => McastCalm'
  BY <1>3 DEF McastCalm
<1>5. (VlanCalm => VlanCalm') /\ (ClientCalm => ClientCalm')
  BY DEF VlanCalm, ClientCalm
<1> QED BY <1>1, <1>2, <1>4, <1>5 DEF VepaInv, CalmInv, calm

(* At first the table is empty and nobody has asked for anything.          *)
LEMMA EmptyAtFirst ==
  ASSUME Init
  PROVE  VepaInv /\ CalmInv
<1>1. TypeOK
  BY VepaAssumption DEF Init, TypeOK
<1>2. OneEntryEach /\ DuplicatedInUse
  BY DEF Init, OneEntryEach, DuplicatedInUse, Holds
<1>3. \A k \in Key : MaskIn(vepa, k) = {}
  BY DEF Init, MaskIn, HoldsIn
<1>4. McastCalm
  <2>1. \A m \in Shared : Holders(m) = {}
    BY DEF Init, Holders
  <2>2. IsFiniteSet({}) /\ Cardinality({}) = 0
    BY FS_EmptySet
  <2>3. \A m \in Shared : refCnt[m] = 0
    BY DEF Init
  <2>4. \A m \in Shared, v \in Vlan \cup {NoVlan} :
          MaskIn(vepa, <<m, v>>) = {p \in Port : <<m, v>> \in granted[p]}
    BY <1>3, Keys DEF Init
  <2> QED BY <2>1, <2>2, <2>3, <2>4 DEF McastCalm
<1>5. VlanCalm
  BY <1>3, Keys DEF Init, VlanCalm
<1>6. ClientCalm
  BY <1>3, Keys DEF Init, ClientCalm
<1> QED BY <1>1, <1>2, <1>4, <1>5, <1>6 DEF VepaInv, CalmInv

(* VepaInv and CalmInv hold together in every state.                       *)
LEMMA Inductive == Spec => [](VepaInv /\ CalmInv)
<1>1. Init => VepaInv /\ CalmInv
  BY EmptyAtFirst
<1>2. VepaInv /\ CalmInv /\ [Next]_vars => VepaInv' /\ CalmInv'
  <2> SUFFICES ASSUME VepaInv, CalmInv, [Next]_vars
               PROVE  VepaInv' /\ CalmInv'
    OBVIOUS
  <2>1. CASE Flow
    BY <2>1, FlowStep DEF Flow, OpenFlow, CloseFlow
  <2>2. CASE UNCHANGED vars
    <3>1. dupFlow' \in BOOLEAN
      BY <2>2 DEF VepaInv, TypeOK, vars
    <3> QED BY <2>2, <3>1, FlowStep DEF vars
  <2>3. ASSUME NEW p \in Port, Client(p) PROVE VepaInv' /\ CalmInv'
    <3>1. CASE RegisterMac(p)
      BY <3>1, RegisterMacStep
    <3>2. CASE UnregisterMac(p)
      BY <3>2, UnregisterMacStep
    <3>3. ASSUME NEW m \in Shared, NEW v \in Vlan \cup {NoVlan}, FilterAddMac(p, m, v)
          PROVE  VepaInv' /\ CalmInv'
      BY <3>3, FilterAddMacStep
    <3>4. ASSUME NEW m \in Shared, NEW v \in Vlan \cup {NoVlan}, FilterDelMac(p, m, v)
          PROVE  VepaInv' /\ CalmInv'
      BY <3>4, FilterDelMacStep
    <3>5. ASSUME NEW v \in Vlan, Join(p, v) PROVE VepaInv' /\ CalmInv'
      BY <3>5, JoinStep
    <3>6. ASSUME NEW v \in Vlan, Leave(p, v) PROVE VepaInv' /\ CalmInv'
      BY <3>6, LeaveStep
    <3> QED BY <2>3, <3>1, <3>2, <3>3, <3>4, <3>5, <3>6 DEF Client
  <2> QED BY <2>1, <2>2, <2>3 DEF Next
<1> QED BY <1>1, <1>2, PTL DEF Spec

-----------------------------------------------------------------------------
(* Whatever commands fail and whatever clients ask for, EthFwVepa_addAddr  *)
(* and EthFwVepa_delAddr keep one entry to an address, no entry without a  *)
(* port, and no policer for a shared address that nobody references.       *)
THEOREM VepaTables == Spec => []VepaInv
<1> QED BY Inductive, PTL

(* While all went well, EthFwVepa_sendRaw copies a packet to exactly the   *)
(* ports that subscribe to its address, are in its VLAN, or are registered.*)
THEOREM CopiesReach == Spec => []CopiesReachReceivers
<1>1. ASSUME VepaInv, CalmInv PROVE CopiesReachReceivers
  <2> SUFFICES ASSUME calm PROVE CopiesReachReceivers
    BY DEF CopiesReachReceivers, CopiesReachSubscribers, BroadcastReachesOthers
  <2>1. McastCalm /\ VlanCalm /\ ClientCalm /\ TypeOK
    BY <1>1 DEF CalmInv, VepaInv
  <2>2. \A k \in Key : MaskOf(k) = MaskIn(vepa, k)
    BY <1>1, Parts, MaskIs DEF VepaInv, TypeOK
  <2>3. \A m \in Shared, v \in Vlan \cup {NoVlan} :
          MaskOf(<<m, v>>) = {p \in Port : <<m, v>> \in granted[p]}
    BY <2>1, <2>2, Keys DEF McastCalm
  <2>4. ASSUME NEW p \in Port, NEW k \in granted[p] PROVE k[1] \in duplicated
    <3>1. PICK m \in Shared, v \in Vlan \cup {NoVlan} : k = <<m, v>>
      BY <2>1 DEF TypeOK
    <3>2. <<p, v>> \in Holders(m)
      BY <2>4, <3>1 DEF Holders
    <3>3. /\ IsFiniteSet(Holders(m)) /\ refCnt[m] = Cardinality(Holders(m))
          /\ refCnt[m] > 0 => m \in duplicated
          /\ refCnt[m] \in Nat
      BY <2>1 DEF McastCalm, TypeOK
    <3>4. refCnt[m] # 0
      BY <3>2, <3>3, FS_EmptySet
    <3> QED BY <3>1, <3>3, <3>4
  <2>5. \A v \in Vlan : MaskOf(<<Bcast, v>>) = active[v]
    BY <2>1, <2>2, Keys DEF VlanCalm
  <2>6. ASSUME NEW p \in registered
        PROVE  /\ Copies(p, Untagged) = registered \ {p}
               /\ Bcast \in duplicated /\ registered \subseteq private
    BY <2>1, <2>2, Keys DEF ClientCalm, Copies
  <2> QED BY <2>3, <2>4, <2>5, <2>6
          DEF CopiesReachReceivers, CopiesReachSubscribers, BroadcastReachesOthers, Untagged
<1> QED BY <1>1, Inductive, PTL

(* While all went well, clients that gave back what they had leave neither *)
(* an entry nor a policer behind.                                          *)
THEOREM NothingStays == Spec => []NothingLeft
<1>1. ASSUME VepaInv, CalmInv PROVE NothingLeft
  <2> SUFFICES ASSUME calm, registered = {}, \A p \in Port : granted[p] = {},
                      \A v \in Vlan : active[v] = {}
               PROVE  /\ \A i \in Slots : vepa[i] = Free
                      /\ duplicated = {} /\ private = {} /\ route = {}
    BY DEF NothingLeft
  <2>1. McastCalm /\ VlanCalm /\ ClientCalm /\ TypeOK /\ DuplicatedInUse
    BY <1>1 DEF CalmInv, VepaInv
  <2>2. \A k \in Key : MaskIn(vepa, k) = {}
    <3>1. ASSUME NEW m \in Shared, NEW v \in Vlan \cup {NoVlan}
          PROVE  MaskIn(vepa, <<m, v>>) = {}
      BY <2>1 DEF McastCalm
    <3>2. ASSUME NEW v \in Vlan PROVE MaskIn(vepa, <<Bcast, v>>) = {}
      BY <2>1 DEF VlanCalm
    <3>3. MaskIn(vepa, <<Bcast, NoVlan>>) = {}
      BY <2>1 DEF ClientCalm, Untagged
    <3>4. ASSUME NEW k \in Key PROVE MaskIn(vepa, k) = {}
      <4>1. PICK a \in Shared \cup {Bcast}, v \in Vlan \cup {NoVlan} : k = <<a, v>>
        BY DEF Key, Addr
      <4> QED BY <3>1, <3>2, <3>3, <4>1
    <3> QED BY <3>4
  <2>3. ASSUME NEW i \in Slots PROVE vepa[i] = Free
    <3>1. SUFFICES ASSUME vepa[i] # Free PROVE FALSE
      OBVIOUS
    <3>2. vepa[i] \in Entry /\ vepa[i].mask # {}
      BY <1>1, <3>1 DEF VepaInv, TypeOK, OneEntryEach
    <3>3. vepa[i].key \in Key /\ vepa[i].mask \subseteq Port
      BY <3>2 DEF Entry
    <3>4. MaskIn(vepa, vepa[i].key) # {}
      BY <3>1, <3>2, <3>3 DEF MaskIn, HoldsIn
    <3> QED BY <2>2, <3>3, <3>4
  <2>4. duplicated = {}
    <3>1. ASSUME NEW m \in Shared PROVE m \notin duplicated
      <4>1. Holders(m) = {}
        BY DEF Holders
      <4>2. refCnt[m] = 0
        BY <2>1, <4>1, FS_EmptySet DEF McastCalm
      <4> QED BY <2>1, <4>2 DEF DuplicatedInUse
    <3>2. Bcast \notin duplicated
      BY <2>1 DEF ClientCalm
    <3> QED BY <2>1, <3>1, <3>2 DEF TypeOK, Addr
  <2> QED BY <2>1, <2>3, <2>4 DEF ClientCalm
<1> QED BY <1>1, Inductive, PTL
=============================================================================
