----------------------------- MODULE VlanProofs ------------------------------
(***************************************************************************)
(* Proofs about Vlan for any sets of ports and VLAN ids, any configuration *)
(* and any table length.                                                   *)
(***************************************************************************)
EXTENDS Vlan, TLAPS

(* An entry made for a dynamic VLAN is well formed.                        *)
LEMMA NewEntryType == ASSUME NEW p \in VirtPort PROVE NewEntry(p) \in Entry
<1>1. CASE p \in MacPort
  BY <1>1, VlanAssumption DEF NewEntry, Entry, AleMask, AsMask, VirtPort
<1>2. CASE p \notin MacPort
  BY <1>2, VlanAssumption DEF NewEntry, Entry, AleMask, VirtPort
<1> QED BY <1>1, <1>2

(* A mask with and without the host port is a mask of the ALE.             *)
LEMMA AleEntryType ==
  ASSUME NEW m \in AleMask
  PROVE  WithHost(m) \in AleEntry /\ WithoutHost(m) \in AleEntry
BY DEF AleEntry, AleMask, WithHost, WithoutHost

(* A step changes nothing, or it is a join or a leave that was not refused. *)
LEMMA Steps ==
  ASSUME [Next]_vars
  PROVE  \/ UNCHANGED vars
         \/ \E p \in VirtPort, v \in VlanId :
              \/ \E ok \in BOOLEAN : JoinKnown(p, v, ok) \/ JoinNew(p, v, ok)
              \/ Leave(p, v)
<1>1. ASSUME NEW p \in VirtPort, NEW v \in VlanId, Join(p, v)
      PROVE  \/ UNCHANGED vars
             \/ \E ok \in BOOLEAN : JoinKnown(p, v, ok) \/ JoinNew(p, v, ok)
  BY <1>1 DEF Join, JoinRefused
<1> QED BY <1>1 DEF Next, LeaveRefused

(* A join and a leave keep the state well formed.                          *)
LEMMA Typing == TypeOK /\ [Next]_vars => TypeOK'
<1> SUFFICES ASSUME TypeOK, [Next]_vars PROVE TypeOK'
  OBVIOUS
<1>1. CASE UNCHANGED vars
  BY <1>1 DEF TypeOK, vars
<1>2. ASSUME NEW p \in VirtPort, NEW v \in VlanId, NEW ok \in BOOLEAN,
             JoinKnown(p, v, ok)
      PROVE  TypeOK'
  <2>0. aleWorks' \in BOOLEAN
    BY <1>2 DEF JoinKnown, AleReturns, TypeOK
  <2>1. CASE ~ok
    BY <1>2, <2>0, <2>1 DEF JoinKnown, TypeOK
  <2>2. CASE ok
    <3>1. vlan[v] \in Entry
      BY <1>2 DEF JoinKnown, TypeOK
    <3>2. /\ vlan[v].member \in AleMask
          /\ [vlan[v] EXCEPT !.active = @ \cup {p}] \in Entry
      BY <3>1 DEF Entry
    <3>3. ale' \in [VlanId -> AleEntry \cup {NoEntry}]
      BY <1>2, <2>2, <3>2, AleEntryType DEF JoinKnown, TypeOK
    <3>4. vlan' \in [VlanId -> Entry \cup {Free}]
      BY <1>2, <2>2, <3>2 DEF JoinKnown, Activate, TypeOK
    <3>5. joined' \in [VirtPort -> SUBSET VlanId]
      BY <1>2, <2>2 DEF JoinKnown, TypeOK
    <3> QED BY <2>0, <3>3, <3>4, <3>5 DEF TypeOK
  <2> QED BY <2>1, <2>2
<1>3. ASSUME NEW p \in VirtPort, NEW v \in VlanId, NEW ok \in BOOLEAN,
             JoinNew(p, v, ok)
      PROVE  TypeOK'
  <2>0. aleWorks' \in BOOLEAN
    BY <1>3 DEF JoinNew, AleReturns, TypeOK
  <2>1. NewEntry(p) \in Entry
    BY NewEntryType
  <2>2. /\ NewEntry(p).member \in AleMask
        /\ [NewEntry(p) EXCEPT !.active = @ \cup {p}] \in Entry
    BY <2>1 DEF Entry
  <2>3. ale' \in [VlanId -> AleEntry \cup {NoEntry}]
    BY <1>3, <2>2, AleEntryType DEF JoinNew, TypeOK
  <2>4. vlan' \in [VlanId -> Entry \cup {Free}]
    BY <1>3, <2>1, <2>2 DEF JoinNew, Activate, TypeOK
  <2>5. joined' \in [VirtPort -> SUBSET VlanId]
    BY <1>3 DEF JoinNew, TypeOK
  <2> QED BY <2>0, <2>3, <2>4, <2>5 DEF TypeOK
<1>4. ASSUME NEW p \in VirtPort, NEW v \in VlanId, Leave(p, v)
      PROVE  TypeOK'
  <2>0. aleWorks' \in BOOLEAN
    BY <1>4 DEF Leave, AleReturns, TypeOK
  <2>1. vlan[v] \in Entry
    BY <1>4 DEF Leave, InVlan, TypeOK
  <2>2. /\ vlan[v].member \in AleMask
        /\ [vlan[v] EXCEPT !.active = @ \ {p}] \in Entry
    BY <2>1 DEF Entry
  <2>3. \A excluded, deleted \in BOOLEAN :
          AleAfterLast(v, excluded, deleted) \in AleEntry \cup {NoEntry}
    BY <2>2, AleEntryType DEF AleAfterLast, TypeOK
  <2>4. ale' \in [VlanId -> AleEntry \cup {NoEntry}]
    BY <1>4, <2>3 DEF Leave, TypeOK
  <2>5. vlan' \in [VlanId -> Entry \cup {Free}]
    BY <1>4, <2>2 DEF Leave, TypeOK
  <2>6. joined' \in [VirtPort -> SUBSET VlanId]
    BY <1>4 DEF Leave, TypeOK
  <2> QED BY <2>0, <2>4, <2>5, <2>6 DEF TypeOK
<1> QED
  BY <1>1, <1>2, <1>3, <1>4, Steps

(* Vlan by VLAN: what a step leaves of the two parts of the invariant.     *)
LEMMA Inductive == VlanInv /\ [Next]_vars => VlanInv'
<1> SUFFICES ASSUME VlanInv, [Next]_vars PROVE VlanInv'
  OBVIOUS
<1> USE DEF VlanInv
<1>0. TypeOK'
  BY Typing
<1>1. CASE UNCHANGED vars
  BY <1>1 DEF vars, TypeOK, ActiveServed, ActiveWasTold, InVlan
<1>2. ASSUME NEW p \in VirtPort, NEW v \in VlanId, NEW ok \in BOOLEAN,
             JoinKnown(p, v, ok)
      PROVE  VlanInv'
  <2>1. CASE ~ok
    <3>1. UNCHANGED <<vlan, ale, joined>>
      BY <1>2, <2>1 DEF JoinKnown
    <3> QED BY <1>0, <3>1 DEF ActiveServed, ActiveWasTold, InVlan
  <2>2. CASE ok
    <3>1. vlan[v] \in Entry
      BY <1>2 DEF JoinKnown, TypeOK
    <3>2. /\ vlan'[v].member = vlan[v].member
          /\ vlan'[v].active = vlan[v].active \cup {p}
          /\ ale'[v] = WithHost(vlan[v].member)
          /\ \A w \in VlanId \ {v} : vlan'[w] = vlan[w] /\ ale'[w] = ale[w]
      BY <1>2, <2>2, <3>1 DEF JoinKnown, Activate, TypeOK, Entry
    <3>3. \A q \in VirtPort : joined[q] \subseteq joined'[q]
      BY <1>2, <2>2 DEF JoinKnown, TypeOK
    <3>4. v \in joined'[p]
      BY <1>2, <2>2 DEF JoinKnown, TypeOK
    <3>5. ActiveServed'
      BY <3>2 DEF ActiveServed
    <3>6. ActiveWasTold'
      BY <1>2, <3>2, <3>3, <3>4 DEF ActiveWasTold, InVlan, JoinKnown
    <3> QED BY <1>0, <3>5, <3>6
  <2> QED BY <2>1, <2>2
<1>3. ASSUME NEW p \in VirtPort, NEW v \in VlanId, NEW ok \in BOOLEAN,
             JoinNew(p, v, ok)
      PROVE  VlanInv'
  <2>1. NewEntry(p) \in Entry /\ NewEntry(p).active = {}
    BY NewEntryType DEF NewEntry
  <2>2. \A w \in VlanId \ {v} : vlan'[w] = vlan[w] /\ ale'[w] = ale[w]
    BY <1>3 DEF JoinNew, Activate, TypeOK
  <2>3. CASE ~ok
    <3>1. vlan'[v].active = {} /\ joined' = joined
      BY <1>3, <2>1, <2>3 DEF JoinNew, TypeOK
    <3>2. ActiveServed'
      BY <2>2, <3>1 DEF ActiveServed
    <3>3. ActiveWasTold'
      BY <2>2, <3>1 DEF ActiveWasTold, InVlan
    <3> QED BY <1>0, <3>2, <3>3
  <2>4. CASE ok
    <3>1. /\ vlan'[v].member = NewEntry(p).member
          /\ vlan'[v].active = {p}
          /\ ale'[v] = WithHost(NewEntry(p).member)
      BY <1>3, <2>1, <2>4 DEF JoinNew, Activate, TypeOK, Entry
    <3>2. \A q \in VirtPort : joined[q] \subseteq joined'[q]
      BY <1>3, <2>4 DEF JoinNew, TypeOK
    <3>3. v \in joined'[p]
      BY <1>3, <2>4 DEF JoinNew, TypeOK
    <3>4. ActiveServed'
      BY <2>2, <3>1 DEF ActiveServed
    <3>5. ActiveWasTold'
      BY <2>2, <3>1, <3>2, <3>3 DEF ActiveWasTold, InVlan
    <3> QED BY <1>0, <3>4, <3>5
  <2> QED BY <2>3, <2>4
<1>4. ASSUME NEW p \in VirtPort, NEW v \in VlanId, Leave(p, v)
      PROVE  VlanInv'
  <2>1. vlan[v] \in Entry
    BY <1>4 DEF Leave, InVlan, TypeOK
  <2>2. /\ vlan'[v].member = vlan[v].member
        /\ vlan'[v].active = vlan[v].active \ {p}
        /\ \A w \in VlanId \ {v} : vlan'[w] = vlan[w] /\ ale'[w] = ale[w]
    BY <1>4, <2>1 DEF Leave, TypeOK, Entry
  <2>3. vlan[v].active # {p} => ale'[v] = ale[v]
    BY <1>4 DEF Leave, LastActive
  <2>4. /\ joined'[p] = joined[p] \/ joined'[p] = joined[p] \ {v}
        /\ \A q \in VirtPort \ {p} : joined'[q] = joined[q]
    BY <1>4 DEF Leave, TypeOK
  <2>5. ActiveServed'
    BY <1>4, <2>2, <2>3 DEF ActiveServed, Leave, InVlan
  <2>6. ActiveWasTold'
    BY <1>4, <2>2, <2>4 DEF ActiveWasTold, Leave, InVlan
  <2> QED BY <1>0, <2>5, <2>6
<1> QED
  BY <1>1, <1>2, <1>3, <1>4, Steps

(* Whichever ALE commands fail, a VLAN with an active port is in the ALE   *)
(* with its full member list, and a port is active only in VLANs its       *)
(* client was told it joined (EthFwVlan_join, EthFwVlan_leave).            *)
THEOREM VlanServed == Spec => []VlanInv
<1>1. Init => VlanInv
  <2> SUFFICES ASSUME Init PROVE VlanInv
    OBVIOUS
  <2>1. \A v \in StaticVlan :
          [isStatic |-> TRUE, member |-> StaticAle[v],
           virtMember |-> StaticMember[v], active |-> {}] \in Entry
    BY VlanAssumption DEF Entry
  <2>2. \A v \in StaticVlan : WithoutHost(StaticAle[v]) \in AleEntry
    BY VlanAssumption, AleEntryType
  <2>3. TypeOK
    BY <2>1, <2>2, VlanAssumption DEF Init, TypeOK
  <2>4. ActiveServed /\ ActiveWasTold
    BY DEF Init, ActiveServed, ActiveWasTold, InVlan
  <2> QED BY <2>3, <2>4 DEF VlanInv
<1> QED BY <1>1, Inductive, PTL DEF Spec

-----------------------------------------------------------------------------
(* What makes QuietVlans inductive: the configured VLANs stay in the table *)
(* with their members, and every other entry is dynamic.                   *)
StaticKept ==
  \A v \in VlanId :
    IF v \in StaticVlan
    THEN vlan[v] # Free /\ vlan[v].isStatic = TRUE /\ vlan[v].member = StaticAle[v]
    ELSE vlan[v] # Free => vlan[v].isStatic = FALSE

QuietInv == StaticKept /\ QuietVlans /\ ToldIsActive

(* A VLAN whose entries a step leaves alone stays as quiet as it was.      *)
QuietVlan(v) ==
  (vlan[v] = Free \/ vlan[v].active = {}) =>
    ale[v] = IF v \in StaticVlan THEN WithoutHost(StaticAle[v]) ELSE NoEntry

(* The parts of the invariant, VLAN by VLAN, after a step that changes the *)
(* entries of one VLAN.                                                    *)
LEMMA QuietStep ==
  ASSUME VlanInv, QuietInv, NEW v \in VlanId, NEW p \in VirtPort,
         \A w \in VlanId \ {v} : vlan'[w] = vlan[w] /\ ale'[w] = ale[w],
         vlan'[v] # Free,
         vlan'[v].isStatic = IF v \in StaticVlan THEN TRUE ELSE FALSE,
         v \in StaticVlan => vlan'[v].member = StaticAle[v],
         aleWorks' => aleWorks,
         aleWorks' => QuietVlan(v)',
         aleWorks' => \A q \in VirtPort : \A w \in joined'[q] :
                        IF w = v THEN q \in vlan'[v].active ELSE w \in joined[q]
  PROVE  QuietInv'
<1>1. StaticKept'
  BY DEF QuietInv, StaticKept
<1>2. QuietVlans'
  BY DEF QuietInv, QuietVlans, QuietVlan
<1>3. ToldIsActive'
  <2>1. SUFFICES ASSUME aleWorks', NEW q \in VirtPort, NEW w \in joined'[q]
                 PROVE  InVlan(q, w)'
    BY DEF ToldIsActive
  <2>2. CASE w = v /\ q \in vlan'[v].active
    BY <2>2 DEF InVlan
  <2>3. CASE w # v
    <3>1. w \in VlanId /\ InVlan(q, w)
      BY <2>1, <2>3 DEF QuietInv, ToldIsActive, VlanInv, TypeOK
    <3>2. QED
      BY <2>1, <2>3, <3>1 DEF InVlan
  <2>4. QED
    BY <2>1, <2>2, <2>3
<1>4. QED
  BY <1>1, <1>2, <1>3 DEF QuietInv

(* While no command failed, a port that was told it joined is active.      *)
LEMMA ToldActive ==
  ASSUME QuietInv, aleWorks, NEW q \in VirtPort, NEW v \in joined[q]
  PROVE  vlan[v] # Free /\ q \in vlan[v].active
BY DEF QuietInv, ToldIsActive, InVlan

(* Joins and leaves keep the invariant.                                    *)
LEMMA QuietInductive == VlanInv /\ QuietInv /\ [Next]_vars => QuietInv'
<1> SUFFICES ASSUME VlanInv, QuietInv, [Next]_vars PROVE QuietInv'
  OBVIOUS
<1>0. TypeOK
  BY DEF VlanInv
<1>1. CASE UNCHANGED vars
  BY <1>1 DEF vars, QuietInv, StaticKept, QuietVlans, ToldIsActive, InVlan
<1>2. ASSUME NEW p \in VirtPort, NEW v \in VlanId, NEW ok \in BOOLEAN,
             JoinKnown(p, v, ok)
      PROVE  QuietInv'
  <2>1. CASE ~ok
    BY <1>2, <2>1 DEF JoinKnown, AleReturns, QuietInv, StaticKept, QuietVlans,
                      ToldIsActive, InVlan
  <2>2. CASE ok
    <3>1. vlan[v] \in Entry /\ vlan[v] # Free
      BY <1>0, <1>2 DEF JoinKnown, TypeOK
    <3>2. /\ vlan'[v] \in Entry
          /\ vlan'[v].isStatic = vlan[v].isStatic
          /\ vlan'[v].member = vlan[v].member
          /\ vlan'[v].active = vlan[v].active \cup {p}
          /\ \A w \in VlanId \ {v} : vlan'[w] = vlan[w] /\ ale'[w] = ale[w]
      BY <1>0, <1>2, <2>2, <3>1 DEF JoinKnown, Activate, TypeOK, Entry
    <3>3. vlan'[v] # Free /\ QuietVlan(v)'
      BY <3>2, VlanAssumption DEF QuietVlan
    <3>4. aleWorks' => aleWorks
      BY <1>2 DEF JoinKnown, AleReturns
    <3>5. \A q \in VirtPort : \A w \in joined'[q] :
            w \in joined[q] \/ (q = p /\ w = v)
      BY <1>0, <1>2, <2>2 DEF JoinKnown, TypeOK
    <3>6. /\ vlan'[v].isStatic = IF v \in StaticVlan THEN TRUE ELSE FALSE
          /\ v \in StaticVlan => vlan'[v].member = StaticAle[v]
      BY <3>1, <3>2 DEF QuietInv, StaticKept
    <3>7. aleWorks' => \A q \in VirtPort : \A w \in joined'[q] :
            IF w = v THEN q \in vlan'[v].active ELSE w \in joined[q]
      BY <3>2, <3>4, <3>5, ToldActive
    <3>8. QED
      BY <3>2, <3>3, <3>4, <3>6, <3>7, QuietStep
  <2>3. QED
    BY <2>1, <2>2
<1>3. ASSUME NEW p \in VirtPort, NEW v \in VlanId, NEW ok \in BOOLEAN,
             JoinNew(p, v, ok)
      PROVE  QuietInv'
  <2>1. /\ NewEntry(p) \in Entry /\ NewEntry(p).isStatic = FALSE
        /\ vlan[v] = Free
    BY <1>3, NewEntryType DEF NewEntry, JoinNew
  <2>2. /\ vlan'[v] \in Entry /\ vlan'[v].isStatic = FALSE
        /\ ok => vlan'[v].active = NewEntry(p).active \cup {p}
        /\ \A w \in VlanId \ {v} : vlan'[w] = vlan[w] /\ ale'[w] = ale[w]
    BY <1>0, <1>3, <2>1 DEF JoinNew, Activate, TypeOK, Entry
  <2>3. v \notin StaticVlan
    BY <2>1 DEF QuietInv, StaticKept
  <2>4. /\ aleWorks' => aleWorks /\ ok
        /\ ~ok => joined' = joined
    BY <1>3 DEF JoinNew, AleReturns
  <2>5. aleWorks' => QuietVlan(v)'
    BY <2>2, <2>4, VlanAssumption DEF QuietVlan
  <2>6. \A q \in VirtPort : \A w \in joined'[q] :
          w \in joined[q] \/ (q = p /\ w = v)
    BY <1>0, <1>3 DEF JoinNew, TypeOK
  <2>7. aleWorks' => \A q \in VirtPort : \A w \in joined'[q] :
          IF w = v THEN q \in vlan'[v].active ELSE w \in joined[q]
    BY <2>1, <2>2, <2>4, <2>6, ToldActive
  <2>8. QED
    BY <2>2, <2>3, <2>4, <2>5, <2>7, QuietStep, VlanAssumption
<1>4. ASSUME NEW p \in VirtPort, NEW v \in VlanId, Leave(p, v)
      PROVE  QuietInv'
  <2>1. vlan[v] \in Entry /\ vlan[v] # Free /\ p \in vlan[v].active
    BY <1>0, <1>4 DEF Leave, InVlan, TypeOK
  <2>2. /\ vlan'[v] \in Entry
        /\ vlan'[v].isStatic = vlan[v].isStatic
        /\ vlan'[v].member = vlan[v].member
        /\ vlan'[v].active = vlan[v].active \ {p}
        /\ \A w \in VlanId \ {v} : vlan'[w] = vlan[w] /\ ale'[w] = ale[w]
    BY <1>0, <1>4, <2>1 DEF Leave, TypeOK, Entry
  <2>3. /\ vlan'[v].isStatic = IF v \in StaticVlan THEN TRUE ELSE FALSE
        /\ v \in StaticVlan => vlan'[v].member = StaticAle[v]
    BY <2>1, <2>2 DEF QuietInv, StaticKept
  <2>4. aleWorks' => aleWorks
    BY <1>4 DEF Leave, AleReturns
  <2>5. aleWorks' => joined' = [joined EXCEPT ![p] = @ \ {v}]
    BY <1>4 DEF Leave, AleReturns
  <2>6. ASSUME aleWorks' PROVE QuietVlan(v)'
    <3>1. CASE LastActive(v, p)
      <4>1. ale'[v] = AleAfterLast(v, TRUE, TRUE)
        BY <1>0, <1>4, <2>6, <3>1 DEF Leave, AleReturns, TypeOK
      <4>2. ale'[v] = IF v \in StaticVlan THEN WithoutHost(StaticAle[v])
                                          ELSE NoEntry
        BY <2>2, <2>3, <4>1 DEF AleAfterLast
      <4>3. QED
        BY <4>2 DEF QuietVlan
    <3>2. CASE ~LastActive(v, p)
      <4>1. vlan'[v].active # {}
        BY <2>1, <2>2, <3>2 DEF LastActive
      <4>2. QED
        BY <2>2, <4>1, VlanAssumption DEF QuietVlan
    <3>3. QED
      BY <3>1, <3>2
  <2>7. aleWorks' => \A q \in VirtPort : \A w \in joined'[q] :
          w \in joined[q] /\ (q # p \/ w # v)
    BY <1>0, <2>5 DEF TypeOK
  <2>8. aleWorks' => \A q \in VirtPort : \A w \in joined'[q] :
          IF w = v THEN q \in vlan'[v].active ELSE w \in joined[q]
    BY <2>2, <2>4, <2>7, ToldActive
  <2>9. QED
    BY <2>2, <2>3, <2>4, <2>6, <2>8, QuietStep, VlanAssumption
<1>5. QED
  BY <1>1, <1>2, <1>3, <1>4, Steps

(* Nothing but the static VLANs is there at first.                         *)
LEMMA QuietAtFirst == ASSUME Init PROVE QuietInv
<1>1. \A v \in VlanId \ StaticVlan : vlan[v] = Free /\ ale[v] = NoEntry
  BY DEF Init
<1>2. ASSUME NEW v \in StaticVlan
      PROVE  /\ vlan[v] \in Entry /\ vlan[v].isStatic = TRUE
             /\ vlan[v].member = StaticAle[v]
             /\ ale[v] = WithoutHost(StaticAle[v])
  <2>1. vlan[v] = [isStatic |-> TRUE, member |-> StaticAle[v],
                   virtMember |-> StaticMember[v], active |-> {}]
    BY VlanAssumption DEF Init
  <2>2. QED
    BY <2>1, VlanAssumption DEF Init, Entry
<1>3. StaticKept
  BY <1>1, <1>2, VlanAssumption DEF StaticKept
<1>4. QuietVlans
  BY <1>1, <1>2 DEF QuietVlans
<1>5. ToldIsActive
  BY DEF Init, ToldIsActive
<1>6. QED
  BY <1>3, <1>4, <1>5 DEF QuietInv

(* While no ALE command fails nothing is left behind in the ALE, for any   *)
(* configuration and any number of ports: a static VLAN nobody is in       *)
(* excludes the host port, a dynamic one has no entry.                     *)
THEOREM VlanQuiet == Spec => []QuietVlans
<1>1. Init => QuietInv
  BY QuietAtFirst
<1>2. QuietInv => QuietVlans
  BY DEF QuietInv
<1>3. QED
  BY <1>1, <1>2, VlanServed, QuietInductive, PTL DEF Spec

(* While no ALE command fails a client that was told it joined is in the   *)
(* VLAN, whichever requests the server refused before.                     *)
THEOREM JoinersActive == Spec => []ToldIsActive
<1>1. Init => QuietInv
  BY QuietAtFirst
<1>2. QuietInv => ToldIsActive
  BY DEF QuietInv
<1>3. QED
  BY <1>1, <1>2, VlanServed, QuietInductive, PTL DEF Spec
=============================================================================
