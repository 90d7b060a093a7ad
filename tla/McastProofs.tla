----------------------------- MODULE McastProofs -----------------------------
(***************************************************************************)
(* Proofs about the multicast filter, for every set of ports, addresses,   *)
(* VLANs and failing ALE commands and for every table size: exclusive      *)
(* ownership, the agreement of ALE and shared table, and the abstract      *)
(* service.                                                                *)
(***************************************************************************)
EXTENDS Mcast, FiniteSetTheorems, TLAPS

GrantTable == [VirtPort -> [Mcast -> Nat]]

-----------------------------------------------------------------------------
(* An acknowledged add raises one count and leaves the others.             *)
LEMMA AcknowledgeCounts ==
  ASSUME NEW p \in VirtPort, NEW m \in Mcast,
         granted \in GrantTable, Acknowledge(p, m)
  PROVE  /\ granted' \in GrantTable
         /\ granted'[p][m] = granted[p][m] + 1
         /\ \A q \in VirtPort, n \in Mcast :
              <<q, n>> # <<p, m>> => granted'[q][n] = granted[q][n]
BY DEF Acknowledge, GrantTable

(* A delete lowers one count, never below zero, and leaves the others.     *)
LEMMA GiveBackCounts ==
  ASSUME NEW p \in VirtPort, NEW m \in Mcast,
         granted \in GrantTable, GiveBack(p, m)
  PROVE  /\ granted' \in GrantTable
         /\ granted'[p][m] = IF granted[p][m] > 0 THEN granted[p][m] - 1 ELSE 0
         /\ \A q \in VirtPort, n \in Mcast :
              <<q, n>> # <<p, m>> => granted'[q][n] = granted[q][n]
<1>1. granted[p][m] \in Nat
  BY DEF GrantTable
<1>2. CASE granted[p][m] > 0
  BY <1>1, <1>2 DEF GiveBack, GrantTable
<1>3. CASE ~(granted[p][m] > 0)
  BY <1>1, <1>3 DEF GiveBack
<1>4. QED
  BY <1>2, <1>3

(* What happens to an exclusive address leaves the grants of the shared    *)
(* ones alone.                                                             *)
LEMMA ExclGrantsOnly ==
  ASSUME granted \in GrantTable, NEW p \in VirtPort, NEW m \in ExclMcast,
         Acknowledge(p, m) \/ GiveBack(p, m) \/ UNCHANGED granted,
         NEW q \in VirtPort, NEW n \in SharedMcast
  PROVE  granted'[q][n] = granted[q][n]
<1>1. m \in Mcast /\ n \in Mcast /\ n # m
  BY McastAssumption DEF Mcast
<1>2. QED
  BY <1>1, AcknowledgeCounts, GiveBackCounts

(* Every operation keeps the types of the tables.                          *)
LEMMA TypeStep == TypeOK /\ [Next]_vars => TypeOK'
<1> SUFFICES ASSUME TypeOK, [Next]_vars PROVE TypeOK'
  OBVIOUS
<1>0. granted \in GrantTable
  BY DEF TypeOK, GrantTable
<1>1. CASE UNCHANGED vars
  BY <1>1 DEF vars, TypeOK
<1>2. ASSUME NEW p \in VirtPort, NEW m \in Mcast, AddShared(p, m)
      PROVE  TypeOK'
  <2>1. HostOf[p] \in Core /\ m \in SharedMcast
    BY <1>2, McastAssumption DEF AddShared, CountShared
  <2>2. CASE UNCHANGED <<sharedRef, ale, bridgeMask, granted>>
    BY <1>2, <2>2 DEF AddShared, TypeOK, CountShared
  <2>3. CASE /\ sharedRef' = [sharedRef EXCEPT ![m] = @ + 1]
             /\ ale' = ale \cup {m}
             /\ bridgeMask' = [bridgeMask EXCEPT ![m] = @ \cup {HostOf[p]}]
             /\ Acknowledge(p, m)
    <3>1. granted' \in GrantTable
      BY <1>0, <2>3, AcknowledgeCounts
    <3>2. UNCHANGED <<excl, policer>>
      BY <1>2 DEF AddShared, CountShared
    <3>3. QED
      BY <2>1, <2>3, <3>1, <3>2 DEF TypeOK, GrantTable
  <2>4. QED
    BY <1>2, <2>2, <2>3 DEF AddShared, CountShared
<1>3. ASSUME NEW p \in VirtPort, NEW m \in Mcast, DelShared(p, m)
      PROVE  TypeOK'
  <2>1. m \in SharedMcast
    BY <1>3 DEF DelShared, LastShared, Unfeed
  <2>2. CASE UNCHANGED <<sharedRef, ale, bridgeMask, granted>>
    BY <1>3, <2>2 DEF DelShared, TypeOK, LastShared, Unfeed
  <2>3. CASE /\ sharedRef[m] > 0
             /\ sharedRef' = [sharedRef EXCEPT ![m] = @ - 1]
             /\ ale' = IF sharedRef[m] = 1 THEN ale \ {m} ELSE ale
             /\ bridgeMask' = [bridgeMask EXCEPT ![m] = @ \ {HostOf[p]}]
             /\ GiveBack(p, m)
    <3>1. granted' \in GrantTable
      BY <1>0, <2>3, GiveBackCounts
    <3>2. UNCHANGED <<excl, policer>>
      BY <1>3 DEF DelShared, LastShared, Unfeed
    <3>3. sharedRef' \in [SharedMcast -> Nat]
      BY <2>1, <2>3 DEF TypeOK
    <3>4. QED
      BY <2>1, <2>3, <3>1, <3>2, <3>3 DEF TypeOK, GrantTable
  <2>4. sharedRef[m] \in Nat
    BY <2>1 DEF TypeOK
  <2>5. QED
    BY <1>3, <2>2, <2>3, <2>4 DEF DelShared, LastShared, Unfeed
<1>4. ASSUME NEW p \in VirtPort, NEW m \in Mcast, AddExclAgain(p, m)
      PROVE  TypeOK'
  <2>1. UNCHANGED <<sharedRef, ale, policer, bridgeMask>>
    BY <1>4 DEF AddExclAgain, Owns
  <2>2. PICK i \in Slots :
          /\ FirstTaken(i, m)
          /\ \/ /\ excl' = [excl EXCEPT ![i].refCnt = @ + 1]
                /\ Acknowledge(p, m)
             \/ UNCHANGED <<excl, granted>>
    BY <1>4 DEF AddExclAgain, Owns
  <2>3. excl[i] \in Entry
    BY <2>2 DEF FirstTaken, Taken, TypeOK
  <2>4. excl' \in [Slots -> Entry \cup {Free}]
    BY <2>2, <2>3 DEF TypeOK, Entry
  <2>5. granted' \in GrantTable
    BY <1>0, <2>2, AcknowledgeCounts
  <2>6. QED
    BY <2>1, <2>4, <2>5 DEF TypeOK, GrantTable
<1>5. ASSUME NEW p \in VirtPort, NEW m \in Mcast, AddExclFirst(p, m)
      PROVE  TypeOK'
  <2>1. m \in ExclMcast /\ UNCHANGED <<sharedRef, bridgeMask>>
    BY <1>5 DEF AddExclFirst
  <2>2. excl' \in [Slots -> Entry \cup {Free}]
    BY <1>5, <2>1 DEF AddExclFirst, TypeOK, Entry
  <2>3. ale' \subseteq Mcast /\ policer' \subseteq ExclMcast \X VirtPort
    BY <1>5, <2>1 DEF AddExclFirst, TypeOK
  <2>4. granted' \in GrantTable
    BY <1>0, <1>5, AcknowledgeCounts DEF AddExclFirst
  <2>5. QED
    BY <2>1, <2>2, <2>3, <2>4 DEF TypeOK, GrantTable
<1>6. ASSUME NEW p \in VirtPort, NEW m \in Mcast, DelExcl(p, m)
      PROVE  TypeOK'
  <2>1. UNCHANGED <<sharedRef, bridgeMask>>
    BY <1>6 DEF DelExcl, Owns
  <2>2. CASE UNCHANGED <<excl, ale, policer, granted>>
    BY <2>1, <2>2 DEF TypeOK
  <2>3. CASE \E i \in Slots :
               /\ FirstTaken(i, m)
               /\ \/ /\ excl[i].refCnt > 1
                     /\ excl' = [excl EXCEPT ![i].refCnt = @ - 1]
                     /\ GiveBack(p, m)
                     /\ UNCHANGED <<ale, policer>>
                  \/ /\ excl' = [excl EXCEPT ![i] = Free]
                     /\ ale' = ale \ {m}
                     /\ policer' = policer \ {<<m, p>>}
                     /\ GiveBack(p, m)
    <3>1. PICK i \in Slots :
               /\ FirstTaken(i, m)
               /\ \/ /\ excl[i].refCnt > 1
                     /\ excl' = [excl EXCEPT ![i].refCnt = @ - 1]
                     /\ GiveBack(p, m)
                     /\ UNCHANGED <<ale, policer>>
                  \/ /\ excl' = [excl EXCEPT ![i] = Free]
                     /\ ale' = ale \ {m}
                     /\ policer' = policer \ {<<m, p>>}
                     /\ GiveBack(p, m)
      BY <2>3
    <3>2. excl[i] \in Entry
      BY <3>1 DEF FirstTaken, Taken, TypeOK
    <3>3. excl' \in [Slots -> Entry \cup {Free}]
      BY <3>1, <3>2 DEF TypeOK, Entry
    <3>4. granted' \in GrantTable
      BY <1>0, <3>1, GiveBackCounts
    <3>5. ale' \subseteq Mcast /\ policer' \subseteq ExclMcast \X VirtPort
      BY <3>1 DEF TypeOK
    <3>6. QED
      BY <2>1, <3>3, <3>4, <3>5 DEF TypeOK, GrantTable
  <2>4. QED
    BY <1>6, <2>2, <2>3 DEF DelExcl, Owns
<1>7. QED
  BY <1>1, <1>2, <1>3, <1>4, <1>5, <1>6
  DEF Next, FilterAddMac, FilterDelMac, RefuseExcl
-----------------------------------------------------------------------------
(* The prover needs the slot table's facts one at a time.                  *)
LEMMA EntryType ==
  ASSUME TypeOK, NEW i \in Slots, excl[i] # Free
  PROVE  /\ excl[i].macAddr \in ExclMcast
         /\ excl[i].virtPort \in VirtPort
         /\ excl[i].refCnt \in Nat
         /\ excl[i].refCnt > 0
<1>1. excl[i] \in Entry
  BY DEF TypeOK
<1>2. QED
  BY <1>1 DEF Entry

(* A step that leaves slots, classifiers and the grants of exclusive       *)
(* addresses alone keeps the invariant.                                    *)
LEMMA ExclUntouched ==
  ASSUME McastInv, TypeOK', UNCHANGED <<excl, policer>>,
         \A q \in VirtPort, n \in ExclMcast : granted'[q][n] = granted[q][n]
  PROVE  McastInv'
BY DEF McastInv, SlotsDistinct, GrantedHasSlot, SteeredToOwner, Taken

(* Only the port in the address's slot can have been granted it, and never *)
(* more often than the slot's count says.                                  *)
LEMMA OnlySlotOwner ==
  ASSUME McastInv, NEW m \in ExclMcast, NEW i \in Slots, Taken(i, m),
         NEW q \in VirtPort, granted[q][m] > 0
  PROVE  excl[i].virtPort = q /\ excl[i].refCnt >= granted[q][m]
BY DEF McastInv, SlotsDistinct, GrantedHasSlot

(* Raising or lowering the count of a slot together with the grants of its *)
(* owner keeps the invariant.                                              *)
LEMMA CountStep ==
  ASSUME McastInv, TypeOK', NEW p \in VirtPort, NEW m \in ExclMcast,
         NEW i \in Slots, Taken(i, m), excl[i].virtPort = p,
         UNCHANGED policer,
         \A j \in Slots \ {i} : excl'[j] = excl[j],
         excl'[i] # Free, excl'[i].macAddr = m, excl'[i].virtPort = p,
         granted'[p][m] > 0 => excl'[i].refCnt >= granted'[p][m],
         \A q \in VirtPort, n \in Mcast :
           <<q, n>> # <<p, m>> => granted'[q][n] = granted[q][n]
  PROVE  McastInv'
<1>1. \A j \in Slots, n \in ExclMcast : Taken(j, n)' <=> Taken(j, n)
  BY DEF Taken
<1>2. \A j \in Slots : excl'[j].virtPort = excl[j].virtPort
  OBVIOUS
<1>3. SlotsDistinct'
  BY <1>1 DEF McastInv, SlotsDistinct
<1>4. SteeredToOwner'
  <2>1. SUFFICES ASSUME NEW c \in policer'
                 PROVE  \E j \in Slots : Taken(j, c[1])' /\ excl'[j].virtPort = c[2]
    BY DEF SteeredToOwner
  <2>2. c \in policer /\ c[1] \in ExclMcast
    BY DEF McastInv, TypeOK
  <2>3. PICK j \in Slots : Taken(j, c[1]) /\ excl[j].virtPort = c[2]
    BY <2>2 DEF McastInv, SteeredToOwner
  <2>4. QED
    BY <1>1, <1>2, <2>2, <2>3
<1>5. GrantedHasSlot'
  <2>1. SUFFICES ASSUME NEW q \in VirtPort, NEW n \in ExclMcast,
                        granted'[q][n] > 0
                 PROVE  \E j \in Slots : /\ Taken(j, n)'
                                         /\ excl'[j].virtPort = q
                                         /\ excl'[j].refCnt >= granted'[q][n]
    BY DEF GrantedHasSlot
  <2>2. CASE q = p /\ n = m
    BY <2>1, <2>2, <1>1
  <2>3. CASE <<q, n>> # <<p, m>>
    <3>1. granted'[q][n] = granted[q][n]
      BY <2>3 DEF Mcast
    <3>2. PICK j \in Slots : /\ Taken(j, n)
                             /\ excl[j].virtPort = q
                             /\ excl[j].refCnt >= granted[q][n]
      BY <2>1, <3>1 DEF McastInv, GrantedHasSlot
    <3>3. j # i
      BY <2>3, <3>2 DEF Taken
    <3>4. QED
      BY <1>1, <3>1, <3>2, <3>3
  <2>4. QED
    BY <2>2, <2>3
<1>6. QED
  BY <1>3, <1>4, <1>5 DEF McastInv

-----------------------------------------------------------------------------
(* Shared addresses do not touch the exclusive table.                      *)
LEMMA SharedStep ==
  ASSUME McastInv, TypeOK', NEW p \in VirtPort, NEW m \in Mcast,
         AddShared(p, m) \/ DelShared(p, m)
  PROVE  McastInv'
<1>1. m \in SharedMcast /\ UNCHANGED <<excl, policer>>
  BY DEF AddShared, DelShared, CountShared, LastShared, Unfeed
<1>2. granted \in GrantTable
  BY DEF McastInv, TypeOK, GrantTable
<1>3. Acknowledge(p, m) \/ GiveBack(p, m) \/ UNCHANGED granted
  BY DEF AddShared, DelShared, CountShared, LastShared, Unfeed
<1>4. ASSUME NEW q \in VirtPort, NEW n \in ExclMcast
      PROVE  granted'[q][n] = granted[q][n]
  <2>1. n \in Mcast /\ n # m
    BY <1>1, McastAssumption DEF Mcast
  <2>2. QED
    BY <1>2, <1>3, <2>1, AcknowledgeCounts, GiveBackCounts
<1>5. QED
  BY <1>1, <1>4, ExclUntouched

(* An owner's repeated add: slot count and grant go up together.           *)
LEMMA AddExclAgainStep ==
  ASSUME McastInv, TypeOK', NEW p \in VirtPort, NEW m \in Mcast,
         AddExclAgain(p, m)
  PROVE  McastInv'
<1>0. TypeOK /\ granted \in GrantTable /\ m \in ExclMcast /\ UNCHANGED policer
  BY DEF McastInv, TypeOK, GrantTable, AddExclAgain, Owns
<1>1. PICK i \in Slots :
        /\ FirstTaken(i, m)
        /\ IF excl[i].virtPort = p
           THEN /\ excl' = [excl EXCEPT ![i].refCnt = @ + 1]
                /\ Acknowledge(p, m)
           ELSE UNCHANGED <<excl, granted>>
  BY DEF AddExclAgain, Owns
<1>2. Taken(i, m)
  BY <1>1 DEF FirstTaken
<1>3. CASE excl[i].virtPort # p
  BY <1>0, <1>1, <1>3, ExclUntouched
<1>4. CASE excl[i].virtPort = p
  <2>1. /\ granted'[p][m] = granted[p][m] + 1
        /\ \A q \in VirtPort, n \in Mcast :
             <<q, n>> # <<p, m>> => granted'[q][n] = granted[q][n]
    BY <1>0, <1>1, <1>4, AcknowledgeCounts
  <2>2. excl[i] \in Entry /\ excl[i].refCnt \in Nat /\ excl[i].refCnt > 0
    BY <1>0, <1>2, EntryType DEF TypeOK, Taken
  <2>3. excl' = [excl EXCEPT ![i].refCnt = @ + 1]
    BY <1>1, <1>4
  <2>4. \A j \in Slots \ {i} : excl'[j] = excl[j]
    BY <1>0, <2>3 DEF TypeOK
  <2>5. /\ excl'[i] \in Entry
        /\ excl'[i].macAddr = m
        /\ excl'[i].virtPort = p
        /\ excl'[i].refCnt = excl[i].refCnt + 1
    BY <1>0, <1>2, <1>4, <2>2, <2>3 DEF TypeOK, Entry, Taken
  <2>6. granted'[p][m] > 0 => excl'[i].refCnt >= granted'[p][m]
    <3>1. granted[p][m] \in Nat
      BY <1>0 DEF GrantTable
    <3>2. granted[p][m] > 0 => excl[i].refCnt >= granted[p][m]
      BY <1>0, <1>2, OnlySlotOwner
    <3>3. QED
      BY <2>1, <2>2, <2>5, <3>1, <3>2
  <2>7. excl'[i] # Free
    BY <2>5, FreeAssumption
  <2>8. QED
    BY <1>0, <1>2, <1>4, <2>1, <2>4, <2>5, <2>6, <2>7, CountStep
<1>5. QED
  BY <1>3, <1>4

(* The first add takes a slot nobody had, for an address nobody held.      *)
LEMMA AddExclFirstStep ==
  ASSUME McastInv, TypeOK', NEW p \in VirtPort, NEW m \in Mcast,
         AddExclFirst(p, m)
  PROVE  McastInv'
<1>0. TypeOK /\ granted \in GrantTable /\ m \in ExclMcast /\ NotInTable(m)
  BY DEF McastInv, TypeOK, GrantTable, AddExclFirst
<1>1. PICK i \in Slots :
        /\ excl[i] = Free
        /\ excl' = [excl EXCEPT ![i] = [macAddr |-> m, virtPort |-> p,
                                        refCnt |-> 1]]
  BY DEF AddExclFirst, FirstFree
<1>2. /\ \A j \in Slots \ {i} : excl'[j] = excl[j]
      /\ excl'[i].macAddr = m /\ excl'[i].virtPort = p /\ excl'[i].refCnt = 1
  BY <1>0, <1>1 DEF TypeOK
<1>3. excl'[i] # Free
  BY <1>0, <1>1, <1>2, FreeAssumption DEF Entry, TypeOK
<1>4. \A j \in Slots \ {i}, n \in ExclMcast : Taken(j, n)' <=> Taken(j, n)
  BY <1>2 DEF Taken
<1>5. Taken(i, m)' /\ \A n \in ExclMcast : Taken(i, n)' => n = m
  BY <1>2, <1>3 DEF Taken
<1>6. \A n \in ExclMcast : ~Taken(i, n)
  BY <1>1 DEF Taken
<1>7. \A q \in VirtPort : ~(granted[q][m] > 0)
  BY <1>0 DEF McastInv, GrantedHasSlot, NotInTable
<1>8. SlotsDistinct'
  <2>1. SUFFICES ASSUME NEW j \in Slots, NEW k \in Slots, NEW n \in ExclMcast,
                        Taken(j, n)', Taken(k, n)'
                 PROVE  j = k
    BY DEF SlotsDistinct
  <2>2. QED
    BY <1>0, <1>4, <1>5, <2>1 DEF McastInv, SlotsDistinct, NotInTable
<1>9. SteeredToOwner'
  <2>1. SUFFICES ASSUME NEW c \in policer'
                 PROVE  \E j \in Slots : Taken(j, c[1])' /\ excl'[j].virtPort = c[2]
    BY DEF SteeredToOwner
  <2>2. CASE c = <<m, p>>
    BY <1>2, <1>5, <2>2
  <2>3. CASE c \in policer
    <3>1. c[1] \in ExclMcast
      BY <1>0, <2>3 DEF TypeOK
    <3>2. PICK j \in Slots : Taken(j, c[1]) /\ excl[j].virtPort = c[2]
      BY <2>3 DEF McastInv, SteeredToOwner
    <3>3. QED
      BY <1>2, <1>4, <1>6, <3>1, <3>2
  <2>4. QED
    BY <2>1, <2>2, <2>3 DEF AddExclFirst
<1>10. GrantedHasSlot'
  <2>1. SUFFICES ASSUME NEW q \in VirtPort, NEW n \in ExclMcast,
                        granted'[q][n] > 0
                 PROVE  \E j \in Slots : /\ Taken(j, n)'
                                         /\ excl'[j].virtPort = q
                                         /\ excl'[j].refCnt >= granted'[q][n]
    BY DEF GrantedHasSlot
  <2>2. Acknowledge(p, m) \/ UNCHANGED granted
    BY DEF AddExclFirst
  <2>3. granted[q][n] \in Nat /\ granted[p][m] \in Nat /\ n \in Mcast
    BY <1>0 DEF GrantTable, Mcast
  <2>4. CASE q = p /\ n = m
    <3>1. granted'[p][m] = granted[p][m] + 1 \/ granted'[p][m] = granted[p][m]
      BY <1>0, <2>2, AcknowledgeCounts
    <3>2. granted[p][m] = 0
      BY <1>7, <2>3
    <3>3. QED
      BY <1>2, <1>5, <2>1, <2>4, <3>1, <3>2
  <2>5. CASE <<q, n>> # <<p, m>>
    <3>1. granted'[q][n] = granted[q][n]
      BY <1>0, <2>2, <2>3, <2>5, AcknowledgeCounts
    <3>2. PICK j \in Slots : /\ Taken(j, n)
                             /\ excl[j].virtPort = q
                             /\ excl[j].refCnt >= granted[q][n]
      BY <2>1, <3>1 DEF McastInv, GrantedHasSlot
    <3>3. QED
      BY <1>2, <1>4, <1>6, <3>1, <3>2
  <2>6. QED
    BY <2>4, <2>5
<1>11. QED
  BY <1>8, <1>9, <1>10 DEF McastInv

(* A delete of what the port does not own changes nothing; the last one    *)
(* frees the slot together with its classifier and the last grant.         *)
LEMMA DelExclStep ==
  ASSUME McastInv, TypeOK', NEW p \in VirtPort, NEW m \in Mcast,
         DelExcl(p, m)
  PROVE  McastInv'
<1>0. TypeOK /\ granted \in GrantTable /\ m \in ExclMcast
  BY DEF McastInv, TypeOK, GrantTable, DelExcl, Owns
<1>1. CASE UNCHANGED <<excl, ale, policer, granted>>
  BY <1>1, ExclUntouched
<1>2. ASSUME NEW i \in Slots, Taken(i, m), excl[i].virtPort = p,
             excl[i].refCnt > 1,
             excl' = [excl EXCEPT ![i].refCnt = @ - 1],
             GiveBack(p, m), UNCHANGED policer
      PROVE  McastInv'
  <2>1. /\ granted'[p][m] = IF granted[p][m] > 0 THEN granted[p][m] - 1 ELSE 0
        /\ \A q \in VirtPort, n \in Mcast :
             <<q, n>> # <<p, m>> => granted'[q][n] = granted[q][n]
    BY <1>0, <1>2, GiveBackCounts
  <2>2. excl[i] \in Entry /\ excl[i].refCnt \in Nat
    BY <1>0, <1>2, EntryType DEF TypeOK, Taken
  <2>3. \A j \in Slots \ {i} : excl'[j] = excl[j]
    BY <1>0, <1>2 DEF TypeOK
  <2>4. /\ excl'[i] \in Entry
        /\ excl'[i].macAddr = m
        /\ excl'[i].virtPort = p
        /\ excl'[i].refCnt = excl[i].refCnt - 1
    <3>1. excl'[i] = [excl[i] EXCEPT !.refCnt = excl[i].refCnt - 1]
      BY <1>0, <1>2 DEF TypeOK
    <3>2. excl[i].refCnt - 1 \in Nat \ {0} /\ excl[i].macAddr = m /\ excl[i].virtPort = p
      BY <1>2, <2>2 DEF Taken
    <3>3. [excl[i] EXCEPT !.refCnt = excl[i].refCnt - 1] \in Entry
      BY <2>2, <3>2 DEF Entry
    <3>4. QED
      BY <2>2, <3>1, <3>2, <3>3 DEF Entry
  <2>5. granted'[p][m] > 0 => excl'[i].refCnt >= granted'[p][m]
    <3>1. granted[p][m] \in Nat
      BY <1>0 DEF GrantTable
    <3>2. granted[p][m] > 0 => excl[i].refCnt >= granted[p][m]
      BY <1>0, <1>2, OnlySlotOwner
    <3>3. QED
      BY <2>1, <2>2, <2>4, <3>1, <3>2
  <2>6. excl'[i] # Free
    BY <2>4, FreeAssumption
  <2>7. QED
    BY <1>0, <1>2, <2>1, <2>3, <2>4, <2>5, <2>6, CountStep
<1>3. ASSUME NEW i \in Slots, Taken(i, m), excl[i].virtPort = p,
             ~(excl[i].refCnt > 1),
             excl' = [excl EXCEPT ![i] = Free],
             policer' = policer \ {<<m, p>>},
             GiveBack(p, m)
      PROVE  McastInv'
  <2>1. /\ granted'[p][m] = IF granted[p][m] > 0 THEN granted[p][m] - 1 ELSE 0
        /\ \A q \in VirtPort, n \in Mcast :
             <<q, n>> # <<p, m>> => granted'[q][n] = granted[q][n]
    BY <1>0, <1>3, GiveBackCounts
  <2>2. excl'[i] = Free /\ \A j \in Slots \ {i} : excl'[j] = excl[j]
    BY <1>0, <1>3 DEF TypeOK
  <2>3. \A j \in Slots, n \in ExclMcast : Taken(j, n)' <=> j # i /\ Taken(j, n)
    BY <2>2 DEF Taken
  <2>4. SlotsDistinct'
    BY <2>3 DEF McastInv, SlotsDistinct
  <2>5. SteeredToOwner'
    <3>1. SUFFICES ASSUME NEW c \in policer'
                   PROVE  \E j \in Slots : Taken(j, c[1])' /\ excl'[j].virtPort = c[2]
      BY DEF SteeredToOwner
    <3>2. /\ c \in policer /\ c # <<m, p>>
          /\ c = <<c[1], c[2]>> /\ c[1] \in ExclMcast
      BY <1>0, <1>3 DEF TypeOK
    <3>3. PICK j \in Slots : Taken(j, c[1]) /\ excl[j].virtPort = c[2]
      BY <3>2 DEF McastInv, SteeredToOwner
    <3>4. j # i
      BY <1>3, <3>2, <3>3 DEF Taken
    <3>5. QED
      BY <2>2, <2>3, <3>2, <3>3, <3>4
  <2>6. GrantedHasSlot'
    <3>1. SUFFICES ASSUME NEW q \in VirtPort, NEW n \in ExclMcast,
                          granted'[q][n] > 0
                   PROVE  \E j \in Slots : /\ Taken(j, n)'
                                           /\ excl'[j].virtPort = q
                                           /\ excl'[j].refCnt >= granted'[q][n]
      BY DEF GrantedHasSlot
    <3>2. <<q, n>> # <<p, m>>
      <4>1. granted[p][m] \in Nat /\ excl[i].refCnt \in Nat
        BY <1>0, <1>3, EntryType DEF GrantTable, Taken
      <4>2. granted[p][m] > 0 => excl[i].refCnt >= granted[p][m]
        BY <1>0, <1>3, OnlySlotOwner
      <4>3. ~(granted'[p][m] > 0)
        BY <1>3, <2>1, <4>1, <4>2
      <4>4. QED
        BY <3>1, <4>3
    <3>3. granted'[q][n] = granted[q][n]
      BY <2>1, <3>2 DEF Mcast
    <3>4. PICK j \in Slots : /\ Taken(j, n)
                             /\ excl[j].virtPort = q
                             /\ excl[j].refCnt >= granted[q][n]
      BY <3>1, <3>3 DEF McastInv, GrantedHasSlot
    <3>5. j # i
      BY <1>3, <3>2, <3>4 DEF Taken
    <3>6. QED
      BY <2>2, <2>3, <3>3, <3>4, <3>5
  <2>7. QED
    BY <2>4, <2>5, <2>6 DEF McastInv
<1>4. QED
  BY <1>1, <1>2, <1>3 DEF DelExcl, FirstTaken, Owns

(* The invariant is inductive.                                             *)
LEMMA McastInvStep == McastInv /\ [Next]_vars => McastInv'
<1> SUFFICES ASSUME McastInv, [Next]_vars PROVE McastInv'
  OBVIOUS
<1>1. TypeOK'
  BY TypeStep DEF McastInv
<1>2. CASE UNCHANGED vars
  BY <1>1, <1>2, ExclUntouched DEF vars
<1>3. CASE Next
  <2>1. PICK p \in VirtPort, m \in Mcast :
          \/ AddShared(p, m) \/ DelShared(p, m)
          \/ AddExclAgain(p, m) \/ AddExclFirst(p, m) \/ DelExcl(p, m)
          \/ UNCHANGED vars
    BY <1>3 DEF Next, FilterAddMac, FilterDelMac, RefuseExcl
  <2>2. QED
    BY <1>1, <1>2, <2>1, SharedStep, AddExclAgainStep, AddExclFirstStep,
       DelExclStep
<1>4. QED
  BY <1>2, <1>3

(* In every reachable state a granted exclusive address has exactly one    *)
(* slot, of its owner, with a count no less than the grants, and no        *)
(* classifier steers an address anywhere else.                             *)
THEOREM McastInvariant == Spec => []McastInv
<1>1. ASSUME Init PROVE McastInv
  <2>1. TypeOK
    BY <1>1 DEF Init, TypeOK
  <2>2. \A i \in Slots : excl[i] = Free
    BY <1>1 DEF Init
  <2>3. \A p \in VirtPort, m \in ExclMcast : ~(granted[p][m] > 0)
    BY <1>1 DEF Init, Mcast
  <2>4. SlotsDistinct
    BY <2>2 DEF SlotsDistinct, Taken
  <2>5. SteeredToOwner
    BY <1>1 DEF Init, SteeredToOwner
  <2>6. QED
    BY <2>1, <2>3, <2>4, <2>5 DEF McastInv, GrantedHasSlot
<1>2. QED
  BY <1>1, McastInvStep, PTL DEF Spec

(* No two ports are ever granted the same exclusive address.               *)
THEOREM ExclusiveOwnership == Spec => []ExclusiveOwner
<1>1. ASSUME McastInv PROVE ExclusiveOwner
  <2>1. SUFFICES ASSUME NEW m \in ExclMcast,
                        NEW p \in VirtPort, NEW q \in VirtPort,
                        granted[p][m] > 0, granted[q][m] > 0
                 PROVE  p = q
    BY DEF ExclusiveOwner
  <2>2. PICK i \in Slots : Taken(i, m) /\ excl[i].virtPort = p
    BY <1>1, <2>1 DEF McastInv, GrantedHasSlot
  <2>3. QED
    BY <1>1, <2>1, <2>2, OnlySlotOwner
<1>2. QED
  BY <1>1, McastInvariant, PTL

(* No classifier steers an exclusive address to a port without a slot.     *)
THEOREM Steering == Spec => []SteeredToOwner
<1>1. McastInv => SteeredToOwner
  BY DEF McastInv
<1>2. QED
  BY <1>1, McastInvariant, PTL

-----------------------------------------------------------------------------
(* An address is in the ALE exactly while its reference count is not zero, *)
(* whichever ALE commands fail: the count and the ALE entry move together. *)
THEOREM SharedAgreement == Spec => []SharedInSync
<1>1. Init => SharedInSync
  BY DEF Init, SharedInSync
<1>2. ASSUME TypeOK, SharedInSync, [Next]_vars PROVE SharedInSync'
  <2>1. CASE UNCHANGED vars
    BY <1>2, <2>1 DEF vars, SharedInSync
  <2>2. ASSUME NEW p \in VirtPort, NEW m \in Mcast, AddShared(p, m)
        PROVE  SharedInSync'
    BY <1>2, <2>2 DEF AddShared, SharedInSync, TypeOK, CountShared
  <2>3. ASSUME NEW p \in VirtPort, NEW m \in Mcast, DelShared(p, m)
        PROVE  SharedInSync'
    BY <1>2, <2>3 DEF DelShared, SharedInSync, TypeOK, LastShared, Unfeed
  <2>4. ASSUME NEW p \in VirtPort, NEW m \in Mcast,
               AddExclAgain(p, m) \/ AddExclFirst(p, m) \/ DelExcl(p, m)
        PROVE  SharedInSync'
    <3>1. m \in ExclMcast /\ UNCHANGED sharedRef
      BY <2>4 DEF AddExclAgain, AddExclFirst, DelExcl, Owns
    <3>2. ale' \in {ale, ale \cup {m}, ale \ {m}}
      BY <2>4 DEF AddExclAgain, AddExclFirst, DelExcl, Owns
    <3>3. QED
      BY <1>2, <3>1, <3>2, McastAssumption DEF SharedInSync
  <2>5. QED
    BY <1>2, <2>1, <2>2, <2>3, <2>4
    DEF Next, FilterAddMac, FilterDelMac, RefuseExcl
<1>3. McastInv => TypeOK
  BY DEF McastInv
<1>4. QED
  BY <1>1, <1>2, <1>3, McastInvariant, PTL DEF Spec

-----------------------------------------------------------------------------
(* The tables and counters of ethfw_mcast.c implement the service: each    *)
(* call is a grant, a release, or nothing the clients can see.             *)
THEOREM ImplementsService == Spec => RefinesService
<1>1. Init => Service!Init
  BY DEF Init, Service!Init, Mcast, Service!Mcast
<1>2. ASSUME McastInv, [Next]_vars PROVE [Service!Next]_granted
  <2>0. TypeOK /\ granted \in GrantTable
    BY <1>2 DEF McastInv, TypeOK, GrantTable
  <2>1. ASSUME NEW p \in VirtPort, NEW m \in Mcast, Acknowledge(p, m),
               m \in ExclMcast =>
                 \A q \in VirtPort \ {p} : ~(granted[q][m] > 0)
        PROVE  Service!Next
    <3>1. \A q \in VirtPort : granted[q][m] \in Nat
      BY <2>0 DEF GrantTable
    <3>2. Service!Grant(p, m)
      BY <2>1, <3>1 DEF Service!Grant, Acknowledge
    <3>3. QED
      BY <3>2 DEF Service!Next, Mcast, Service!Mcast
  <2>2. ASSUME NEW p \in VirtPort, NEW m \in Mcast, GiveBack(p, m)
        PROVE  [Service!Next]_granted
    <3>1. CASE granted[p][m] > 0
      <4>1. Service!Release(p, m)
        BY <2>2, <3>1 DEF GiveBack, Service!Release
      <4>2. QED
        BY <4>1 DEF Service!Next, Mcast, Service!Mcast
    <3>2. CASE ~(granted[p][m] > 0)
      BY <2>2, <3>2 DEF GiveBack
    <3>3. QED
      BY <3>1, <3>2
  <2>3. ASSUME NEW p \in VirtPort, NEW m \in Mcast, AddShared(p, m)
        PROVE  [Service!Next]_granted
    <3>1. m \notin ExclMcast
      BY <2>3, McastAssumption DEF AddShared, CountShared
    <3>2. QED
      BY <2>1, <2>3, <3>1 DEF AddShared, CountShared
  <2>4. ASSUME NEW p \in VirtPort, NEW m \in Mcast, AddExclAgain(p, m)
        PROVE  [Service!Next]_granted
    <3>1. PICK i \in Slots :
            /\ Taken(i, m)
            /\ \/ excl[i].virtPort = p /\ Acknowledge(p, m)
               \/ UNCHANGED granted
      BY <2>4 DEF AddExclAgain, FirstTaken, Owns
    <3>2. m \in ExclMcast
      BY <2>4 DEF AddExclAgain, Owns
    <3>3. QED
      BY <1>2, <2>1, <3>1, <3>2, OnlySlotOwner
  <2>5. ASSUME NEW p \in VirtPort, NEW m \in Mcast, AddExclFirst(p, m)
        PROVE  [Service!Next]_granted
    <3>1. \A q \in VirtPort : ~(granted[q][m] > 0)
      BY <1>2, <2>5 DEF AddExclFirst, McastInv, GrantedHasSlot, NotInTable
    <3>2. QED
      BY <2>1, <2>5, <3>1 DEF AddExclFirst
  <2>6. ASSUME NEW p \in VirtPort, NEW m \in Mcast,
               DelShared(p, m) \/ DelExcl(p, m)
        PROVE  [Service!Next]_granted
    BY <2>2, <2>6 DEF DelShared, DelExcl, LastShared, Unfeed, Owns
  <2>7. CASE UNCHANGED vars
    BY <2>7 DEF vars
  <2>8. QED
    BY <1>2, <2>3, <2>4, <2>5, <2>6, <2>7
    DEF Next, FilterAddMac, FilterDelMac, RefuseExcl
<1>3. QED
  BY <1>1, <1>2, McastInvariant, PTL
  DEF Spec, RefinesService, Service!Spec

-----------------------------------------------------------------------------
(* The bridge's mask and the grants move together: a delete that takes     *)
(* away a port's last grant takes its core out of the mask.                *)
THEOREM FanoutInvariant == Spec => []FanoutSubscribed
<1>1. Init => FanoutSubscribed
  BY DEF Init, FanoutSubscribed
<1>2. ASSUME TypeOK, FanoutSubscribed, [Next]_vars PROVE FanoutSubscribed'
  <2>0. granted \in GrantTable
    BY <1>2 DEF TypeOK, GrantTable
  <2>1. CASE UNCHANGED <<bridgeMask, granted>>
    BY <1>2, <2>1 DEF FanoutSubscribed
  <2>2. ASSUME NEW p \in VirtPort, NEW m \in SharedMcast,
               bridgeMask' = [bridgeMask EXCEPT ![m] = @ \cup {HostOf[p]}],
               Acknowledge(p, m)
        PROVE  FanoutSubscribed'
    <3>1. SUFFICES ASSUME NEW n \in SharedMcast, NEW c \in bridgeMask'[n]
                   PROVE  \E q \in VirtPort : HostOf[q] = c /\ granted'[q][n] > 0
      BY DEF FanoutSubscribed
    <3>2. m \in Mcast /\ n \in Mcast
      BY DEF Mcast
    <3>3. \A q \in VirtPort : granted[q][n] \in Nat
      BY <2>0, <3>2 DEF GrantTable
    <3>4. \A q \in VirtPort : granted[q][n] > 0 => granted'[q][n] > 0
      BY <2>0, <2>2, <3>2, <3>3, AcknowledgeCounts
    <3>5. CASE n = m /\ c = HostOf[p]
      BY <2>0, <2>2, <3>2, <3>3, <3>5, AcknowledgeCounts
    <3>6. CASE c \in bridgeMask[n]
      BY <1>2, <3>4, <3>6 DEF FanoutSubscribed
    <3>7. QED
      BY <1>2, <2>2, <3>1, <3>5, <3>6 DEF TypeOK
  <2>3. ASSUME NEW p \in VirtPort, NEW m \in SharedMcast,
               bridgeMask' = [bridgeMask EXCEPT ![m] = @ \ {HostOf[p]}],
               GiveBack(p, m)
        PROVE  FanoutSubscribed'
    <3>1. SUFFICES ASSUME NEW n \in SharedMcast, NEW c \in bridgeMask'[n]
                   PROVE  \E q \in VirtPort : HostOf[q] = c /\ granted'[q][n] > 0
      BY DEF FanoutSubscribed
    <3>2. c \in bridgeMask[n] /\ (n = m => c # HostOf[p])
      BY <1>2, <2>3, <3>1 DEF TypeOK
    <3>3. PICK q \in VirtPort : HostOf[q] = c /\ granted[q][n] > 0
      BY <1>2, <3>2 DEF FanoutSubscribed
    <3>4. m \in Mcast /\ n \in Mcast /\ <<q, n>> # <<p, m>>
      BY <3>2, <3>3 DEF Mcast
    <3>5. granted'[q][n] = granted[q][n]
      BY <2>0, <2>3, <3>4, GiveBackCounts
    <3>6. QED
      BY <3>3, <3>5
  <2>4. ASSUME NEW p \in VirtPort, NEW m \in Mcast, AddShared(p, m) \/ DelShared(p, m)
        PROVE  FanoutSubscribed'
    BY <2>1, <2>2, <2>3, <2>4 DEF AddShared, DelShared, Unfeed
  <2>5. ASSUME NEW p \in VirtPort, NEW m \in Mcast,
               AddExclAgain(p, m) \/ AddExclFirst(p, m) \/ DelExcl(p, m)
        PROVE  FanoutSubscribed'
    <3>1. m \in ExclMcast /\ UNCHANGED bridgeMask
      BY <2>5 DEF AddExclAgain, AddExclFirst, DelExcl
    <3>2. Acknowledge(p, m) \/ GiveBack(p, m) \/ UNCHANGED granted
      BY <2>5 DEF AddExclAgain, AddExclFirst, DelExcl
    <3>3. \A q \in VirtPort, n \in SharedMcast : granted'[q][n] = granted[q][n]
      BY <2>0, <3>1, <3>2, ExclGrantsOnly
    <3>4. QED
      BY <1>2, <3>1, <3>3 DEF FanoutSubscribed
  <2>6. CASE UNCHANGED vars
    BY <2>1, <2>6 DEF vars
  <2>7. QED
    BY <1>2, <2>4, <2>5, <2>6 DEF Next, FilterAddMac, FilterDelMac, RefuseExcl
<1>3. McastInv => TypeOK
  BY DEF McastInv
<1>4. QED
  BY <1>1, <1>2, <1>3, McastInvariant, PTL DEF Spec

-----------------------------------------------------------------------------
(* The grants of a shared address, by member.                              *)
LEMMA HeldMember ==
  ASSUME NEW m, NEW h
  PROVE  h \in Held(m) <=>
           \E p \in VirtPort : \E k \in 1..granted[p][m] : h = <<p, k>>
BY DEF Held

(* An acknowledged add is one more member of the address's grants and none *)
(* of another's.                                                           *)
LEMMA HeldAcknowledge ==
  ASSUME NEW p \in VirtPort, NEW m \in Mcast,
         granted \in GrantTable, Acknowledge(p, m)
  PROVE  /\ Held(m)' = Held(m) \cup {<<p, granted[p][m] + 1>>}
         /\ <<p, granted[p][m] + 1>> \notin Held(m)
         /\ \A n \in Mcast \ {m} : Held(n)' = Held(n)
<1>1. /\ granted'[p][m] = granted[p][m] + 1
      /\ \A q \in VirtPort, n \in Mcast :
           <<q, n>> # <<p, m>> => granted'[q][n] = granted[q][n]
  BY AcknowledgeCounts
<1>2. \A q \in VirtPort, n \in Mcast : granted[q][n] \in Nat
  BY DEF GrantTable
<1>3. 1..granted'[p][m] = (1..granted[p][m]) \cup {granted[p][m] + 1}
  BY <1>1, <1>2
<1>4. \A h : h \in Held(m)' <=> h \in Held(m) \/ h = <<p, granted[p][m] + 1>>
  <2>1. \A h : h \in Held(m)' <=>
               \E q \in VirtPort : \E k \in 1..granted'[q][m] : h = <<q, k>>
    BY DEF Held
  <2>2. \A q \in VirtPort \ {p} : granted'[q][m] = granted[q][m]
    BY <1>1
  <2>3. QED
    BY <1>3, <2>1, <2>2, HeldMember
<1>5. <<p, granted[p][m] + 1>> \notin Held(m)
  BY <1>2, HeldMember
<1>6. \A n \in Mcast \ {m} : Held(n)' = Held(n)
  BY <1>1 DEF Held
<1>7. QED
  BY <1>4, <1>5, <1>6

(* A delete of what a port holds takes one member away.                    *)
LEMMA HeldGiveBack ==
  ASSUME NEW p \in VirtPort, NEW m \in Mcast,
         granted \in GrantTable, GiveBack(p, m), granted[p][m] > 0
  PROVE  /\ Held(m)' = Held(m) \ {<<p, granted[p][m]>>}
         /\ <<p, granted[p][m]>> \in Held(m)
         /\ \A n \in Mcast \ {m} : Held(n)' = Held(n)
<1>1. /\ granted'[p][m] = granted[p][m] - 1
      /\ \A q \in VirtPort, n \in Mcast :
           <<q, n>> # <<p, m>> => granted'[q][n] = granted[q][n]
  BY GiveBackCounts
<1>2. \A q \in VirtPort, n \in Mcast : granted[q][n] \in Nat
  BY DEF GrantTable
<1>3. 1..granted'[p][m] = (1..granted[p][m]) \ {granted[p][m]}
  BY <1>1, <1>2
<1>4. \A h : h \in Held(m)' <=> h \in Held(m) /\ h # <<p, granted[p][m]>>
  <2>1. \A h : h \in Held(m)' <=>
               \E q \in VirtPort : \E k \in 1..granted'[q][m] : h = <<q, k>>
    BY DEF Held
  <2>2. \A q \in VirtPort \ {p} : granted'[q][m] = granted[q][m]
    BY <1>1
  <2>3. QED
    BY <1>3, <2>1, <2>2, HeldMember
<1>5. <<p, granted[p][m]>> \in Held(m)
  BY <1>2, HeldMember
<1>6. \A n \in Mcast \ {m} : Held(n)' = Held(n)
  BY <1>1 DEF Held
<1>7. QED
  BY <1>4, <1>5, <1>6

(* Every shared count is the size of a finite set of grants.               *)
CountsHeld ==
  \A m \in SharedMcast : IsFiniteSet(Held(m)) /\ sharedRef[m] = Cardinality(Held(m))

(* If clients delete only what they hold, the reference count of a shared  *)
(* address is the number of adds acknowledged and not yet given back, for  *)
(* any number of ports: no delete eats the reference of another port.      *)
THEOREM SharedCounts ==
  ASSUME ~StrayDelete
  PROVE  Spec => [](CountsHeld /\ SharedRefCounts)
<1>1. ASSUME Init PROVE CountsHeld
  <2>1. \A m \in SharedMcast : Held(m) = {} /\ sharedRef[m] = 0
    BY <1>1 DEF Init, Held, Mcast
  <2>2. QED
    BY <2>1, FS_EmptySet DEF CountsHeld
<1>2. ASSUME TypeOK, CountsHeld, [Next]_vars PROVE CountsHeld'
  <2>0. granted \in GrantTable /\ sharedRef \in [SharedMcast -> Nat]
    BY <1>2 DEF TypeOK, GrantTable
  <2>1. CASE UNCHANGED <<sharedRef, granted>>
    BY <1>2, <2>1 DEF CountsHeld, Held
  <2>2. ASSUME NEW p \in VirtPort, NEW m \in SharedMcast,
               CountShared(m), Acknowledge(p, m)
        PROVE  CountsHeld'
    <3>1. SUFFICES ASSUME NEW n \in SharedMcast
                   PROVE  IsFiniteSet(Held(n)') /\ sharedRef'[n] = Cardinality(Held(n)')
      BY DEF CountsHeld
    <3>2. m \in Mcast /\ n \in Mcast
      BY DEF Mcast
    <3>3. IsFiniteSet(Held(n)) /\ sharedRef[n] = Cardinality(Held(n))
      BY <1>2 DEF CountsHeld
    <3>4. CASE n = m
      <4>1. sharedRef'[m] = sharedRef[m] + 1
        BY <2>0, <2>2 DEF CountShared
      <4>2. /\ Held(m)' = Held(m) \cup {<<p, granted[p][m] + 1>>}
            /\ <<p, granted[p][m] + 1>> \notin Held(m)
        BY <2>0, <2>2, <3>2, HeldAcknowledge
      <4>3. QED
        BY <3>3, <3>4, <4>1, <4>2, FS_AddElement
    <3>5. CASE n # m
      <4>1. sharedRef'[n] = sharedRef[n]
        BY <2>0, <2>2, <3>5 DEF CountShared
      <4>2. Held(n)' = Held(n)
        BY <2>0, <2>2, <3>2, <3>5, HeldAcknowledge
      <4>3. QED
        BY <3>3, <4>1, <4>2
    <3>6. QED
      BY <3>4, <3>5
  <2>3. ASSUME NEW p \in VirtPort, NEW m \in SharedMcast, granted[p][m] > 0,
               sharedRef' = [sharedRef EXCEPT ![m] = @ - 1], GiveBack(p, m)
        PROVE  CountsHeld'
    <3>1. SUFFICES ASSUME NEW n \in SharedMcast
                   PROVE  IsFiniteSet(Held(n)') /\ sharedRef'[n] = Cardinality(Held(n)')
      BY DEF CountsHeld
    <3>2. m \in Mcast /\ n \in Mcast
      BY DEF Mcast
    <3>3. IsFiniteSet(Held(n)) /\ sharedRef[n] = Cardinality(Held(n))
      BY <1>2 DEF CountsHeld
    <3>4. CASE n = m
      <4>1. sharedRef'[m] = sharedRef[m] - 1
        BY <2>0, <2>3
      <4>2. /\ Held(m)' = Held(m) \ {<<p, granted[p][m]>>}
            /\ <<p, granted[p][m]>> \in Held(m)
        BY <2>0, <2>3, <3>2, HeldGiveBack
      <4>3. QED
        BY <3>3, <3>4, <4>1, <4>2, FS_RemoveElement
    <3>5. CASE n # m
      <4>1. sharedRef'[n] = sharedRef[n]
        BY <2>0, <2>3, <3>5
      <4>2. Held(n)' = Held(n)
        BY <2>0, <2>3, <3>2, <3>5, HeldGiveBack
      <4>3. QED
        BY <3>3, <4>1, <4>2
    <3>6. QED
      BY <3>4, <3>5
  <2>4. ASSUME NEW p \in VirtPort, NEW m \in Mcast,
               \/ AddShared(p, m)
               \/ granted[p][m] > 0 /\ DelShared(p, m)
        PROVE  CountsHeld'
    BY <2>1, <2>2, <2>3, <2>4 DEF AddShared, DelShared
  <2>5. ASSUME NEW p \in VirtPort, NEW m \in Mcast,
               AddExclAgain(p, m) \/ AddExclFirst(p, m) \/ DelExcl(p, m)
        PROVE  CountsHeld'
    <3>1. m \in ExclMcast /\ UNCHANGED sharedRef
      BY <2>5 DEF AddExclAgain, AddExclFirst, DelExcl
    <3>2. Acknowledge(p, m) \/ GiveBack(p, m) \/ UNCHANGED granted
      BY <2>5 DEF AddExclAgain, AddExclFirst, DelExcl
    <3>3. \A q \in VirtPort, n \in SharedMcast : granted'[q][n] = granted[q][n]
      BY <2>0, <3>1, <3>2, ExclGrantsOnly
    <3>4. \A n \in SharedMcast : Held(n)' = Held(n)
      BY <3>3 DEF Held
    <3>5. QED
      BY <1>2, <3>1, <3>4 DEF CountsHeld
  <2>6. CASE UNCHANGED vars
    BY <2>1, <2>6 DEF vars
  <2>7. QED
    BY <1>2, <2>4, <2>5, <2>6 DEF Next, FilterAddMac, FilterDelMac, RefuseExcl
<1>3. McastInv => TypeOK
  BY DEF McastInv
<1>4. CountsHeld => SharedRefCounts
  BY DEF CountsHeld, SharedRefCounts
<1>5. QED
  BY <1>1, <1>2, <1>3, <1>4, McastInvariant, PTL DEF Spec

-----------------------------------------------------------------------------
(* Stronger than ExclusiveServed, and inductive if an add cannot fail half *)
(* way through: whatever has a slot is in the ALE and has its classifier.  *)
SlotsServed ==
  \A i \in Slots :
    excl[i] # Free => /\ excl[i].macAddr \in ale
                      /\ <<excl[i].macAddr, excl[i].virtPort>> \in policer

(* A step that leaves the owners of the slots alone and takes nothing from *)
(* ALE and classifiers but shared addresses keeps every slot served.       *)
LEMMA SlotsKept ==
  ASSUME TypeOK, SlotsServed,
         \A i \in Slots :
           excl'[i] # Free => /\ excl[i] # Free
                              /\ excl'[i].macAddr = excl[i].macAddr
                              /\ excl'[i].virtPort = excl[i].virtPort,
         \A n \in ExclMcast : n \in ale => n \in ale',
         policer \subseteq policer'
  PROVE  SlotsServed'
BY EntryType DEF SlotsServed

(* Every operation keeps the slots served: the delete that takes the       *)
(* address out of the ALE frees the only slot that has it.                 *)
LEMMA SlotsServedStep ==
  ASSUME MayFail \cap {"ADD_EXCL", "SET_POLICER"} = {},
         McastInv, SlotsServed, [Next]_vars
  PROVE  SlotsServed'
<1>0. TypeOK
  BY DEF McastInv
<1>1. CASE UNCHANGED vars
  BY <1>1 DEF vars, SlotsServed
<1>2. ASSUME NEW p \in VirtPort, NEW m \in Mcast, AddShared(p, m) \/ DelShared(p, m)
      PROVE  SlotsServed'
  <2>1. m \notin ExclMcast /\ UNCHANGED <<excl, policer>>
    BY <1>2, McastAssumption DEF AddShared, DelShared
  <2>2. \A n \in ExclMcast : n \in ale => n \in ale'
    BY <1>2, <2>1 DEF AddShared, DelShared
  <2>3. QED
    BY <1>0, <2>1, <2>2, SlotsKept
<1>3. ASSUME NEW p \in VirtPort, NEW m \in Mcast, AddExclAgain(p, m)
      PROVE  SlotsServed'
  <2>1. UNCHANGED <<ale, policer>>
    BY <1>3 DEF AddExclAgain
  <2>2. PICK i \in Slots :
          /\ excl[i] # Free
          /\ excl' = [excl EXCEPT ![i].refCnt = @ + 1] \/ excl' = excl
    BY <1>3 DEF AddExclAgain, FirstTaken, Taken
  <2>3. excl[i] \in Entry
    BY <1>0, <2>2 DEF TypeOK
  <2>4. \A j \in Slots :
          /\ excl'[j] # Free => excl[j] # Free
          /\ excl'[j].macAddr = excl[j].macAddr
          /\ excl'[j].virtPort = excl[j].virtPort
    BY <1>0, <2>2, <2>3 DEF TypeOK, Entry
  <2>5. QED
    BY <1>0, <2>1, <2>4, SlotsKept
<1>4. ASSUME NEW p \in VirtPort, NEW m \in Mcast, AddExclFirst(p, m)
      PROVE  SlotsServed'
  <2>1. PICK i \in Slots :
          excl' = [excl EXCEPT ![i] = [macAddr |-> m, virtPort |-> p,
                                       refCnt |-> 1]]
    BY <1>4 DEF AddExclFirst
  <2>2. ale' = ale \cup {m} /\ policer' = policer \cup {<<m, p>>}
    BY <1>4 DEF AddExclFirst, AleOk
  <2>3. /\ \A j \in Slots \ {i} : excl'[j] = excl[j]
        /\ excl'[i].macAddr = m /\ excl'[i].virtPort = p
    BY <1>0, <2>1 DEF TypeOK
  <2>4. QED
    BY <2>2, <2>3 DEF SlotsServed
<1>5. ASSUME NEW p \in VirtPort, NEW m \in Mcast, DelExcl(p, m)
      PROVE  SlotsServed'
  <2>1. CASE UNCHANGED <<excl, ale, policer>>
    BY <2>1 DEF SlotsServed
  <2>2. ASSUME NEW i \in Slots, Taken(i, m), excl[i].refCnt > 1,
               excl' = [excl EXCEPT ![i].refCnt = @ - 1],
               UNCHANGED <<ale, policer>>
        PROVE  SlotsServed'
    <3>1. excl[i] \in Entry /\ excl[i] # Free
      BY <1>0, <2>2 DEF TypeOK, Taken
    <3>2. \A j \in Slots :
            /\ excl'[j] # Free => excl[j] # Free
            /\ excl'[j].macAddr = excl[j].macAddr
            /\ excl'[j].virtPort = excl[j].virtPort
      BY <1>0, <2>2, <3>1 DEF TypeOK, Entry
    <3>3. QED
      BY <1>0, <2>2, <3>2, SlotsKept
  <2>3. ASSUME NEW i \in Slots, Taken(i, m),
               excl' = [excl EXCEPT ![i] = Free],
               ale' = ale \ {m}, policer' = policer \ {<<m, p>>}
        PROVE  SlotsServed'
    <3>1. SUFFICES ASSUME NEW j \in Slots, excl'[j] # Free
                   PROVE  /\ excl'[j].macAddr \in ale'
                          /\ <<excl'[j].macAddr, excl'[j].virtPort>> \in policer'
      BY DEF SlotsServed
    <3>2. j # i /\ excl'[j] = excl[j]
      BY <1>0, <2>3, <3>1 DEF TypeOK
    <3>3. m \in ExclMcast
      BY <1>5 DEF DelExcl
    <3>4. excl[j].macAddr # m
      BY <2>3, <3>1, <3>2, <3>3 DEF McastInv, SlotsDistinct, Taken
    <3>5. QED
      BY <2>3, <3>1, <3>2, <3>4 DEF SlotsServed
  <2>4. QED
    BY <1>5, <2>1, <2>2, <2>3 DEF DelExcl, FirstTaken
<1>6. QED
  BY <1>1, <1>2, <1>3, <1>4, <1>5
  DEF Next, FilterAddMac, FilterDelMac, RefuseExcl

(* If clients delete only what they hold and an add does not fail half way *)
(* through, what was granted stays served, whoever else adds and deletes   *)
(* and whichever other ALE commands fail: an exclusive address is in the   *)
(* ALE and steered to its owner, a shared one is in the ALE.               *)
THEOREM GrantsStayServed ==
  ASSUME ~StrayDelete, MayFail \cap {"ADD_EXCL", "SET_POLICER"} = {}
  PROVE  Spec => []GrantsServed
<1>1. Init => SlotsServed
  BY DEF Init, SlotsServed
<1>2. McastInv /\ SlotsServed /\ [Next]_vars => SlotsServed'
  BY SlotsServedStep
<1>3. ASSUME McastInv, SlotsServed, CountsHeld, SharedInSync
      PROVE  GrantsServed
  <2>1. ExclusiveServed
    BY <1>3 DEF ExclusiveServed, McastInv, GrantedHasSlot, SlotsServed, Taken
  <2>2. SharedServed
    <3>1. SUFFICES ASSUME NEW p \in VirtPort, NEW m \in SharedMcast,
                          granted[p][m] > 0
                   PROVE  m \in ale
      BY DEF SharedServed
    <3>2. granted[p][m] \in Nat /\ sharedRef[m] \in Nat
      BY <1>3 DEF McastInv, TypeOK, Mcast
    <3>3. <<p, 1>> \in Held(m)
      BY <3>1, <3>2, HeldMember
    <3>4. sharedRef[m] # 0
      BY <1>3, <3>3, FS_EmptySet DEF CountsHeld
    <3>5. QED
      BY <1>3, <3>2, <3>4 DEF SharedInSync
  <2>3. QED
    BY <2>1, <2>2 DEF GrantsServed
<1>4. Spec => [](CountsHeld /\ SharedRefCounts)
  BY SharedCounts
<1>5. QED
  BY <1>1, <1>2, <1>3, <1>4, McastInvariant, SharedAgreement, PTL DEF Spec
=============================================================================
