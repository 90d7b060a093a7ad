---------------------------- MODULE RecoveryProofs ----------------------------
(***************************************************************************)
(* Proofs about the registry of clients and the recovery, for every set of *)
(* cores and ports, every number of objects per core and of lock-ups. The  *)
(* reference count of a core is the number of its objects in use, and the  *)
(* driver sees the core attached exactly while there is one: by the        *)
(* registry's own operations first, then by the whole system's, whatever   *)
(* overlaps a recovery.  That no switch is reset with a channel open, what *)
(* a client is told and when, and that the recovery is a barrier to its    *)
(* clients, is proved for clients that come between recoveries, which is   *)
(* when it is true; they may go at any time, between any two steps, and    *)
(* any notification and any confirmation of a teardown may be lost.        *)
(***************************************************************************)
EXTENDS Recovery, FiniteSetTheorems, SequenceTheorems, TLAPS

(* A core's slots, and with them its objects in use, are finitely many.    *)
LEMMA FiniteSlots ==
  ASSUME NEW c \in Core
  PROVE  IsFiniteSet(InUse(c)) /\ Cardinality(InUse(c)) \in Nat
<1>1. IsFiniteSet(Slots)
  BY TableAssumption, FS_Interval DEF Slots
<1>2. InUse(c) \in SUBSET Slots
  BY DEF InUse
<1>3. IsFiniteSet(InUse(c))
  BY <1>1, <1>2, FS_Subset
<1>4. QED
  BY <1>3, FS_CardinalityType

(* Writing one object: the slots in use of its core follow the new value,  *)
(* those of the other cores stay.                                          *)
LEMMA WriteSlot ==
  ASSUME clientObj \in [Core -> [Slots -> Object \cup {Free}]],
         NEW c \in Core, NEW s \in Slots, NEW o \in Object \cup {Free},
         Put(c, s, o)
  PROVE  /\ clientObj' \in [Core -> [Slots -> Object \cup {Free}]]
         /\ InUse(c)' = IF o = Free THEN InUse(c) \ {s} ELSE InUse(c) \cup {s}
         /\ \A d \in Core : d # c => InUse(d)' = InUse(d)
<1>1. clientObj' = [d \in Core |-> IF d = c
                      THEN [t \in Slots |-> IF t = s THEN o ELSE clientObj[c][t]]
                      ELSE clientObj[d]]
  BY DEF Put
<1>2. clientObj' \in [Core -> [Slots -> Object \cup {Free}]]
  BY <1>1
<1>3. \A t \in Slots : clientObj'[c][t] = IF t = s THEN o ELSE clientObj[c][t]
  BY <1>1
<1>4. InUse(c)' = IF o = Free THEN InUse(c) \ {s} ELSE InUse(c) \cup {s}
  BY <1>3 DEF InUse
<1>5. ASSUME NEW d \in Core, d # c PROVE InUse(d)' = InUse(d)
  BY <1>1, <1>5 DEF InUse
<1>6. QED
  BY <1>2, <1>4, <1>5

(* Rewriting an object in use leaves every slot in use that was.           *)
LEMMA Rewrite ==
  ASSUME TableInv, NEW c \in Core, NEW s \in InUse(c), NEW o \in Object,
         Put(c, s, o), UNCHANGED <<rmRefCnt, mcm>>
  PROVE  TableInv'
<1>1. s \in Slots /\ o # Free
  BY TableAssumption DEF InUse
<1>2. /\ clientObj' \in [Core -> [Slots -> Object \cup {Free}]]
      /\ InUse(c)' = InUse(c) \cup {s}
      /\ \A d \in Core : d # c => InUse(d)' = InUse(d)
  BY <1>1, WriteSlot DEF TableInv, TableTypeOK
<1>3. \A d \in Core : InUse(d)' = InUse(d)
  BY <1>2
<1>4. QED
  BY <1>2, <1>3 DEF TableInv, TableTypeOK, RefCntIsObjects, CoreAttachedOnce

-----------------------------------------------------------------------------
(* The empty registry.                                                     *)
LEMMA InitStep == TableInit => TableInv
<1> SUFFICES ASSUME TableInit PROVE TableInv
  OBVIOUS
<1>1. \A c \in Core : InUse(c) = {}
  BY DEF TableInit, InUse
<1>2. QED
  BY <1>1, FS_EmptySet
  DEF TableInit, TableInv, TableTypeOK, RefCntIsObjects, CoreAttachedOnce

(* An attach takes one slot and one reference, and attaches the core if    *)
(* it had none.                                                            *)
LEMMA AttachStep ==
  ASSUME TableInv, NEW c \in Core, NEW p \in VirtPort, NEW tok \in Token,
         Attach(c, p, tok)
  PROVE  TableInv'
<1> DEFINE o == [virtPort |-> p, token |-> tok, isIdle |-> FALSE]
<1>1. PICK s \in Slots :
        /\ FirstFree(c, s)
        /\ Put(c, s, o)
  BY DEF Attach
<1>2. o \in Object
  BY DEF Object
<1> HIDE DEF o
<1>2a. o # Free
  BY <1>2, TableAssumption
<1>3. s \notin InUse(c)
  BY <1>1 DEF FirstFree, InUse
<1>4. /\ clientObj' \in [Core -> [Slots -> Object \cup {Free}]]
      /\ InUse(c)' = InUse(c) \cup {s}
      /\ \A d \in Core : d # c => InUse(d)' = InUse(d)
  BY <1>1, <1>2, <1>2a, WriteSlot DEF TableInv, TableTypeOK
<1>5. Cardinality(InUse(c)') = Cardinality(InUse(c)) + 1
  BY <1>3, <1>4, FiniteSlots, FS_AddElement
<1>6. /\ rmRefCnt' \in [Core -> Nat]
      /\ rmRefCnt'[c] = rmRefCnt[c] + 1
      /\ \A d \in Core : d # c => rmRefCnt'[d] = rmRefCnt[d]
  BY DEF Attach, TakeReference, TableInv, TableTypeOK
<1>7. RefCntIsObjects'
  BY <1>4, <1>5, <1>6 DEF TableInv, RefCntIsObjects
<1>8. rmRefCnt[c] = 0 <=> InUse(c) = {}
  BY FiniteSlots, FS_EmptySet DEF TableInv, RefCntIsObjects
<1>9. /\ mcm' \in [Core -> Nat]
      /\ mcm'[c] = 1
      /\ \A d \in Core : d # c => mcm'[d] = mcm[d]
  BY <1>8 DEF Attach, TakeReference, TableInv, TableTypeOK, CoreAttachedOnce
<1>10. CoreAttachedOnce'
  BY <1>4, <1>9 DEF TableInv, CoreAttachedOnce
<1>11. QED
  BY <1>4, <1>6, <1>7, <1>9, <1>10 DEF TableInv, TableTypeOK

(* A detach gives back one slot and one reference, and detaches the core   *)
(* with its last one.                                                      *)
LEMMA DetachStep ==
  ASSUME TableInv, NEW c \in Core, NEW tok \in Token, Detach(c, tok)
  PROVE  TableInv'
<1>1. PICK s \in Slots :
        /\ FirstWith(c, s, tok)
        /\ Put(c, s, Free)
  BY DEF Detach
<1>2. s \in InUse(c)
  BY <1>1 DEF FirstWith, HasToken, InUse
<1>3. /\ clientObj' \in [Core -> [Slots -> Object \cup {Free}]]
      /\ InUse(c)' = InUse(c) \ {s}
      /\ \A d \in Core : d # c => InUse(d)' = InUse(d)
  BY <1>1, WriteSlot DEF TableInv, TableTypeOK
<1>4. /\ Cardinality(InUse(c)') = Cardinality(InUse(c)) - 1
      /\ Cardinality(InUse(c)') \in Nat
      /\ Cardinality(InUse(c)') = 0 <=> InUse(c)' = {}
  <2>1. IsFiniteSet(InUse(c) \ {s})
    BY FiniteSlots, FS_RemoveElement
  <2>2. QED
    BY <1>2, <1>3, <2>1, FiniteSlots, FS_RemoveElement, FS_CardinalityType,
       FS_EmptySet
<1>5. rmRefCnt[c] = Cardinality(InUse(c)) /\ Cardinality(InUse(c)) \in Nat
  BY FiniteSlots DEF TableInv, RefCntIsObjects
<1>6. /\ rmRefCnt' \in [Core -> Nat]
      /\ rmRefCnt'[c] = rmRefCnt[c] - 1
      /\ \A d \in Core : d # c => rmRefCnt'[d] = rmRefCnt[d]
  <2>1. rmRefCnt[c] - 1 \in Nat
    BY <1>4, <1>5
  <2>2. QED
    BY <2>1 DEF Detach, DropReference, TableInv, TableTypeOK
<1>7. RefCntIsObjects'
  BY <1>3, <1>4, <1>5, <1>6 DEF TableInv, RefCntIsObjects
<1>8. mcm[c] = 1
  BY <1>2 DEF TableInv, CoreAttachedOnce
<1>9. rmRefCnt[c] = 1 <=> InUse(c)' = {}
  BY <1>4, <1>5
<1>10. /\ mcm' \in [Core -> Nat]
       /\ mcm'[c] = IF InUse(c)' = {} THEN 0 ELSE 1
       /\ \A d \in Core : d # c => mcm'[d] = mcm[d]
  BY <1>8, <1>9 DEF Detach, DropReference, LastReference, TableInv, TableTypeOK
<1>11. CoreAttachedOnce'
  BY <1>3, <1>10 DEF TableInv, CoreAttachedOnce
<1>12. QED
  BY <1>3, <1>6, <1>7, <1>10, <1>11 DEF TableInv, TableTypeOK

(* Marking an object idle, and clearing the mark, rewrite it.              *)
LEMMA MarkStep ==
  ASSUME TableInv, NEW c \in Core, NEW s \in InUse(c), NEW b \in BOOLEAN,
         Put(c, s, [clientObj[c][s] EXCEPT !.isIdle = b]),
         UNCHANGED <<rmRefCnt, mcm>>
  PROVE  TableInv'
<1>1. clientObj[c][s] \in Object
  BY DEF TableInv, TableTypeOK, InUse
<1>2. [clientObj[c][s] EXCEPT !.isIdle = b] \in Object
  BY <1>1 DEF Object
<1>3. QED
  BY <1>2, Rewrite

(* Every request and every broadcast step preserves the invariant.         *)
LEMMA TableStep == TableInv /\ [TableNext]_tableVars => TableInv'
<1> SUFFICES ASSUME TableInv, [TableNext]_tableVars PROVE TableInv'
  OBVIOUS
<1>1. CASE UNCHANGED tableVars
  BY <1>1 DEF tableVars, TableInv, TableTypeOK, RefCntIsObjects,
              CoreAttachedOnce, InUse
<1>2. ASSUME NEW c \in Core, NEW p \in VirtPort, NEW tok \in {p, NoToken},
             Attach(c, p, tok)
      PROVE  TableInv'
  <2>1. tok \in Token
    BY DEF Token
  <2>2. QED
    BY <1>2, <2>1, AttachStep
<1>3. ASSUME NEW c \in Core, NEW tok \in Token, Detach(c, tok) PROVE TableInv'
  BY <1>3, DetachStep
<1>4. ASSUME NEW c \in Core, NEW tok \in Token, TeardownCompletion(c, tok)
      PROVE  TableInv'
  <2>1. PICK s \in Slots :
          /\ FirstWith(c, s, tok)
          /\ Put(c, s, [clientObj[c][s] EXCEPT !.isIdle = TRUE])
    BY <1>4 DEF TeardownCompletion
  <2>2. s \in InUse(c)
    BY <2>1 DEF FirstWith, HasToken, InUse
  <2>3. UNCHANGED <<rmRefCnt, mcm>>
    BY <1>4 DEF TeardownCompletion
  <2>4. QED
    BY <2>1, <2>2, <2>3, MarkStep
<1>5. ASSUME NEW c \in Core, NEW s \in InUse(c), ClearIdle(c, s)
      PROVE  TableInv'
  <2>1. /\ Put(c, s, [clientObj[c][s] EXCEPT !.isIdle = FALSE])
        /\ UNCHANGED <<rmRefCnt, mcm>>
    BY <1>5 DEF ClearIdle
  <2>2. QED
    BY <2>1, MarkStep
<1>6. QED
  BY <1>1, <1>2, <1>3, <1>4, <1>5
  DEF TableNext, AttachRefused, TokenRefused

-----------------------------------------------------------------------------
(* The reference count of a core is the number of its client objects,      *)
(* whatever requests come in whatever order and fail where they may, and   *)
(* EnetMcm sees the core attached once exactly while it has an object.     *)
THEOREM CoreReferences == TableSpec => []TableInv
<1>1. QED
  BY InitStep, TableStep, PTL DEF TableSpec

-----------------------------------------------------------------------------
MonType ==
  [pc : Phase, todo : SUBSET Places, numTotal : Nat, port : BOOLEAN]

(* The steps of the monitor and of the clients, one disjunct each.         *)
LEMMA NextCases ==
  ASSUME [Next]_vars
  PROVE  \/ UNCHANGED vars
         \/ \E trigger \in Trigger : Detect(trigger)
         \/ \E note \in {"HWERROR", "COMPLETE"} : Broadcast(note)
         \/ BroadcastDone("HWERROR", "TEARDOWN")
         \/ TeardownComplete
         \/ NoPendingReq
         \/ ResetHandler
         \/ PortLinked
         \/ BroadcastDone("COMPLETE", "RESUME")
         \/ Resume
         \/ \E p \in VirtPort : AttachServed(p)
         \/ \E p \in VirtPort : Attached(p)
         \/ \E p \in VirtPort : AttachOrphaned(p)
         \/ \E p \in VirtPort : AttachFull(p)
         \/ \E p \in VirtPort : CloseTx(p)
         \/ \E p \in VirtPort : CloseRx(p)
         \/ \E p \in VirtPort : Detached(p)
         \/ \E p \in VirtPort : RegisterIpv4(p)
         \/ \E p \in VirtPort : CloseDma(p)
         \/ \E p \in VirtPort : SendTeardownCompletion(p)
         \/ \E p \in VirtPort : OpenDma(p)
         \/ \E p \in VirtPort : AssertFails(p)
BY DEF Next, Monitor, Release, RecoveryTask

(* There are finitely many objects.                                        *)
LEMMA FiniteObjects == IsFiniteSet(AttachedObj) /\ Cardinality(AttachedObj) \in Nat
<1>1. IsFiniteSet(Slots)
  BY TableAssumption, FS_Interval DEF Slots
<1>2. IsFiniteSet(Places)
  BY <1>1, RecoveryAssumption, FS_Product DEF Places
<1>3. AttachedObj \in SUBSET Places
  BY DEF AttachedObj, Places
<1>4. QED
  BY <1>2, <1>3, FS_Subset, FS_CardinalityType

(* The monitor's variable keeps its type.                                  *)
LEMMA MonStep ==
  ASSUME mon \in MonType, [Next]_vars
  PROVE  mon' \in MonType
<1>1. ASSUME UNCHANGED mon PROVE mon' \in MonType
  BY <1>1
<1>2. ASSUME NEW pc \in Phase, Go(pc) PROVE mon' \in MonType
  BY <1>2 DEF Go, MonType
<1>3. ASSUME NEW trigger \in Trigger, Detect(trigger) PROVE mon' \in MonType
  BY <1>3, FiniteObjects DEF Detect, MonType, Phase
<1>4. ASSUME NEW note \in {"HWERROR", "COMPLETE"}, Broadcast(note)
      PROVE  mon' \in MonType
  BY <1>4 DEF Broadcast, MonType
<1>5. {"TEARDOWN", "ARP", "RESET", "LINK", "COMPLETE", "RESUME", "WATCH"}
        \subseteq Phase
  BY DEF Phase
<1>6. QED
  BY <1>1, <1>2, <1>3, <1>4, <1>5, NextCases
  DEF vars, monVars, BroadcastDone, TeardownComplete, NoPendingReq,
      ResetHandler, PortLinked, Resume, AttachServed, Attached, AttachOrphaned,
      AttachFull, CloseTx, CloseRx, Detached, RegisterIpv4, CloseDma,
      SendTeardownCompletion, OpenDma, AssertFails

(* Every step of the recovery is a request or a broadcast to the registry, *)
(* or leaves it alone.                                                     *)
LEMMA TableMapping ==
  ASSUME mon \in MonType, [Next]_vars
  PROVE  [TableNext]_tableVars
<1>1. CASE UNCHANGED tableVars
  BY <1>1
<1>2. ASSUME NEW p \in VirtPort, NEW tok \in {p, NoToken},
             Attach(CoreOf[p], p, tok)
      PROVE  TableNext
  BY <1>2, RecoveryAssumption DEF TableNext
<1>3. ASSUME NEW p \in VirtPort, Detach(CoreOf[p], p) PROVE TableNext
  BY <1>3, RecoveryAssumption DEF TableNext, Token
<1>4. ASSUME NEW p \in VirtPort, TeardownCompletion(CoreOf[p], p)
      PROVE  TableNext
  BY <1>4, RecoveryAssumption DEF TableNext, Token
<1>5. ASSUME NEW o \in mon.todo, o[2] \in InUse(o[1]), ClearIdle(o[1], o[2])
      PROVE  TableNext
  <2>1. o[1] \in Core
    BY DEF MonType, Places
  <2>2. QED
    BY <1>5, <2>1 DEF TableNext
<1>6. ASSUME NEW note, Broadcast(note) PROVE [TableNext]_tableVars
  BY <1>5, <1>6 DEF Broadcast
<1>7. QED
  BY <1>1, <1>2, <1>3, <1>4, <1>6, NextCases
  DEF vars, Detect, BroadcastDone, TeardownComplete, NoPendingReq,
      ResetHandler, PortLinked, Resume, AttachServed, Attached, AttachOrphaned,
      AttachFull, AttachRefused, CloseTx, CloseRx, Detached, RegisterIpv4,
      CloseDma, SendTeardownCompletion, OpenDma, AssertFails

(* Through any recovery, with attaches, detaches and failed attaches at    *)
(* any point of it, the reference count of a core is its objects in use    *)
(* and the driver sees the core attached once while there is one.          *)
THEOREM RecoveryReferences == Spec => []TableInv
<1> DEFINE Inv == TableInv /\ mon \in MonType
<1>1. Init => Inv
  BY InitStep DEF Init, MonType, Phase
<1>2. Inv /\ [Next]_vars => Inv'
  BY MonStep, TableMapping, TableStep
<1>3. QED
  BY <1>1, <1>2, PTL DEF Spec
-----------------------------------------------------------------------------
(* What the steps of a client do to the contents its inbox may have.       *)
LEMMA Inboxes ==
  /\ Append(<<>>, "HWERROR") = <<"HWERROR">>
  /\ Append(<<"COMPLETE">>, "HWERROR") = <<"COMPLETE", "HWERROR">>
  /\ Append(<<>>, "COMPLETE") = <<"COMPLETE">>
  /\ Head(<<"HWERROR">>) = "HWERROR"
  /\ Head(<<"CLOSED">>) = "CLOSED"
  /\ Head(<<"COMPLETE">>) = "COMPLETE"
  /\ Head(<<"COMPLETE", "HWERROR">>) = "COMPLETE"
  /\ Head(<<"STOPPED">>) = "STOPPED"
  /\ <<"STOPPED">> \o Tail(<<"HWERROR">>) = <<"STOPPED">>
  /\ <<"CLOSED">> \o Tail(<<"HWERROR">>) = <<"CLOSED">>
  /\ Tail(<<"CLOSED">>) = <<>>
  /\ Tail(<<"COMPLETE">>) = <<>>
  /\ Tail(<<"COMPLETE", "HWERROR">>) = <<"HWERROR">>
<1>1. \A a : /\ Append(<<>>, a) = <<a>>
             /\ Head(<<a>>) = a
             /\ Tail(<<a>>) = <<>>
             /\ <<a>> \o <<>> = <<a>>
  OBVIOUS
<1>2. \A a, b : Head(<<a, b>>) = a /\ Tail(<<a, b>>) = <<b>>
  OBVIOUS
<1>3. Append(<<"COMPLETE">>, "HWERROR") = <<"COMPLETE", "HWERROR">>
  <2> DEFINE N == {"COMPLETE", "HWERROR"}
             s == Append(<<"COMPLETE">>, "HWERROR")
             t == <<"COMPLETE", "HWERROR">>
  <2>1. s \in Seq(N) /\ Len(s) = 2 /\ s[1] = "COMPLETE" /\ s[2] = "HWERROR"
    OBVIOUS
  <2>2. t \in Seq(N) /\ Len(t) = 2 /\ t[1] = "COMPLETE" /\ t[2] = "HWERROR"
    OBVIOUS
  <2> HIDE DEF s, t
  <2>3. \A i \in 1..Len(s) : s[i] = t[i]
    BY <2>1, <2>2
  <2>4. s = t
    BY <2>1, <2>2, <2>3, SeqEqual
  <2>5. QED
    BY <2>4 DEF s, t
<1>4. QED
  BY <1>1, <1>2, <1>3

(* A client has one inbox at a time.                                       *)
LEMMA InboxesDiffer ==
  /\ <<"HWERROR">> # <<>> /\ <<"CLOSED">> # <<>>
  /\ <<"COMPLETE">> # <<>> /\ <<"COMPLETE", "HWERROR">> # <<>>
  /\ <<"STOPPED">> # <<>>
  OBVIOUS

-----------------------------------------------------------------------------
(* A step that leaves every object in use, its client and its token.       *)
SameObjects ==
  \A c \in Core :
    /\ InUse(c)' = InUse(c)
    /\ \A s \in InUse(c) :
         /\ clientObj'[c][s].token = clientObj[c][s].token
         /\ clientObj'[c][s].virtPort = clientObj[c][s].virtPort

(* Which objects there are, and whose, is all that three parts of the      *)
(* invariant and the monitor's count look at.                              *)
LEMMA Unmoved ==
  ASSUME CalmInv, SameObjects,
         \A q \in VirtPort : client'[q] = "OFF" <=> client[q] = "OFF"
  PROVE  ObjectHasClient' /\ ClientHasObject' /\ AttachedObj' = AttachedObj
<1>1. ObjectHasClient'
  BY DEF CalmInv, ObjectHasClient, SameObjects
<1>2. ClientHasObject'
  <2> SUFFICES ASSUME NEW p \in VirtPort, client[p] # "OFF"
               PROVE  \E s \in InUse(CoreOf[p])' : clientObj'[CoreOf[p]][s].token = p
    BY DEF ClientHasObject
  <2>1. PICK c \in Core : c = CoreOf[p]
    BY RecoveryAssumption
  <2>2. PICK s \in InUse(c) : clientObj[c][s].token = p
    BY <2>1 DEF CalmInv, ClientHasObject, InUse
  <2>3. s \in InUse(c)' /\ clientObj'[c][s].token = p
    BY <2>2 DEF SameObjects
  <2>4. QED
    BY <2>1, <2>3 DEF InUse
<1>3. \A c \in Core : \A s \in Slots :
        <<c, s>> \in AttachedObj' <=> <<c, s>> \in AttachedObj
  BY DEF SameObjects, InUse, AttachedObj
<1>4. AttachedObj' \subseteq Core \X Slots /\ AttachedObj \subseteq Core \X Slots
  BY DEF AttachedObj
<1>5. QED
  BY <1>1, <1>2, <1>3, <1>4

(* Writing the idle mark of an object in use.                              *)
LEMMA MarkObject ==
  ASSUME TableInv, NEW c \in Core, NEW s \in InUse(c), NEW b \in BOOLEAN,
         Put(c, s, [clientObj[c][s] EXCEPT !.isIdle = b])
  PROVE  /\ SameObjects
         /\ clientObj'[c][s].isIdle = b
         /\ \A d \in Core : \A t \in InUse(d) :
              d # c \/ t # s => clientObj'[d][t] = clientObj[d][t]
<1>1. s \in Slots /\ clientObj[c][s] \in Object
  BY DEF TableInv, TableTypeOK, InUse
<1> DEFINE o == [clientObj[c][s] EXCEPT !.isIdle = b]
<1>2. /\ o \in Object /\ o.isIdle = b
      /\ o.token = clientObj[c][s].token
      /\ o.virtPort = clientObj[c][s].virtPort
  BY <1>1 DEF Object
<1> HIDE DEF o
<1>3. o # Free
  BY <1>2, TableAssumption
<1>4. clientObj' = [d \in Core |-> IF d = c
                      THEN [t \in Slots |-> IF t = s THEN o ELSE clientObj[c][t]]
                      ELSE clientObj[d]]
  BY DEF Put, TableInv, TableTypeOK, o
<1>5. clientObj'[c][s] = o
  BY <1>1, <1>4
<1>6. \A d \in Core : \A t \in Slots :
        d # c \/ t # s => clientObj'[d][t] = clientObj[d][t]
  BY <1>4
<1>7. \A d \in Core : InUse(d)' = InUse(d)
  BY <1>3, <1>5, <1>6 DEF InUse
<1>8. \A d \in Core : InUse(d) \subseteq Slots
  BY DEF InUse
<1>9. QED
  BY <1>2, <1>5, <1>6, <1>7, <1>8 DEF SameObjects

(* The types of the clients' variables.                                    *)
LEMMA TypeStep ==
  ASSUME RecoveryTypeOK, [Next]_vars
  PROVE  RecoveryTypeOK'
<1> DEFINE Notes == {"HWERROR", "CLOSED", "COMPLETE", "STOPPED"}
           S == Seq(Notes)
<1>1. mon \in MonType /\ mon' \in MonType
  BY MonStep DEF RecoveryTypeOK, MonType
<1>2. ASSUME client' \in [VirtPort -> {"OFF", "JOINING", "UP", "LEAVING"}],
             dma' \in [VirtPort -> {"OPEN", "RX", "CLOSED"}],
             inbox' \in [VirtPort -> S], unheard' \in SUBSET VirtPort
      PROVE  RecoveryTypeOK'
  BY <1>1, <1>2 DEF RecoveryTypeOK, MonType
<1>3. inbox \in [VirtPort -> S]
  BY DEF RecoveryTypeOK
<1>4. CASE UNCHANGED clientVars
  BY <1>2, <1>4 DEF RecoveryTypeOK, clientVars
<1>5. ASSUME NEW note \in {"HWERROR", "COMPLETE"}, Broadcast(note)
      PROVE  RecoveryTypeOK'
  <2>1. \A q \in S : Append(q, note) \in S
    OBVIOUS
  <2>2. ASSUME NEW o, Notify(o, note) PROVE RecoveryTypeOK'
    <3>1. UNCHANGED <<client, dma>>
      BY <2>2 DEF Notify
    <3>2. \/ UNCHANGED <<inbox, unheard>>
          \/ \E p \in VirtPort : Heard(p, note) \/ Missed(p)
      BY <2>2 DEF Notify
    <3>2a. unheard \in SUBSET VirtPort
      BY DEF RecoveryTypeOK
    <3> HIDE DEF S
    <3>3. inbox' \in [VirtPort -> S] /\ unheard' \in SUBSET VirtPort
      <4>1. ASSUME NEW p \in VirtPort, Heard(p, note)
            PROVE  inbox' \in [VirtPort -> S] /\ unheard' \in SUBSET VirtPort
        BY <1>3, <2>1, <3>2a, <4>1 DEF Heard
      <4>2. ASSUME NEW p \in VirtPort, Missed(p)
            PROVE  inbox' \in [VirtPort -> S] /\ unheard' \in SUBSET VirtPort
        BY <1>3, <3>2a, <4>2 DEF Missed
      <4>3. QED
        BY <1>3, <3>2, <3>2a, <4>1, <4>2
    <3>4. QED
      BY <1>2, <3>1, <3>3 DEF RecoveryTypeOK
  <2>3. QED
    BY <1>4, <1>5, <2>2 DEF Broadcast
<1>6. ASSUME NEW p \in VirtPort,
             \/ AttachServed(p) \/ Attached(p)
             \/ CloseTx(p) \/ CloseRx(p) \/ Detached(p)
      PROVE  RecoveryTypeOK'
  <2> HIDE DEF S
  <2>1. inbox' = inbox /\ unheard' \in SUBSET VirtPort
    BY <1>6
    DEF AttachServed, Attached, CloseTx, CloseRx, Detached, RecoveryTypeOK
  <2>2. /\ client' \in [VirtPort -> {"OFF", "JOINING", "UP", "LEAVING"}]
        /\ dma' \in [VirtPort -> {"OPEN", "RX", "CLOSED"}]
    BY <1>6
    DEF AttachServed, Attached, CloseTx, CloseRx, Detached, RecoveryTypeOK
  <2>3. QED
    BY <1>2, <1>3, <2>1, <2>2
<1>7. ASSUME NEW p \in VirtPort, RecoveryTask(p) PROVE RecoveryTypeOK'
  <2>1. inbox[p] \in S /\ inbox[p] # <<>>
    BY <1>3, <1>7
    DEF Received, Pending, RecoveryTask, CloseDma, SendTeardownCompletion,
        OpenDma, AssertFails
  <2>2. Tail(inbox[p]) \in S
    BY <2>1
  <2>3. <<"CLOSED">> \o Tail(inbox[p]) \in S /\ <<"STOPPED">> \o Tail(inbox[p]) \in S
    BY <2>2
  <2> HIDE DEF S
  <2>4. inbox' \in [VirtPort -> S]
    BY <1>3, <1>7, <2>2, <2>3
    DEF RecoveryTask, CloseDma, SendTeardownCompletion, OpenDma, AssertFails
  <2>5. dma' \in [VirtPort -> {"OPEN", "RX", "CLOSED"}] /\ UNCHANGED client
    BY <1>7
    DEF RecoveryTypeOK, RecoveryTask, CloseDma, SendTeardownCompletion,
        OpenDma, AssertFails
  <2>6. unheard' \in SUBSET VirtPort
    BY <1>7
    DEF RecoveryTypeOK, RecoveryTask, CloseDma, SendTeardownCompletion,
        OpenDma, AssertFails
  <2>7. QED
    BY <1>2, <2>4, <2>5, <2>6 DEF RecoveryTypeOK
<1>8. QED
  BY <1>4, <1>5, <1>6, <1>7, NextCases
  DEF vars, clientVars, Detect, BroadcastDone, TeardownComplete, NoPendingReq,
      ResetHandler, PortLinked, Resume, AttachOrphaned, AttachFull,
      RegisterIpv4, RecoveryTask

(* The parts of CalmInv that are not types.                                *)
CalmParts ==
  /\ ObjectHasClient /\ ClientHasObject
  /\ CountCovers /\ NotUpIsQuiet /\ AllInStep

(* A step that changes nothing of a client.                                *)
Same(q) ==
  /\ client'[q] = client[q] /\ dma'[q] = dma[q] /\ inbox'[q] = inbox[q]
  /\ q \in unheard' <=> q \in unheard

(* An object and a client that stay as they are stay in step as long as    *)
(* the monitor does.                                                       *)
LEMMA SameInStep ==
  ASSUME NEW c \in Core, NEW s \in InUse(c),
         InStep(clientObj[c][s], <<c, s>> \notin mon.todo),
         mon'.pc = mon.pc, <<c, s>> \in mon'.todo <=> <<c, s>> \in mon.todo,
         clientObj'[c][s] = clientObj[c][s], Same(clientObj[c][s].token)
  PROVE  InStep(clientObj[c][s], <<c, s>> \notin mon.todo)'
<1>1. /\ AtWork(clientObj[c][s])' <=> AtWork(clientObj[c][s])
      /\ Done(clientObj[c][s])' <=> Done(clientObj[c][s])
  BY DEF Same, AtWork, Done
<1>2. ToldToClose(clientObj[c][s])' <=> ToldToClose(clientObj[c][s])
  BY <1>1 DEF Same, ToldToClose, Astray
<1>3. QED
  BY <1>1, <1>2 DEF InStep

(* A step that changes nothing of an object and its client.                *)
LEMMA OtherInStep ==
  ASSUME CalmInv, UNCHANGED mon, NEW c \in Core, NEW s \in InUse(c),
         clientObj'[c][s] = clientObj[c][s], Same(clientObj[c][s].token)
  PROVE  InStep(clientObj[c][s], <<c, s>> \notin mon.todo)'
BY SameInStep DEF CalmInv, AllInStep

(* The monitor goes on while nothing else changes: what it needs is that   *)
(* every object is in step with where it goes.                             *)
LEMMA MonitorStep ==
  ASSUME CalmInv, UNCHANGED <<tableVars, clientVars>>,
         mon'.pc # "WATCH" =>
           /\ \A p \in VirtPort : client[p] # "JOINING"
           /\ mon'.numTotal >= Cardinality(AttachedObj),
         AllInStep'
  PROVE  CalmParts'
<1>1. SameObjects /\ UNCHANGED <<client, dma, inbox, unheard>>
  BY DEF SameObjects, InUse, tableVars, clientVars
<1>2. ObjectHasClient' /\ ClientHasObject' /\ AttachedObj' = AttachedObj
  BY <1>1, Unmoved
<1>3. CountCovers'
  BY <1>1, <1>2 DEF CountCovers, Watching
<1>4. NotUpIsQuiet'
  BY <1>1 DEF CalmInv, NotUpIsQuiet
<1>5. QED
  BY <1>2, <1>3, <1>4 DEF CalmParts

(* The lock-up is detected and the clients are counted.                    *)
LEMMA DetectStep ==
  ASSUME CalmInv, Overlap \subseteq {"LOST"}, NEW trigger \in Trigger, Detect(trigger)
  PROVE  CalmParts'
<1>1. /\ mon.pc = "WATCH"
      /\ \A p \in VirtPort : client[p] # "JOINING"
      /\ mon'.numTotal = Cardinality(AttachedObj)
      /\ mon'.todo = Places
      /\ mon'.pc = IF Cardinality(AttachedObj) = 0 THEN "RESET" ELSE "HWERROR"
      /\ UNCHANGED <<tableVars, clientVars>>
  BY DEF Detect, Watching
<1>2. ASSUME NEW c \in Core, NEW s \in InUse(c)
      PROVE  InStep(clientObj[c][s], <<c, s>> \notin mon.todo)'
  <2>1. <<c, s>> \in Places /\ <<c, s>> \in AttachedObj
    BY TableAssumption
    DEF Places, InUse, AttachedObj, CalmInv, ObjectHasClient
  <2>2. Cardinality(AttachedObj) # 0
    BY <2>1, FiniteObjects, FS_EmptySet
  <2>3. AtWork(clientObj[c][s])
    BY <1>1 DEF CalmInv, AllInStep, InStep
  <2>4. AtWork(clientObj[c][s])'
    BY <1>1, <2>3 DEF AtWork, tableVars, clientVars
  <2>5. mon'.pc = "HWERROR" /\ <<c, s>> \in mon'.todo
    BY <1>1, <2>1, <2>2
  <2>6. QED
    BY <2>4, <2>5 DEF InStep
<1>3. AllInStep'
  BY <1>1, <1>2 DEF AllInStep, InUse, tableVars
<1>4. mon'.numTotal >= Cardinality(AttachedObj)
  BY <1>1, FiniteObjects
<1>5. QED
  BY <1>1, <1>3, <1>4, MonitorStep

(* The steps of the monitor between its broadcasts: the whole invariant    *)
(* for the step from one place to the next.                                *)
LEMMA GoStep ==
  ASSUME CalmInv, NEW pc \in Phase, Go(pc), UNCHANGED <<tableVars, clientVars>>,
         mon.pc # "WATCH",
         \A c \in Core : \A s \in InUse(c) :
           \/ pc \in {"WATCH", "RESUME"} /\ AtWork(clientObj[c][s])
           \/ pc = "TEARDOWN" /\ ToldToClose(clientObj[c][s])
           \/ pc \in {"ARP", "RESET", "LINK", "COMPLETE"} /\ Done(clientObj[c][s])
  PROVE  CalmParts'
<1>1. /\ mon'.pc = pc /\ mon'.todo = Places
      /\ mon'.numTotal = mon.numTotal
  BY DEF Go, CalmInv, RecoveryTypeOK
<1>2. ASSUME NEW c \in Core, NEW s \in InUse(c)
      PROVE  InStep(clientObj[c][s], <<c, s>> \notin mon.todo)'
  <2>1. <<c, s>> \in mon'.todo
    BY <1>1 DEF Places, InUse
  <2>2. QED
    BY <1>1, <2>1
    DEF InStep, AtWork, Done, ToldToClose, Astray, tableVars, clientVars
<1>3. AllInStep'
  BY <1>2 DEF AllInStep, InUse, tableVars
<1>4. QED
  BY <1>1, <1>3, MonitorStep DEF CalmInv, CountCovers, Watching

(* A broadcast ends when every object has been visited.                    *)
LEMMA BroadcastDoneStep ==
  ASSUME CalmInv, BroadcastDone("HWERROR", "TEARDOWN") \/ BroadcastDone("COMPLETE", "RESUME")
  PROVE  CalmParts'
<1>1. \A c \in Core : \A s \in InUse(c) : <<c, s>> \notin mon.todo
  BY DEF BroadcastDone
<1>2. CASE BroadcastDone("HWERROR", "TEARDOWN")
  <2>1. \A c \in Core : \A s \in InUse(c) : ToldToClose(clientObj[c][s])
    BY <1>1, <1>2 DEF BroadcastDone, CalmInv, AllInStep, InStep
  <2>2. QED
    BY <1>2, <2>1, GoStep DEF BroadcastDone, Phase
<1>3. CASE BroadcastDone("COMPLETE", "RESUME")
  <2>1. \A c \in Core : \A s \in InUse(c) : AtWork(clientObj[c][s])
    BY <1>1, <1>3 DEF BroadcastDone, CalmInv, AllInStep, InStep
  <2>2. QED
    BY <1>3, <2>1, GoStep DEF BroadcastDone, Phase
<1>4. QED
  BY <1>2, <1>3

(* As many idle objects as clients were counted: nobody has left, and all  *)
(* of them are idle.                                                       *)
LEMMA TeardownStep ==
  ASSUME CalmInv, TeardownComplete
  PROVE  CalmParts'
<1>1. mon.pc = "TEARDOWN" /\ Cardinality(IdleObj) >= Cardinality(AttachedObj)
  BY DEF TeardownComplete, AllIdle, CalmInv, CountCovers, Watching
<1>2. IdleObj \in SUBSET AttachedObj
  BY DEF IdleObj
<1>3. IdleObj = AttachedObj
  <2>1. /\ IsFiniteSet(IdleObj)
        /\ Cardinality(IdleObj) <= Cardinality(AttachedObj)
    BY <1>2, FiniteObjects, FS_Subset
  <2>2. Cardinality(IdleObj) \in Nat
    BY <2>1, FS_CardinalityType
  <2>3. Cardinality(AttachedObj) = Cardinality(IdleObj)
    BY <1>1, <2>1, <2>2, FiniteObjects
  <2>4. QED
    BY <1>2, <2>3, FiniteObjects, FS_Subset
<1>4. ASSUME NEW c \in Core, NEW s \in InUse(c) PROVE Done(clientObj[c][s])
  <2>1. <<c, s>> \in AttachedObj
    BY TableAssumption DEF InUse, AttachedObj, CalmInv, ObjectHasClient
  <2>2. clientObj[c][s].isIdle
    BY <1>3, <2>1 DEF IdleObj
  <2>3. ToldToClose(clientObj[c][s])
    BY <1>1 DEF CalmInv, AllInStep, InStep
  <2>4. QED
    BY <2>2, <2>3 DEF ToldToClose
<1>5. QED
  BY <1>1, <1>4, GoStep DEF TeardownComplete, Phase

(* From the last confirmation to the completion, and back to work.         *)
LEMMA ResetSteps ==
  ASSUME CalmInv, NoPendingReq \/ ResetHandler \/ PortLinked \/ Resume
  PROVE  CalmParts'
<1>1. CASE NoPendingReq \/ ResetHandler \/ PortLinked
  <2>1. \A c \in Core : \A s \in InUse(c) : Done(clientObj[c][s])
    BY <1>1
    DEF NoPendingReq, ResetHandler, PortLinked, CalmInv, AllInStep, InStep
  <2>2. PICK pc \in {"RESET", "LINK", "COMPLETE"} : Go(pc)
    BY <1>1 DEF NoPendingReq, ResetHandler, PortLinked
  <2>3. UNCHANGED <<tableVars, clientVars>> /\ mon.pc # "WATCH"
    BY <1>1 DEF NoPendingReq, ResetHandler, PortLinked
  <2>4. QED
    BY <2>1, <2>2, <2>3, GoStep DEF Phase
<1>2. CASE Resume
  <2>1. \A c \in Core : \A s \in InUse(c) : AtWork(clientObj[c][s])
    BY <1>2 DEF Resume, CalmInv, AllInStep, InStep
  <2>2. QED
    BY <1>2, <2>1, GoStep DEF Resume, Phase
<1>3. QED
  BY <1>1, <1>2

-----------------------------------------------------------------------------
(* What a visit does to the client of the object, which is up or leaving.  *)
LEMMA NotifyStep ==
  ASSUME CalmInv, NEW note \in {"HWERROR", "COMPLETE"}, mon.pc = note,
         NEW c \in Core, NEW s \in InUse(c), Notify(clientObj[c][s], note)
  PROVE  LET p == clientObj[c][s].token IN
           /\ p \in VirtPort /\ client[p] \in {"UP", "LEAVING"}
           /\ UNCHANGED <<client, dma>>
           /\ \A q \in VirtPort : q # p => Same(q)
           /\ \/ /\ inbox'[p] = Append(inbox[p], note)
                 /\ p \in unheard' <=> p \in unheard
              \/ inbox'[p] = inbox[p] /\ p \in unheard'
<1>1. PICK p \in VirtPort : p = clientObj[c][s].token
  BY DEF CalmInv, ObjectHasClient
<1>2. client[p] \in {"UP", "LEAVING"}
  BY <1>1 DEF CalmInv, ObjectHasClient, CountCovers, Watching, RecoveryTypeOK
<1>3. Heard(p, note) \/ Missed(p)
  BY <1>1, <1>2 DEF Notify
<1>4. UNCHANGED <<client, dma>>
  BY DEF Notify
<1>5. \A q \in VirtPort : q # p => Same(q)
  BY <1>3, <1>4 DEF Heard, Missed, CalmInv, RecoveryTypeOK, Same
<1>6. \/ /\ inbox'[p] = Append(inbox[p], note)
         /\ p \in unheard' <=> p \in unheard
      \/ inbox'[p] = inbox[p] /\ p \in unheard'
  BY <1>3 DEF Heard, Missed, CalmInv, RecoveryTypeOK
<1>7. QED
  BY <1>1, <1>2, <1>4, <1>5, <1>6

(* One object is visited by a broadcast: its client has the notification,  *)
(* or has missed it; no other object has this client.                      *)
LEMMA BroadcastStep ==
  ASSUME CalmInv, NEW note \in {"HWERROR", "COMPLETE"}, Broadcast(note)
  PROVE  CalmParts'
<1>1. PICK o \in mon.todo :
        /\ mon' = [mon EXCEPT !.todo = @ \ {o}]
        /\ IF o[2] \in InUse(o[1])
           THEN ClearIdle(o[1], o[2]) /\ Notify(clientObj[o[1]][o[2]], note)
           ELSE UNCHANGED <<tableVars, clientVars>>
  BY DEF Broadcast
<1>2. PICK c \in Core, s \in Slots : o = <<c, s>>
  BY DEF CalmInv, RecoveryTypeOK, Places
<1>3. /\ mon.pc = note /\ mon'.pc = note
      /\ mon'.todo = mon.todo \ {<<c, s>>}
      /\ mon'.numTotal = mon.numTotal
  BY <1>1, <1>2 DEF Broadcast, CalmInv, RecoveryTypeOK
<1>4. CASE s \notin InUse(c)
  <2>1. UNCHANGED <<tableVars, clientVars>>
    BY <1>1, <1>2, <1>4
  <2>2. ASSUME NEW d \in Core, NEW t \in InUse(d)
        PROVE  InStep(clientObj[d][t], <<d, t>> \notin mon.todo)'
    <3>1. <<d, t>> \in mon'.todo <=> <<d, t>> \in mon.todo
      BY <1>3, <1>4
    <3>2. InStep(clientObj[d][t], <<d, t>> \notin mon.todo)
      BY DEF CalmInv, AllInStep
    <3>3. clientObj'[d][t] = clientObj[d][t] /\ Same(clientObj[d][t].token)
      BY <2>1 DEF tableVars, clientVars, Same
    <3>4. QED
      BY <1>3, <3>1, <3>2, <3>3, SameInStep
  <2>3. AllInStep'
    BY <2>1, <2>2 DEF AllInStep, InUse, tableVars
  <2>4. QED
    BY <1>3, <2>1, <2>3, MonitorStep DEF CalmInv, CountCovers, Watching
<1>5. CASE s \in InUse(c)
  <2>1. Notify(clientObj[c][s], note)
    BY <1>1, <1>2, <1>5
  <2>2. PICK p \in VirtPort :
          /\ p = clientObj[c][s].token /\ client[p] \in {"UP", "LEAVING"}
          /\ UNCHANGED <<client, dma>>
          /\ \A q \in VirtPort : q # p => Same(q)
          /\ \/ /\ inbox'[p] = Append(inbox[p], note)
                /\ p \in unheard' <=> p \in unheard
             \/ inbox'[p] = inbox[p] /\ p \in unheard'
    BY <1>3, <1>5, <2>1, NotifyStep
  <2>3. /\ SameObjects
        /\ clientObj'[c][s].isIdle = FALSE
        /\ \A d \in Core : \A t \in InUse(d) :
             d # c \/ t # s => clientObj'[d][t] = clientObj[d][t]
    BY <1>1, <1>2, <1>5, MarkObject DEF CalmInv, ClearIdle
  <2>4. ObjectHasClient' /\ ClientHasObject' /\ AttachedObj' = AttachedObj
    BY <2>2, <2>3, Unmoved
  <2>5. CountCovers'
    BY <1>3, <2>2, <2>4 DEF CalmInv, CountCovers, Watching
  <2>6. InStep(clientObj[c][s], FALSE)
    BY <1>1, <1>2, <1>5 DEF CalmInv, AllInStep
  <2>7. clientObj'[c][s].token = p /\ ~clientObj'[c][s].isIdle
    BY <1>5, <2>2, <2>3 DEF SameObjects
  <2>8. ASSUME note = "HWERROR" PROVE ToldToClose(clientObj[c][s])'
    <3>1. AtWork(clientObj[c][s])
      BY <1>3, <2>6, <2>8 DEF InStep
    <3>2. CASE client[p] = "LEAVING"
      <4>1. inbox[p] = <<>> /\ inbox'[p] \in {<<>>, <<"HWERROR">>}
        BY <2>2, <2>8, <3>1, <3>2, Inboxes DEF AtWork
      <4>2. QED
        BY <2>2, <2>7, <3>2, <4>1 DEF ToldToClose
    <3>3. CASE client[p] = "UP" /\ p \notin unheard
      <4>1. \/ dma[p] = "OPEN" /\ inbox[p] = <<>>
            \/ dma[p] = "CLOSED" /\ inbox[p] = <<"COMPLETE">>
        BY <2>2, <3>1, <3>3 DEF AtWork
      <4>2. CASE inbox'[p] = Append(inbox[p], note) /\ p \notin unheard'
        <5>1. \/ dma'[p] = "OPEN" /\ inbox'[p] = <<"HWERROR">>
              \/ dma'[p] = "CLOSED" /\ inbox'[p] = <<"COMPLETE", "HWERROR">>
          BY <2>2, <2>8, <4>1, <4>2, Inboxes
        <5>2. QED
          BY <2>2, <2>7, <3>3, <4>2, <5>1 DEF ToldToClose
      <4>3. CASE inbox'[p] = inbox[p] /\ p \in unheard'
        BY <2>2, <2>7, <3>3, <4>1, <4>3 DEF ToldToClose, Astray
      <4>4. QED
        BY <2>2, <3>3, <4>2, <4>3
    <3>4. CASE client[p] = "UP" /\ p \in unheard
      <4>1. dma[p] = "CLOSED" /\ inbox[p] = <<>>
        BY <2>2, <3>1, <3>4 DEF AtWork
      <4>2. p \in unheard' /\ inbox'[p] \in {<<>>, <<"HWERROR">>}
        BY <2>2, <2>8, <3>4, <4>1, Inboxes
      <4>3. QED
        BY <2>2, <2>7, <3>4, <4>1, <4>2 DEF ToldToClose, Astray
    <3>5. QED
      BY <2>2, <3>2, <3>3, <3>4
  <2>9. ASSUME note = "COMPLETE" PROVE AtWork(clientObj[c][s])'
    <3>1. Done(clientObj[c][s])
      BY <1>3, <2>6, <2>9 DEF InStep
    <3>2. /\ client[p] = "UP" /\ p \notin unheard
          /\ dma[p] = "CLOSED" /\ inbox[p] = <<>>
      BY <2>2, <3>1 DEF Done
    <3>3. \/ inbox'[p] = <<"COMPLETE">> /\ p \notin unheard'
          \/ inbox'[p] = <<>> /\ p \in unheard'
      BY <2>2, <2>9, <3>2, Inboxes
    <3>4. QED
      BY <2>2, <2>7, <3>2, <3>3 DEF AtWork
  <2>10. /\ note = "HWERROR" => ToldToClose(clientObj[c][s])'
         /\ note = "COMPLETE" => AtWork(clientObj[c][s])'
    BY <2>8, <2>9
  <2>11. NotUpIsQuiet'
    <3>1. ASSUME client[p] = "LEAVING"
          PROVE  inbox'[p] \in {<<>>, <<"HWERROR">>, <<"STOPPED">>}
      <4>1. inbox[p] = <<>> /\ note = "HWERROR"
        BY <1>3, <2>2, <2>6, <3>1 DEF InStep, AtWork, Done
      <4>2. QED
        BY <2>2, <4>1, Inboxes
    <3>2. QED
      BY <2>2, <3>1 DEF CalmInv, NotUpIsQuiet, Same
  <2>12. ASSUME NEW d \in Core, NEW t \in InUse(d)
         PROVE  InStep(clientObj[d][t], <<d, t>> \notin mon.todo)'
    <3>1. CASE d = c /\ t = s
      BY <1>3, <2>10, <3>1 DEF InStep
    <3>2. CASE d # c \/ t # s
      <4> DEFINE q == clientObj[d][t].token
      <4>1. q \in VirtPort /\ q # p
        BY <1>5, <2>2, <3>2 DEF CalmInv, ObjectHasClient
      <4>2. /\ clientObj'[d][t] = clientObj[d][t]
            /\ Same(q)
            /\ <<d, t>> \in mon'.todo <=> <<d, t>> \in mon.todo
        BY <1>3, <2>2, <2>3, <3>2, <4>1
      <4>3. InStep(clientObj[d][t], <<d, t>> \notin mon.todo)
        BY DEF CalmInv, AllInStep
      <4>4. QED
        BY <1>3, <4>2, <4>3, SameInStep
    <3>3. QED
      BY <3>1, <3>2
  <2>13. AllInStep'
    BY <2>3, <2>12 DEF AllInStep, SameObjects
  <2>14. QED
    BY <2>4, <2>5, <2>11, <2>13 DEF CalmParts
<1>6. QED
  BY <1>4, <1>5

(* A client handles a notification or closes a channel: its object may be  *)
(* marked, nothing of the others changes, and its own must be in step.     *)
LEMMA HandledStep ==
  ASSUME CalmInv, NEW p \in VirtPort, UNCHANGED mon, SameObjects,
         client'[p] = "OFF" <=> client[p] = "OFF", client'[p] # "JOINING",
         client'[p] = "OFF" => dma'[p] = "CLOSED" /\ p \notin unheard',
         client'[p] \in {"OFF", "LEAVING"} =>
           inbox'[p] \in {<<>>, <<"HWERROR">>, <<"STOPPED">>},
         \A q \in VirtPort : q # p => Same(q),
         \A c \in Core : \A s \in InUse(c) :
           IF clientObj[c][s].token = p
           THEN InStep(clientObj[c][s], <<c, s>> \notin mon.todo)'
           ELSE clientObj'[c][s] = clientObj[c][s]
  PROVE  CalmParts'
<1>1. ObjectHasClient' /\ ClientHasObject' /\ AttachedObj' = AttachedObj
  BY Unmoved DEF Same
<1>2. CountCovers'
  BY <1>1 DEF CalmInv, CountCovers, Watching, Same
<1>3. NotUpIsQuiet'
  BY DEF CalmInv, NotUpIsQuiet, Same
<1>4. ASSUME NEW c \in Core, NEW s \in InUse(c)
      PROVE  InStep(clientObj[c][s], <<c, s>> \notin mon.todo)'
  <2>1. CASE clientObj[c][s].token = p
    BY <2>1
  <2>2. CASE clientObj[c][s].token # p
    <3>1. clientObj[c][s].token \in VirtPort
      BY DEF CalmInv, ObjectHasClient
    <3>2. QED
      BY <2>2, <3>1, OtherInStep
  <2>3. QED
    BY <2>1, <2>2
<1>5. AllInStep'
  BY <1>4 DEF AllInStep, SameObjects
<1>6. QED
  BY <1>1, <1>2, <1>3, <1>5 DEF CalmParts

(* HWERROR is handled by a client that is open, so missed nothing.         *)
LEMMA ToldToCloseOpen ==
  ASSUME CalmInv, NEW c \in Core, NEW s \in InUse(c), NEW p \in VirtPort,
         clientObj[c][s].token = p, Pending(p, "HWERROR"),
         client[p] = "UP", dma[p] = "OPEN"
  PROVE  /\ \/ mon.pc = "HWERROR" /\ <<c, s>> \notin mon.todo
            \/ mon.pc = "TEARDOWN"
         /\ p \notin unheard /\ inbox[p] = <<"HWERROR">> /\ ~clientObj[c][s].isIdle
<1>1. InStep(clientObj[c][s], <<c, s>> \notin mon.todo)
  BY DEF CalmInv, AllInStep
<1>2. ~AtWork(clientObj[c][s]) /\ ~Done(clientObj[c][s])
  BY DEF AtWork, Done, Pending
<1>3. /\ \/ mon.pc = "HWERROR" /\ <<c, s>> \notin mon.todo
         \/ mon.pc = "TEARDOWN"
      /\ ToldToClose(clientObj[c][s])
  BY <1>1, <1>2 DEF InStep
<1>4. QED
  BY <1>2, <1>3 DEF ToldToClose, Astray, Pending

LEMMA CloseStep ==
  ASSUME CalmInv, NEW p \in VirtPort, CloseDma(p)
  PROVE  CalmParts'
<1>1. /\ client[p] = "UP" /\ dma[p] = "OPEN" /\ Pending(p, "HWERROR")
      /\ dma' = [dma EXCEPT ![p] = "CLOSED"]
      /\ inbox' = [inbox EXCEPT ![p] = <<"CLOSED">> \o Tail(inbox[p])]
      /\ UNCHANGED <<tableVars, mon, client, unheard>>
  BY DEF CloseDma, Received, monVars
<1>2. /\ dma'[p] = "CLOSED"
      /\ inbox'[p] = <<"CLOSED">> \o Tail(inbox[p])
      /\ \A q \in VirtPort : q # p => Same(q)
  BY <1>1 DEF CalmInv, RecoveryTypeOK, Same
<1>3. SameObjects /\ UNCHANGED clientObj
  BY <1>1 DEF SameObjects, InUse, tableVars
<1>4. ASSUME NEW c \in Core, NEW s \in InUse(c), clientObj[c][s].token = p
      PROVE  InStep(clientObj[c][s], <<c, s>> \notin mon.todo)'
  <2>1. /\ \/ mon.pc = "HWERROR" /\ <<c, s>> \notin mon.todo
           \/ mon.pc = "TEARDOWN"
        /\ p \notin unheard /\ inbox[p] = <<"HWERROR">> /\ ~clientObj[c][s].isIdle
    BY <1>1, <1>4, ToldToCloseOpen
  <2>2. inbox'[p] = <<"CLOSED">>
    BY <1>2, <2>1, Inboxes
  <2>3. ToldToClose(clientObj[c][s])'
    BY <1>1, <1>2, <1>3, <1>4, <2>1, <2>2 DEF ToldToClose
  <2>4. QED
    BY <1>1, <2>1, <2>3 DEF InStep
<1>5. QED
  BY <1>1, <1>2, <1>3, <1>4, HandledStep

(* HWRECOVERY_COMPLETE is handled by a client that is closed, and which    *)
(* may already have been told, or not, of the next lock-up.                *)
LEMMA OpenStep ==
  ASSUME CalmInv, NEW p \in VirtPort, OpenDma(p)
  PROVE  CalmParts'
<1>1. /\ client[p] = "UP" /\ dma[p] = "CLOSED" /\ Pending(p, "COMPLETE")
      /\ dma' = [dma EXCEPT ![p] = "OPEN"]
      /\ inbox' = [inbox EXCEPT ![p] = Tail(inbox[p])]
      /\ UNCHANGED <<tableVars, mon, client, unheard>>
  BY DEF OpenDma, Received, monVars
<1>2. /\ dma'[p] = "OPEN"
      /\ inbox'[p] = Tail(inbox[p])
      /\ \A q \in VirtPort : q # p => Same(q)
  BY <1>1 DEF CalmInv, RecoveryTypeOK, Same
<1>3. SameObjects /\ UNCHANGED clientObj
  BY <1>1 DEF SameObjects, InUse, tableVars
<1>4. ASSUME NEW c \in Core, NEW s \in InUse(c), clientObj[c][s].token = p
      PROVE  InStep(clientObj[c][s], <<c, s>> \notin mon.todo)'
  <2>1. InStep(clientObj[c][s], <<c, s>> \notin mon.todo)
    BY DEF CalmInv, AllInStep
  <2>2. ~Done(clientObj[c][s])
    BY <1>1, <1>4 DEF Done, Pending
  <2>3. AtWork(clientObj[c][s]) => AtWork(clientObj[c][s])'
    <3>1. ASSUME AtWork(clientObj[c][s])
          PROVE  /\ ~clientObj[c][s].isIdle /\ p \notin unheard
                 /\ inbox[p] = <<"COMPLETE">>
      BY <1>1, <1>4, <3>1 DEF AtWork, Pending
    <3>2. inbox[p] = <<"COMPLETE">> => inbox'[p] = <<>>
      BY <1>2, Inboxes
    <3>3. QED
      BY <1>1, <1>2, <1>3, <1>4, <3>1, <3>2 DEF AtWork
  <2>4. ToldToClose(clientObj[c][s]) => ToldToClose(clientObj[c][s])'
    <3>1. ASSUME ToldToClose(clientObj[c][s])
          PROVE  /\ ~clientObj[c][s].isIdle
                 /\ \/ p \notin unheard /\ inbox[p] = <<"COMPLETE", "HWERROR">>
                    \/ p \in unheard /\ inbox[p] = <<"COMPLETE">>
      BY <1>1, <1>4, <2>2, <3>1, Inboxes DEF ToldToClose, Astray, Pending
    <3>2. /\ inbox[p] = <<"COMPLETE", "HWERROR">> => inbox'[p] = <<"HWERROR">>
          /\ inbox[p] = <<"COMPLETE">> => inbox'[p] = <<>>
      BY <1>2, Inboxes
    <3>3. QED
      BY <1>1, <1>2, <1>3, <1>4, <3>1, <3>2 DEF ToldToClose, Astray
  <2>5. QED
    BY <1>1, <2>1, <2>2, <2>3, <2>4 DEF InStep
<1>5. QED
  BY <1>1, <1>2, <1>3, <1>4, HandledStep

(* A client confirms that it has closed only if it missed nothing.         *)
LEMMA ToldAndClosed ==
  ASSUME CalmInv, NEW c \in Core, NEW s \in InUse(c), NEW p \in VirtPort,
         clientObj[c][s].token = p, Pending(p, "CLOSED")
  PROVE  /\ \/ mon.pc = "HWERROR" /\ <<c, s>> \notin mon.todo
            \/ mon.pc = "TEARDOWN"
         /\ client[p] = "UP" /\ p \notin unheard /\ ~clientObj[c][s].isIdle
         /\ dma[p] = "CLOSED" /\ inbox[p] = <<"CLOSED">>
<1>1. InStep(clientObj[c][s], <<c, s>> \notin mon.todo)
  BY DEF CalmInv, AllInStep
<1>2. client[p] # "LEAVING"
  BY Inboxes DEF Pending, CalmInv, NotUpIsQuiet
<1>2a. client[p] # "JOINING"
  BY DEF Pending, CalmInv, NotUpIsQuiet
<1>3. ~AtWork(clientObj[c][s]) /\ ~Done(clientObj[c][s])
  BY <1>2, <1>2a, Inboxes DEF AtWork, Done, Pending
<1>4. /\ \/ mon.pc = "HWERROR" /\ <<c, s>> \notin mon.todo
         \/ mon.pc = "TEARDOWN"
      /\ ToldToClose(clientObj[c][s])
  BY <1>1, <1>3 DEF InStep
<1>5. QED
  BY <1>2, <1>3, <1>4, Inboxes DEF ToldToClose, Astray, Pending

(* Nothing is left to confirm to a client that is not there.               *)
LEMMA ConfirmsUp ==
  ASSUME CalmInv, NEW p \in VirtPort, Pending(p, "CLOSED") \/ Pending(p, "COMPLETE")
  PROVE  client[p] = "UP"
<1>1. client[p] \in {"OFF", "JOINING", "UP", "LEAVING"}
  BY DEF CalmInv, RecoveryTypeOK
<1>2. QED
  BY <1>1, Inboxes DEF Pending, CalmInv, NotUpIsQuiet

(* The completion of the teardown marks the client's only object; when it  *)
(* is lost the client will not be counted.                                 *)
LEMMA CompletionStep ==
  ASSUME CalmInv, NEW p \in VirtPort, SendTeardownCompletion(p)
  PROVE  CalmParts'
<1>1. /\ Pending(p, "CLOSED") /\ client[p] = "UP"
      /\ inbox' = [inbox EXCEPT ![p] = Tail(inbox[p])]
      /\ UNCHANGED <<mon, client, dma>>
  BY ConfirmsUp DEF SendTeardownCompletion, Received, monVars
<1>2. /\ inbox'[p] = Tail(inbox[p])
      /\ \A q \in VirtPort : q # p => Same(q)
  BY <1>1 DEF CalmInv, RecoveryTypeOK, Same, SendTeardownCompletion
<1>3. CASE TeardownCompletion(CoreOf[p], p) /\ UNCHANGED unheard
  <2>1. PICK d \in Core : d = CoreOf[p]
    BY RecoveryAssumption
  <2>2. PICK t \in Slots :
          /\ HasToken(d, t, p)
          /\ Put(d, t, [clientObj[d][t] EXCEPT !.isIdle = TRUE])
    BY <1>3, <2>1 DEF TeardownCompletion, FirstWith
  <2>3. t \in InUse(d) /\ clientObj[d][t].token = p
    BY <2>2 DEF HasToken, InUse
  <2>4. /\ SameObjects
        /\ clientObj'[d][t].isIdle = TRUE
        /\ \A c \in Core : \A s \in InUse(c) :
             c # d \/ s # t => clientObj'[c][s] = clientObj[c][s]
    BY <2>2, <2>3, MarkObject DEF CalmInv
  <2>5. ASSUME NEW c \in Core, NEW s \in InUse(c), clientObj[c][s].token = p
        PROVE  InStep(clientObj[c][s], <<c, s>> \notin mon.todo)'
    <3>1. c = d /\ s = t
      BY <2>1, <2>3, <2>5 DEF CalmInv, ObjectHasClient
    <3>2. /\ \/ mon.pc = "HWERROR" /\ <<c, s>> \notin mon.todo
             \/ mon.pc = "TEARDOWN"
          /\ p \notin unheard /\ dma[p] = "CLOSED" /\ inbox[p] = <<"CLOSED">>
      BY <1>1, <2>5, ToldAndClosed
    <3>3. inbox'[p] = <<>> /\ dma'[p] = "CLOSED" /\ p \notin unheard'
      BY <1>1, <1>2, <1>3, <3>2, Inboxes
    <3>4. clientObj'[c][s].token = p /\ clientObj'[c][s].isIdle
      BY <2>4, <2>5, <3>1 DEF SameObjects
    <3>5. ToldToClose(clientObj[c][s])'
      BY <1>1, <3>3, <3>4 DEF ToldToClose, Done
    <3>6. QED
      BY <1>1, <3>2, <3>5 DEF InStep
  <2>6. ASSUME NEW c \in Core, NEW s \in InUse(c), clientObj[c][s].token # p
        PROVE  clientObj'[c][s] = clientObj[c][s]
    BY <2>3, <2>4, <2>6
  <2>7. QED
    BY <1>1, <1>2, <2>4, <2>5, <2>6, HandledStep
<1>4. CASE unheard' = unheard \cup {p} /\ UNCHANGED tableVars
  <2>1. SameObjects /\ UNCHANGED clientObj
    BY <1>4 DEF SameObjects, InUse, tableVars
  <2>2. ASSUME NEW c \in Core, NEW s \in InUse(c), clientObj[c][s].token = p
        PROVE  InStep(clientObj[c][s], <<c, s>> \notin mon.todo)'
    <3>1. /\ \/ mon.pc = "HWERROR" /\ <<c, s>> \notin mon.todo
             \/ mon.pc = "TEARDOWN"
          /\ ~clientObj[c][s].isIdle
          /\ dma[p] = "CLOSED" /\ inbox[p] = <<"CLOSED">>
      BY <1>1, <2>2, ToldAndClosed
    <3>2. inbox'[p] = <<>> /\ dma'[p] = "CLOSED" /\ p \in unheard'
      BY <1>1, <1>2, <1>4, <3>1, Inboxes
    <3>3. ToldToClose(clientObj[c][s])'
      BY <1>1, <2>1, <2>2, <3>1, <3>2 DEF ToldToClose, Astray
    <3>4. QED
      BY <1>1, <3>1, <3>3 DEF InStep
  <2>3. QED
    BY <1>1, <1>2, <2>1, <2>2, HandledStep
<1>5. QED
  BY <1>3, <1>4 DEF SendTeardownCompletion

(* The assertion that fails is about closing, and not by a client that is  *)
(* up and missed nothing.                                                  *)
LEMMA FailsToClose ==
  ASSUME CalmInv, NEW p \in VirtPort, AssertFails(p)
  PROVE  /\ Pending(p, "HWERROR")
         /\ client[p] \in {"OFF", "LEAVING", "UP"} /\ inbox[p] = <<"HWERROR">>
         /\ inbox'[p] = <<"STOPPED">> /\ \A q \in VirtPort : q # p => Same(q)
         /\ UNCHANGED <<tableVars, mon, client, dma, unheard>>
         /\ \A c \in Core : \A s \in InUse(c) :
              clientObj[c][s].token = p /\ client[p] = "UP" =>
                /\ \/ mon.pc = "HWERROR" /\ <<c, s>> \notin mon.todo
                   \/ mon.pc = "TEARDOWN"
                /\ ~clientObj[c][s].isIdle
                /\ p \in unheard /\ dma[p] = "CLOSED"
<1>1. /\ inbox' = [inbox EXCEPT ![p] = <<"STOPPED">> \o Tail(inbox[p])]
      /\ UNCHANGED <<tableVars, mon, client, dma, unheard>>
  BY DEF AssertFails, monVars
<1>2. /\ inbox'[p] = <<"STOPPED">> \o Tail(inbox[p])
      /\ \A q \in VirtPort : q # p => Same(q)
  BY <1>1 DEF CalmInv, RecoveryTypeOK, Same
<1>3. CASE client[p] = "UP"
  <2>0. PICK d \in Core : d = CoreOf[p]
    BY RecoveryAssumption
  <2>1. PICK t \in InUse(d) : clientObj[d][t].token = p
    BY <1>3, <2>0 DEF CalmInv, ClientHasObject, InUse
  <2>2. ASSUME NEW c \in Core, NEW s \in InUse(c), clientObj[c][s].token = p
        PROVE  /\ Pending(p, "HWERROR") /\ inbox[p] = <<"HWERROR">>
               /\ \/ mon.pc = "HWERROR" /\ <<c, s>> \notin mon.todo
                  \/ mon.pc = "TEARDOWN"
               /\ ~clientObj[c][s].isIdle
               /\ p \in unheard /\ dma[p] = "CLOSED"
    <3>1. InStep(clientObj[c][s], <<c, s>> \notin mon.todo)
      BY DEF CalmInv, AllInStep
    <3>2. \/ Pending(p, "HWERROR") /\ dma[p] # "OPEN"
          \/ Pending(p, "COMPLETE") /\ dma[p] # "CLOSED"
      BY <1>3 DEF AssertFails, Received
    <3>3. ~Done(clientObj[c][s])
      BY <2>2, <3>2 DEF Done, Pending
    <3>4. ~AtWork(clientObj[c][s])
      BY <1>3, <2>2, <3>2, Inboxes DEF AtWork, Pending
    <3>5. /\ \/ mon.pc = "HWERROR" /\ <<c, s>> \notin mon.todo
             \/ mon.pc = "TEARDOWN"
          /\ ToldToClose(clientObj[c][s])
      BY <3>1, <3>3, <3>4 DEF InStep
    <3>6. p \in unheard /\ dma[p] = "CLOSED" /\ inbox[p] = <<"HWERROR">>
      BY <1>3, <2>2, <3>2, <3>3, <3>5, Inboxes DEF ToldToClose, Astray, Pending
    <3>7. ~clientObj[c][s].isIdle
      BY <3>3, <3>5 DEF ToldToClose
    <3>8. QED
      BY <3>5, <3>6, <3>7, Inboxes, InboxesDiffer DEF Pending
  <2>3. Pending(p, "HWERROR") /\ inbox[p] = <<"HWERROR">>
    BY <2>1, <2>2
  <2>4. QED
    BY <1>1, <1>2, <1>3, <2>2, <2>3, Inboxes
<1>4. CASE client[p] # "UP"
  <2>1. Pending(p, "HWERROR") \/ Pending(p, "COMPLETE")
    BY DEF AssertFails, Received
  <2>2. Pending(p, "HWERROR")
    BY <1>4, <2>1, ConfirmsUp
  <2>3. client[p] \in {"OFF", "LEAVING"}
    BY <1>4, <2>2 DEF CalmInv, RecoveryTypeOK, NotUpIsQuiet, Pending
  <2>4. inbox[p] = <<"HWERROR">>
    BY <2>2, <2>3, Inboxes DEF CalmInv, NotUpIsQuiet, Pending
  <2>5. QED
    BY <1>1, <1>2, <1>4, <2>2, <2>3, <2>4, Inboxes
<1>5. QED
  BY <1>3, <1>4

LEMMA AssertStep ==
  ASSUME CalmInv, NEW p \in VirtPort, AssertFails(p)
  PROVE  CalmParts'
<1>1. /\ client[p] \in {"OFF", "LEAVING", "UP"}
      /\ inbox'[p] = <<"STOPPED">> /\ \A q \in VirtPort : q # p => Same(q)
      /\ UNCHANGED <<tableVars, mon, client, dma, unheard>>
  BY FailsToClose
<1>2. SameObjects /\ UNCHANGED clientObj
  BY <1>1 DEF SameObjects, InUse, tableVars
<1>3. ASSUME NEW c \in Core, NEW s \in InUse(c), clientObj[c][s].token = p
      PROVE  InStep(clientObj[c][s], <<c, s>> \notin mon.todo)'
  <2>1. client[p] # "OFF"
    BY <1>3 DEF CalmInv, ObjectHasClient
  <2>2. CASE client[p] = "UP"
    <3>1. /\ \/ mon.pc = "HWERROR" /\ <<c, s>> \notin mon.todo
             \/ mon.pc = "TEARDOWN"
          /\ ~clientObj[c][s].isIdle /\ p \in unheard /\ dma[p] = "CLOSED"
      BY <1>3, <2>2, FailsToClose
    <3>2. ToldToClose(clientObj[c][s])'
      BY <1>1, <1>2, <1>3, <2>2, <3>1 DEF ToldToClose, Astray
    <3>3. QED
      BY <1>1, <3>1, <3>2 DEF InStep
  <2>3. CASE client[p] = "LEAVING"
    <3>1. InStep(clientObj[c][s], <<c, s>> \notin mon.todo)
      BY DEF CalmInv, AllInStep
    <3>2. inbox[p] = <<"HWERROR">>
      BY FailsToClose
    <3>3. ~AtWork(clientObj[c][s]) /\ ~Done(clientObj[c][s])
      BY <1>3, <2>3, <3>2, InboxesDiffer DEF AtWork, Done
    <3>4. /\ \/ mon.pc = "HWERROR" /\ <<c, s>> \notin mon.todo
             \/ mon.pc = "TEARDOWN"
          /\ ToldToClose(clientObj[c][s])
      BY <3>1, <3>3 DEF InStep
    <3>5. ToldToClose(clientObj[c][s])'
      BY <1>1, <1>2, <1>3, <2>3, <3>3, <3>4 DEF ToldToClose
    <3>6. QED
      BY <1>1, <3>4, <3>5 DEF InStep
  <2>4. QED
    BY <1>1, <2>1, <2>2, <2>3
<1>4. client[p] = "OFF" => dma[p] = "CLOSED" /\ p \notin unheard
  BY DEF CalmInv, NotUpIsQuiet
<1>5. QED
  BY <1>1, <1>2, <1>3, <1>4, HandledStep

(* A client closes its channels to leave, told to close them or not; the   *)
(* monitor does not see it.                                                *)
LEMMA ReleaseSteps ==
  ASSUME CalmInv, NEW p \in VirtPort, CloseTx(p) \/ CloseRx(p)
  PROVE  CalmParts'
<1>1. /\ (client[p] = "UP" /\ dma[p] = "OPEN") \/ client[p] = "LEAVING"
      /\ client'[p] = "LEAVING" /\ \A q \in VirtPort : q # p => Same(q)
      /\ UNCHANGED <<tableVars, mon, inbox, unheard>>
  BY DEF CloseTx, CloseRx, monVars, CalmInv, RecoveryTypeOK, Same
<1>2. SameObjects /\ UNCHANGED clientObj
  BY <1>1 DEF SameObjects, InUse, tableVars
<1>3. ASSUME NEW c \in Core, NEW s \in InUse(c), clientObj[c][s].token = p
      PROVE  /\ InStep(clientObj[c][s], <<c, s>> \notin mon.todo)'
             /\ inbox[p] \in {<<>>, <<"HWERROR">>, <<"STOPPED">>}
  <2>1. InStep(clientObj[c][s], <<c, s>> \notin mon.todo)
    BY DEF CalmInv, AllInStep
  <2>2. ~Done(clientObj[c][s])
    BY <1>1, <1>3 DEF Done
  <2>3. inbox[p] \in {<<>>, <<"HWERROR">>, <<"STOPPED">>}
    <3>1. CASE client[p] = "UP" /\ dma[p] = "OPEN"
      <4>1. AtWork(clientObj[c][s]) \/ ToldToClose(clientObj[c][s])
        BY <2>1, <2>2 DEF InStep
      <4>2. QED
        BY <1>3, <2>2, <3>1, <4>1 DEF AtWork, ToldToClose, Astray
    <3>2. CASE client[p] = "LEAVING"
      BY <3>2 DEF CalmInv, NotUpIsQuiet
    <3>3. QED
      BY <1>1, <3>1, <3>2
  <2>4. AtWork(clientObj[c][s]) => AtWork(clientObj[c][s])'
    <3>1. ASSUME AtWork(clientObj[c][s])
          PROVE  ~clientObj[c][s].isIdle /\ inbox[p] = <<>>
      BY <1>1, <1>3, <3>1 DEF AtWork
    <3>2. QED
      BY <1>1, <1>2, <1>3, <3>1 DEF AtWork
  <2>5. ToldToClose(clientObj[c][s]) => ToldToClose(clientObj[c][s])'
    <3>1. ToldToClose(clientObj[c][s]) => ~clientObj[c][s].isIdle
      BY <2>2 DEF ToldToClose
    <3>2. QED
      BY <1>1, <1>2, <1>3, <3>1 DEF ToldToClose
  <2>6. QED
    BY <1>1, <2>1, <2>2, <2>3, <2>4, <2>5 DEF InStep
<1>4. inbox[p] \in {<<>>, <<"HWERROR">>, <<"STOPPED">>}
  <2>1. PICK d \in Core : d = CoreOf[p]
    BY RecoveryAssumption
  <2>2. PICK t \in InUse(d) : clientObj[d][t].token = p
    BY <1>1, <2>1 DEF CalmInv, ClientHasObject, InUse
  <2>3. QED
    BY <1>3, <2>2
<1>5. QED
  BY <1>1, <1>2, <1>3, <1>4, HandledStep

-----------------------------------------------------------------------------
(* An attach, while the monitor watches, adds an object of a client that   *)
(* had none.                                                               *)
LEMMA AttachServedStep ==
  ASSUME CalmInv, Overlap \subseteq {"LOST"}, NEW p \in VirtPort, AttachServed(p)
  PROVE  CalmParts'
<1>1. /\ client[p] = "OFF" /\ inbox[p] = <<>> /\ mon.pc = "WATCH"
      /\ client' = [client EXCEPT ![p] = "JOINING"]
      /\ UNCHANGED <<mon, dma, inbox, unheard>>
  BY DEF AttachServed, Watching, monVars
<1>2. PICK d \in Core : d = CoreOf[p]
  BY RecoveryAssumption
<1> DEFINE o == [virtPort |-> p, token |-> p, isIdle |-> FALSE]
<1>3. PICK t \in Slots : FirstFree(d, t) /\ Put(d, t, o)
  BY <1>2 DEF AttachServed, Attach
<1>4. o \in Object /\ o.token = p /\ o.virtPort = p /\ ~o.isIdle
  BY DEF Object, Token
<1> HIDE DEF o
<1>5. o # Free
  BY <1>4, TableAssumption
<1>6. /\ InUse(d)' = InUse(d) \cup {t}
      /\ \A c \in Core : c # d => InUse(c)' = InUse(c)
  BY <1>3, <1>4, <1>5, WriteSlot DEF CalmInv, TableInv, TableTypeOK
<1>7. clientObj' = [c \in Core |-> IF c = d
                      THEN [s \in Slots |-> IF s = t THEN o ELSE clientObj[d][s]]
                      ELSE clientObj[c]]
  BY <1>3 DEF Put, CalmInv, TableInv, TableTypeOK
<1>8. /\ clientObj'[d][t] = o /\ t \notin InUse(d)
      /\ \A c \in Core : \A s \in InUse(c) : clientObj'[c][s] = clientObj[c][s]
  BY <1>3, <1>7 DEF InUse, FirstFree
<1>9. \A c \in Core : \A s \in InUse(c) :
        clientObj[c][s].token \in VirtPort /\ clientObj[c][s].token # p
  BY <1>1 DEF CalmInv, ObjectHasClient
<1>10. /\ client'[p] = "JOINING"
       /\ \A q \in VirtPort : q # p => client'[q] = client[q]
  BY <1>1 DEF CalmInv, RecoveryTypeOK
<1>11. ASSUME NEW c \in Core, NEW s \in InUse(c)'
       PROVE  \/ c = d /\ s = t /\ clientObj'[c][s] = o
              \/ s \in InUse(c) /\ clientObj'[c][s] = clientObj[c][s]
  BY <1>6, <1>8, <1>11
<1>12. ObjectHasClient'
  <2> SUFFICES ASSUME NEW c \in Core, NEW s \in InUse(c)'
               PROVE  /\ clientObj'[c][s].token \in VirtPort
                      /\ clientObj'[c][s].virtPort = clientObj'[c][s].token
                      /\ CoreOf[clientObj'[c][s].token] = c
                      /\ client'[clientObj'[c][s].token] # "OFF"
                      /\ \A u \in InUse(c)' :
                           clientObj'[c][u].token = clientObj'[c][s].token => u = s
    BY DEF ObjectHasClient
  <2>1. CASE c = d /\ s = t /\ clientObj'[c][s] = o
    BY <1>2, <1>4, <1>9, <1>10, <1>11, <2>1
  <2>2. CASE s \in InUse(c) /\ clientObj'[c][s] = clientObj[c][s]
    BY <1>4, <1>9, <1>10, <1>11, <2>2 DEF CalmInv, ObjectHasClient
  <2>3. QED
    BY <1>11, <2>1, <2>2
<1>13. ClientHasObject'
  <2> SUFFICES ASSUME NEW q \in VirtPort, client'[q] # "OFF"
               PROVE  \E s \in InUse(CoreOf[q])' : clientObj'[CoreOf[q]][s].token = q
    BY DEF ClientHasObject
  <2>1. PICK c \in Core : c = CoreOf[q]
    BY RecoveryAssumption
  <2>2. \E s \in InUse(c)' : clientObj'[c][s].token = q
    <3>1. CASE q = p
      BY <1>2, <1>4, <1>6, <1>8, <2>1, <3>1
    <3>2. CASE q # p
      <4>1. PICK s \in InUse(c) : clientObj[c][s].token = q
        BY <1>10, <2>1, <3>2 DEF CalmInv, ClientHasObject, InUse
      <4>2. s \in InUse(c)' /\ clientObj'[c][s].token = q
        BY <1>6, <1>8, <4>1
      <4>3. QED
        BY <4>2
    <3>3. QED
      BY <3>1, <3>2
  <2>3. QED
    BY <2>1, <2>2 DEF InUse
<1>14. CountCovers'
  BY <1>1 DEF CountCovers, Watching
<1>15. NotUpIsQuiet'
  BY <1>1, <1>10 DEF CalmInv, NotUpIsQuiet
<1>16. AllInStep'
  <2> SUFFICES ASSUME NEW c \in Core, NEW s \in InUse(c)'
               PROVE  AtWork(clientObj[c][s])'
    BY <1>1 DEF AllInStep, InStep
  <2>1. CASE c = d /\ s = t /\ clientObj'[c][s] = o
    BY <1>4, <1>10, <2>1 DEF AtWork
  <2>2. CASE s \in InUse(c) /\ clientObj'[c][s] = clientObj[c][s]
    <3>1. AtWork(clientObj[c][s])
      BY <1>1, <2>2 DEF CalmInv, AllInStep, InStep
    <3>2. QED
      BY <1>1, <1>9, <1>10, <2>2, <3>1 DEF AtWork
  <2>3. QED
    BY <1>11, <2>1, <2>2
<1>17. QED
  BY <1>12, <1>13, <1>14, <1>15, <1>16 DEF CalmParts

(* The answer to the attach: the monitor does not wait, and the client     *)
(* opens its channels.                                                     *)
LEMMA AttachedStep ==
  ASSUME CalmInv, NEW p \in VirtPort, Attached(p)
  PROVE  CalmParts'
<1>1. /\ client[p] = "JOINING" /\ UNCHANGED <<tableVars, mon, inbox, unheard>>
      /\ client'[p] = "UP" /\ dma'[p] = "OPEN"
      /\ inbox[p] = <<>> /\ p \notin unheard
      /\ \A q \in VirtPort : q # p => client'[q] = client[q] /\ dma'[q] = dma[q]
  BY DEF Attached, monVars, CalmInv, RecoveryTypeOK, NotUpIsQuiet
<1>2. mon.pc = "WATCH"
  BY <1>1 DEF CalmInv, CountCovers, Watching
<1>3. ObjectHasClient' /\ ClientHasObject'
  <2>1. \A q \in VirtPort : client'[q] = "OFF" <=> client[q] = "OFF"
    BY <1>1
  <2>2. ObjectHasClient'
    BY <1>1, <2>1 DEF CalmInv, ObjectHasClient, InUse, tableVars
  <2>3. ClientHasObject'
    BY <1>1, <2>1 DEF CalmInv, ClientHasObject, InUse, tableVars
  <2>4. QED
    BY <2>2, <2>3
<1>4. CountCovers'
  BY <1>1, <1>2 DEF CountCovers, Watching
<1>5. NotUpIsQuiet'
  BY <1>1 DEF CalmInv, NotUpIsQuiet
<1>6. AllInStep'
  <2> SUFFICES ASSUME NEW c \in Core, NEW s \in InUse(c)
               PROVE  AtWork(clientObj[c][s])'
    BY <1>1, <1>2 DEF AllInStep, InStep, InUse, tableVars
  <2>1. AtWork(clientObj[c][s]) /\ clientObj[c][s].token \in VirtPort
    BY <1>2 DEF CalmInv, AllInStep, InStep, ObjectHasClient
  <2>2. QED
    BY <1>1, <2>1 DEF AtWork, tableVars
<1>7. QED
  BY <1>3, <1>4, <1>5, <1>6 DEF CalmParts

(* A detach frees the client's only object; while the monitor waits, its   *)
(* count stays what it was, and covers those who are left.                 *)
LEMMA DetachedStep ==
  ASSUME CalmInv, Overlap \subseteq {"LOST"}, NEW p \in VirtPort, Detached(p)
  PROVE  CalmParts'
<1>1. /\ client[p] = "LEAVING" /\ dma[p] = "CLOSED" /\ Detach(CoreOf[p], p)
      /\ client'[p] = "OFF" /\ p \notin unheard'
      /\ inbox[p] \in {<<>>, <<"HWERROR">>, <<"STOPPED">>}
      /\ \A q \in VirtPort : q # p => Same(q)
      /\ UNCHANGED <<mon, dma, inbox>>
  BY DEF Detached, monVars, CalmInv, RecoveryTypeOK, NotUpIsQuiet, Same
<1>2. PICK d \in Core : d = CoreOf[p]
  BY RecoveryAssumption
<1>3. PICK t \in Slots : HasToken(d, t, p) /\ Put(d, t, Free)
  BY <1>1, <1>2 DEF Detach, FirstWith
<1>4. /\ InUse(d)' = InUse(d) \ {t}
      /\ \A c \in Core : c # d => InUse(c)' = InUse(c)
  BY <1>3, WriteSlot DEF CalmInv, TableInv, TableTypeOK
<1>5. clientObj' = [c \in Core |-> IF c = d
                      THEN [s \in Slots |-> IF s = t THEN Free ELSE clientObj[d][s]]
                      ELSE clientObj[c]]
  BY <1>3 DEF Put, CalmInv, TableInv, TableTypeOK
<1>6. t \in InUse(d) /\ clientObj[d][t].token = p
  BY <1>3 DEF HasToken, InUse
<1>7. ASSUME NEW c \in Core, NEW s \in InUse(c)'
      PROVE  /\ s \in InUse(c)
             /\ clientObj'[c][s] = clientObj[c][s]
             /\ clientObj[c][s].token \in VirtPort
             /\ clientObj[c][s].token # p
  <2>1. s \in InUse(c) /\ (c # d \/ s # t)
    BY <1>4, <1>7
  <2>2. s \in Slots
    BY <2>1 DEF InUse
  <2>3. clientObj'[c][s] = clientObj[c][s]
    BY <1>5, <2>1, <2>2
  <2>4. QED
    BY <1>2, <1>6, <2>1, <2>3 DEF CalmInv, ObjectHasClient
<1>8. ObjectHasClient'
  BY <1>1, <1>7 DEF CalmInv, ObjectHasClient, Same
<1>9. ClientHasObject'
  <2> SUFFICES ASSUME NEW q \in VirtPort, client'[q] # "OFF"
               PROVE  \E s \in InUse(CoreOf[q])' : clientObj'[CoreOf[q]][s].token = q
    BY DEF ClientHasObject
  <2>1. PICK c \in Core : c = CoreOf[q]
    BY RecoveryAssumption
  <2>2. q # p /\ client[q] # "OFF"
    BY <1>1 DEF Same
  <2>3. PICK s \in InUse(c) : clientObj[c][s].token = q
    BY <2>1, <2>2 DEF CalmInv, ClientHasObject, InUse
  <2>4. s \in InUse(c)'
    BY <1>4, <1>6, <2>2, <2>3
  <2>5. clientObj'[c][s].token = q
    BY <1>7, <2>3, <2>4
  <2>6. QED
    BY <2>1, <2>4, <2>5 DEF InUse
<1>10. CountCovers'
  <2>1. AttachedObj' \in SUBSET AttachedObj
    <3> SUFFICES ASSUME NEW c \in Core, NEW s \in Slots, <<c, s>> \in AttachedObj'
                 PROVE  <<c, s>> \in AttachedObj
      BY DEF AttachedObj
    <3>1. s \in InUse(c)' /\ clientObj'[c][s].token # NoToken
      BY DEF AttachedObj, InUse
    <3>2. s \in InUse(c) /\ clientObj[c][s].token # NoToken
      BY <1>7, <3>1
    <3>3. QED
      BY <3>2 DEF AttachedObj, InUse
  <2>2. /\ IsFiniteSet(AttachedObj')
        /\ Cardinality(AttachedObj') <= Cardinality(AttachedObj)
    BY <2>1, FiniteObjects, FS_Subset
  <2>3. Cardinality(AttachedObj') \in Nat /\ mon.numTotal \in Nat
    BY <2>2, FS_CardinalityType DEF CalmInv, RecoveryTypeOK
  <2>4. CASE mon.pc = "WATCH"
    BY <1>1, <2>4 DEF CountCovers, Watching
  <2>5. CASE mon.pc # "WATCH"
    <3>1. mon.numTotal >= Cardinality(AttachedObj)
      BY <2>5 DEF CalmInv, CountCovers, Watching
    <3>2. \A q \in VirtPort : client'[q] # "JOINING"
      BY <1>1, <2>5 DEF CalmInv, CountCovers, Watching, Same
    <3>3. mon.numTotal >= Cardinality(AttachedObj')
      BY <2>2, <2>3, <3>1, FiniteObjects
    <3>4. QED
      BY <1>1, <2>5, <3>2, <3>3 DEF CountCovers
  <2>6. QED
    BY <2>4, <2>5
<1>11. NotUpIsQuiet'
  BY <1>1 DEF CalmInv, NotUpIsQuiet, Same
<1>12. AllInStep'
  <2> SUFFICES ASSUME NEW c \in Core, NEW s \in InUse(c)'
               PROVE  InStep(clientObj[c][s], <<c, s>> \notin mon.todo)'
    BY DEF AllInStep
  <2>1. QED
    BY <1>1, <1>7, OtherInStep
<1>13. QED
  BY <1>8, <1>9, <1>10, <1>11, <1>12 DEF CalmParts

(* Steps that change nothing the invariant speaks of.                      *)
LEMMA IdleStep ==
  ASSUME CalmInv, UNCHANGED <<tableVars, mon, clientVars>>
  PROVE  CalmParts'
<1>1. AllInStep'
  <2>1. ASSUME NEW c \in Core, NEW s \in InUse(c)
        PROVE  InStep(clientObj[c][s], <<c, s>> \notin mon.todo)'
    BY OtherInStep DEF tableVars, clientVars, Same
  <2>2. QED
    BY <2>1 DEF AllInStep, InUse, tableVars
<1>2. mon'.pc # "WATCH" =>
        /\ \A p \in VirtPort : client[p] # "JOINING"
        /\ mon'.numTotal >= Cardinality(AttachedObj)
  BY DEF CalmInv, CountCovers, Watching
<1>3. QED
  BY <1>1, <1>2, MonitorStep

-----------------------------------------------------------------------------
(* Every step preserves the invariant.                                     *)
LEMMA CalmStep ==
  ASSUME CalmInv, Overlap \subseteq {"LOST"}, [Next]_vars
  PROVE  CalmInv'
<1>1. TableInv'
  BY TableMapping, TableStep DEF CalmInv, RecoveryTypeOK, MonType
<1>2. RecoveryTypeOK'
  BY TypeStep DEF CalmInv
<1>3. CalmParts'
  <2>1. CASE UNCHANGED vars
    BY <2>1, IdleStep DEF vars, monVars
  <2>2. ASSUME NEW p \in VirtPort, AttachFull(p) \/ RegisterIpv4(p)
        PROVE  CalmParts'
    BY <2>2, IdleStep DEF AttachFull, AttachRefused, RegisterIpv4, monVars
  <2>3. ~\E p \in VirtPort : AttachOrphaned(p)
    BY DEF AttachOrphaned
  <2>4. QED
    BY <2>1, <2>2, <2>3, NextCases, DetectStep, BroadcastStep,
       BroadcastDoneStep, TeardownStep, ResetSteps, AttachServedStep,
       AttachedStep, DetachedStep, ReleaseSteps, CloseStep, CompletionStep,
       OpenStep, AssertStep
<1>4. QED
  BY <1>1, <1>2, <1>3 DEF CalmInv, CalmParts

LEMMA CalmInit == Init => CalmInv
<1> SUFFICES ASSUME Init PROVE CalmInv
  OBVIOUS
<1>1. TableInv /\ \A c \in Core : InUse(c) = {}
  BY InitStep DEF Init, TableInit, InUse
<1>2. RecoveryTypeOK
  BY DEF Init, RecoveryTypeOK, Phase
<1>3. ClientHasObject
  BY DEF Init, ClientHasObject
<1>4. QED
  BY <1>1, <1>2, <1>3
  DEF Init, CalmInv, ObjectHasClient, CountCovers, Watching, NotUpIsQuiet,
      AllInStep

(* What the invariant says of the reset, the idle marks and the            *)
(* notifications.                                                          *)
LEMMA CalmSafe ==
  ASSUME CalmInv
  PROVE  ResetAfterTeardown /\ IdleIsClosed /\ PairedNotifications
<1>1. ASSUME NEW p \in VirtPort, client[p] # "OFF"
      PROVE  \E c \in Core : \E s \in InUse(c) : clientObj[c][s].token = p
  <2>1. PICK c \in Core : c = CoreOf[p]
    BY RecoveryAssumption
  <2>2. QED
    BY <1>1, <2>1 DEF CalmInv, ClientHasObject, InUse
<1>2. ASSUME mon.pc = "RESET", NEW p \in VirtPort PROVE dma[p] = "CLOSED"
  <2>1. CASE client[p] = "OFF"
    BY <2>1 DEF CalmInv, NotUpIsQuiet
  <2>2. CASE client[p] # "OFF"
    <3>0. PICK c \in Core : \E s \in InUse(c) : clientObj[c][s].token = p
      BY <1>1, <2>2
    <3>1. PICK s \in InUse(c) : clientObj[c][s].token = p
      BY <3>0
    <3>2. Done(clientObj[c][s])
      BY <1>2 DEF CalmInv, AllInStep, InStep
    <3>3. QED
      BY <3>1, <3>2 DEF Done
  <2>3. QED
    BY <2>1, <2>2
<1>3. IdleIsClosed
  <2> SUFFICES ASSUME NEW o \in IdleObj
               PROVE  dma[clientObj[o[1]][o[2]].virtPort] = "CLOSED"
    BY DEF IdleIsClosed
  <2>0. PICK c \in Core, s \in Slots : o = <<c, s>>
    BY DEF IdleObj, AttachedObj
  <2>1. s \in InUse(c) /\ clientObj[c][s].isIdle
    BY <2>0 DEF IdleObj, AttachedObj, InUse
  <2>2. clientObj[c][s].virtPort = clientObj[c][s].token
    BY <2>1 DEF CalmInv, ObjectHasClient
  <2>3. Done(clientObj[c][s])
    BY <2>1 DEF CalmInv, AllInStep, InStep, AtWork, ToldToClose
  <2>4. QED
    BY <2>0, <2>2, <2>3 DEF Done
<1>4. ASSUME NEW p \in VirtPort
      PROVE  /\ Pending(p, "HWERROR") /\ client[p] = "UP" =>
                  dma[p] = "OPEN" \/ p \in unheard
             /\ Pending(p, "COMPLETE") => client[p] = "UP" /\ dma[p] = "CLOSED"
             /\ Pending(p, "STOPPED") =>
                  p \in unheard \/ client[p] \in {"LEAVING", "OFF"}
  <2>1. CASE client[p] # "UP"
    <3>1. ~Pending(p, "COMPLETE")
      BY <2>1, ConfirmsUp
    <3>2. Pending(p, "STOPPED") => client[p] \in {"LEAVING", "OFF"}
      BY <2>1 DEF Pending, CalmInv, NotUpIsQuiet, RecoveryTypeOK
    <3>3. QED
      BY <2>1, <3>1, <3>2
  <2>2. CASE client[p] = "UP"
    <3>0. PICK c \in Core : \E s \in InUse(c) : clientObj[c][s].token = p
      BY <1>1, <2>2
    <3>1. PICK s \in InUse(c) : clientObj[c][s].token = p
      BY <3>0
    <3>2. AtWork(clientObj[c][s]) \/ ToldToClose(clientObj[c][s]) \/ Done(clientObj[c][s])
      BY DEF CalmInv, AllInStep, InStep
    <3>3. \/ inbox[p] = <<>>
          \/ dma[p] = "OPEN" /\ inbox[p] = <<"HWERROR">>
          \/ inbox[p] = <<"CLOSED">>
          \/ dma[p] = "CLOSED" /\ inbox[p] = <<"COMPLETE">>
          \/ dma[p] = "CLOSED" /\ inbox[p] = <<"COMPLETE", "HWERROR">>
          \/ p \in unheard /\ inbox[p] = <<"HWERROR">>
          \/ p \in unheard /\ inbox[p] = <<"STOPPED">>
      BY <2>2, <3>1, <3>2 DEF AtWork, ToldToClose, Done, Astray
    <3>4. QED
      BY <2>2, <3>3, Inboxes DEF Pending
  <2>3. QED
    BY <2>1, <2>2
<1>5. QED
  BY <1>2, <1>3, <1>4 DEF ResetAfterTeardown, PairedNotifications

(* While clients come between recoveries only, whenever they go and        *)
(* whichever notifications and confirmations are lost, every object of the *)
(* registry has its client, and each client is as far in the recovery as   *)
(* the monitor and its object say, or missed a message and never confirms. *)
THEOREM CalmInvariant == Overlap \subseteq {"LOST"} /\ Spec => []CalmInv
<1> SUFFICES ASSUME Overlap \subseteq {"LOST"} PROVE Spec => []CalmInv
  OBVIOUS
<1>1. CalmInv /\ [Next]_vars => CalmInv'
  BY CalmStep
<1>2. QED
  BY CalmInit, <1>1, PTL DEF Spec

(* Under the same assumption the switch is reset after every client has    *)
(* closed its channels, and an idle mark means closed channels, for any    *)
(* number of clients and lock-ups: the monitor's count, made once, goes    *)
(* wrong on the safe side when a client leaves or a message is lost.       *)
THEOREM SafeReset ==
  Overlap \subseteq {"LOST"} /\ Spec => [](ResetAfterTeardown /\ IdleIsClosed)
<1>1. Overlap \subseteq {"LOST"} /\ Spec => []CalmInv
  BY CalmInvariant
<1>2. CalmInv => ResetAfterTeardown /\ IdleIsClosed
  BY CalmSafe
<1>3. QED
  BY <1>1, <1>2, PTL

(* Under the same assumption a client that missed nothing is told to close *)
(* channels that are open, nobody is told to open channels that are not    *)
(* closed, and only a client that missed a message or is being released    *)
(* fails the assertions about its channels.                                *)
THEOREM NotificationsPaired == Overlap \subseteq {"LOST"} /\ Spec => []PairedNotifications
<1>1. Overlap \subseteq {"LOST"} /\ Spec => []CalmInv
  BY CalmInvariant
<1>2. CalmInv => PairedNotifications
  BY CalmSafe
<1>3. QED
  BY <1>1, <1>2, PTL

(* The server does not claim to be ready while it recovers from a lock-up  *)
(* of a MAC port, whatever comes and goes meanwhile.                       *)
THEOREM LockupShows ==
  Trigger \subseteq {"PORT"} /\ Spec => []StatusShowsLockup
<1> SUFFICES ASSUME Trigger \subseteq {"PORT"} PROVE Spec => []StatusShowsLockup
  OBVIOUS
<1> DEFINE Inv == mon \in MonType /\ StatusShowsLockup
<1>1. Init => Inv
  BY DEF Init, MonType, Phase, StatusShowsLockup, Watching
<1>2. ASSUME Inv, [Next]_vars PROVE Inv'
  <2>1. mon' \in MonType
    BY <1>2, MonStep
  <2>2. CASE UNCHANGED <<mon, status>>
    BY <1>2, <2>1, <2>2 DEF StatusShowsLockup, Watching
  <2>3. ASSUME NEW trigger \in Trigger, Detect(trigger) PROVE Inv'
    BY <2>1, <2>3 DEF Detect, SetStatus, LockupStatus, StatusShowsLockup
  <2>4. ASSUME NEW note \in {"HWERROR", "COMPLETE"}, Broadcast(note) PROVE Inv'
    BY <1>2, <2>1, <2>4 DEF Broadcast, StatusShowsLockup, Watching
  <2>5. CASE \/ BroadcastDone("HWERROR", "TEARDOWN") \/ TeardownComplete
             \/ NoPendingReq \/ PortLinked \/ BroadcastDone("COMPLETE", "RESUME")
    BY <1>2, <2>1, <2>5
    DEF BroadcastDone, TeardownComplete, NoPendingReq, PortLinked,
        StatusShowsLockup, Watching
  <2>6. CASE ResetHandler
    BY <2>1, <2>6 DEF ResetHandler, SetStatus, StatusShowsLockup
  <2>7. CASE Resume
    BY <1>2, <2>1, <2>7 DEF Resume, Go, MonType, StatusShowsLockup, Watching
  <2>8. QED
    BY <1>2, <2>2, <2>3, <2>4, <2>5, <2>6, <2>7, NextCases
    DEF vars, monVars, AttachServed, Attached, AttachOrphaned, AttachFull,
        CloseTx, CloseRx, Detached, RegisterIpv4, CloseDma,
        SendTeardownCompletion, OpenDma, AssertFails
<1>3. QED
  BY <1>1, <1>2, PTL DEF Spec

-----------------------------------------------------------------------------
(* Where a client stands in the barrier, by its channels, its inbox and    *)
(* whether it missed something.                                            *)
Stands(p, c, d, in, missed) ==
  IF c \in {"OFF", "JOINING"} THEN "OUT"
  ELSE IF c = "LEAVING" \/ d # "CLOSED" THEN "OPEN"
  ELSE IF in # <<>> /\ Head(in) = "COMPLETE" THEN "RELEASED"
  ELSE IF p \in missed THEN "STRANDED" ELSE "SHUT"

(* What may be in the inbox of a client, and where it stands with it.      *)
LEMMA Stand ==
  /\ \A p, c, d, in, m :
       c \in {"OFF", "JOINING"} => Stands(p, c, d, in, m) = "OUT"
  /\ \A p, d, in, m : Stands(p, "LEAVING", d, in, m) = "OPEN"
  /\ \A p, in, m : Stands(p, "UP", "OPEN", in, m) = "OPEN"
  /\ \A p, m : Stands(p, "UP", "CLOSED", <<"COMPLETE">>, m) = "RELEASED"
  /\ \A p, m : Stands(p, "UP", "CLOSED", <<"COMPLETE", "HWERROR">>, m) = "RELEASED"
  /\ \A p, in, m : in \in {<<>>, <<"CLOSED">>, <<"HWERROR">>, <<"STOPPED">>} =>
       /\ p \in m => Stands(p, "UP", "CLOSED", in, m) = "STRANDED"
       /\ p \notin m => Stands(p, "UP", "CLOSED", in, m) = "SHUT"
BY Inboxes, InboxesDiffer DEF Stands

(* The mapping names the same places, before a step and after it.          *)
LEMMA StandingIs ==
  ASSUME NEW p \in VirtPort
  PROVE  /\ Standing(p) = Stands(p, client[p], dma[p], inbox[p], unheard)
         /\ Standing(p)' = Stands(p, client'[p], dma'[p], inbox'[p], unheard')
BY DEF Standing, Pending, Stands

LEMMA SameStanding ==
  ASSUME NEW p \in VirtPort, Same(p)
  PROVE  Standing(p)' = Standing(p)
BY DEF Same, Standing, Pending

(* The round goes with the step of the monitor.                            *)
LEMMA RoundIs ==
  /\ Round = IF mon.pc = "WATCH" THEN "RUN"
             ELSE IF mon.pc \in {"HWERROR", "TEARDOWN", "ARP", "RESET"} THEN "CLOSE"
             ELSE "RESET"
  /\ Round' = IF mon'.pc = "WATCH" THEN "RUN"
              ELSE IF mon'.pc \in {"HWERROR", "TEARDOWN", "ARP", "RESET"} THEN "CLOSE"
              ELSE "RESET"
BY DEF Round, Watching

(* A step of one client only is a move of the barrier.                     *)
LEMMA MoveOne ==
  ASSUME NEW p \in VirtPort, NEW from, NEW to, UNCHANGED Round,
         Standing(p) = from, Standing(p)' = to,
         \A q \in VirtPort : q # p => Same(q)
  PROVE  Barrier!Move(p, from, to)
<1>1. \A q \in VirtPort : q # p => Standing(q)' = Standing(q)
  BY SameStanding
<1>2. QED
  BY <1>1 DEF Barrier!Move

(* A step in which no client moves, and the round stays, is a stutter.     *)
LEMMA MoveNone ==
  ASSUME UNCHANGED Round, \A q \in VirtPort : Standing(q)' = Standing(q)
  PROVE  UNCHANGED Barrier!vars
BY DEF Barrier!vars

(* The clients stay where they are when none of them does anything.        *)
LEMMA ClientsStay ==
  ASSUME UNCHANGED clientVars
  PROVE  \A q \in VirtPort : Standing(q)' = Standing(q)
BY SameStanding DEF clientVars, Same

(* A client that is there is as far as its object and the monitor are.     *)
LEMMA ClientInStep ==
  ASSUME CalmInv, NEW p \in VirtPort, client[p] # "OFF"
  PROVE  \E c \in Core : \E s \in InUse(c) :
           /\ clientObj[c][s].token = p
           /\ InStep(clientObj[c][s], <<c, s>> \notin mon.todo)
<1>1. PICK c \in Core : c = CoreOf[p]
  BY RecoveryAssumption
<1>2. PICK s \in InUse(c) : clientObj[c][s].token = p
  BY <1>1 DEF CalmInv, ClientHasObject, InUse
<1>3. InStep(clientObj[c][s], <<c, s>> \notin mon.todo)
  BY DEF CalmInv, AllInStep
<1>4. QED
  BY <1>2, <1>3

(* In service nobody is held back but who missed that it is over; from the *)
(* last confirmation to the completion everybody has stood back.           *)
LEMMA StandingInPhase ==
  ASSUME CalmInv, NEW p \in VirtPort
  PROVE  /\ mon.pc \in {"WATCH", "RESUME"} => Standing(p) # "SHUT"
         /\ mon.pc \in {"ARP", "RESET", "LINK"} => Standing(p) \in {"OUT", "SHUT"}
<1>1. CASE client[p] \in {"OFF", "JOINING"}
  BY <1>1, StandingIs, Stand
<1>2. CASE client[p] \in {"UP", "LEAVING"}
  <2>0. PICK c \in Core : \E s \in InUse(c) :
          /\ clientObj[c][s].token = p
          /\ InStep(clientObj[c][s], <<c, s>> \notin mon.todo)
    BY <1>2, ClientInStep
  <2>1. PICK s \in InUse(c) :
          /\ clientObj[c][s].token = p
          /\ InStep(clientObj[c][s], <<c, s>> \notin mon.todo)
    BY <2>0
  <2>2. CASE mon.pc \in {"WATCH", "RESUME"}
    <3>1. AtWork(clientObj[c][s])
      BY <2>1, <2>2 DEF InStep
    <3>2. \/ client[p] = "LEAVING"
          \/ client[p] = "UP" /\ dma[p] = "OPEN"
          \/ client[p] = "UP" /\ dma[p] = "CLOSED" /\ inbox[p] = <<"COMPLETE">>
          \/ /\ client[p] = "UP" /\ dma[p] = "CLOSED" /\ inbox[p] = <<>>
             /\ p \in unheard
      BY <1>2, <2>1, <3>1 DEF AtWork
    <3>3. Standing(p) \in {"OPEN", "RELEASED", "STRANDED"}
      BY <3>2, StandingIs, Stand
    <3>4. QED
      BY <2>2, <3>3
  <2>3. CASE mon.pc \in {"ARP", "RESET", "LINK"}
    <3>1. /\ client[p] = "UP" /\ dma[p] = "CLOSED" /\ inbox[p] = <<>>
          /\ p \notin unheard
      BY <2>1, <2>3 DEF InStep, Done
    <3>2. QED
      BY <2>3, <3>1, StandingIs, Stand
  <2>4. QED
    BY <2>2, <2>3
<1>3. QED
  BY <1>1, <1>2 DEF CalmInv, RecoveryTypeOK

(* The monitor's steps: the clients stay where they are, and the round     *)
(* moves with the detection, the reset and the end of the recovery.        *)
LEMMA DetectMoves ==
  ASSUME CalmInv, NEW trigger \in Trigger, Detect(trigger)
  PROVE  Barrier!LockUp
<1>1. mon.pc = "WATCH" /\ mon'.pc \in {"RESET", "HWERROR"}
  BY DEF Detect, Watching
<1>2. Round = "RUN" /\ Round' = "CLOSE"
  BY <1>1, RoundIs
<1>3. \A q \in VirtPort : Standing(q)' = Standing(q)
  BY ClientsStay DEF Detect
<1>4. QED
  BY <1>2, <1>3 DEF Barrier!LockUp

(* The reset itself comes when everybody has closed.                       *)
LEMMA ResetMoves ==
  ASSUME CalmInv, ResetHandler
  PROVE  Barrier!Reset
<1>1. mon.pc = "RESET" /\ mon'.pc = "LINK"
  BY DEF ResetHandler, Go, CalmInv, RecoveryTypeOK
<1>2. Round = "CLOSE" /\ Round' = "RESET"
  BY <1>1, RoundIs
<1>3. \A q \in VirtPort : Standing(q)' = Standing(q)
  BY ClientsStay DEF ResetHandler
<1>4. \A q \in VirtPort : Standing(q) \in {"OUT", "SHUT"}
  BY <1>1, StandingInPhase
<1>5. QED
  BY <1>2, <1>3, <1>4 DEF Barrier!Reset

(* The server goes back into service when everybody has been told.         *)
LEMMA ResumeMoves ==
  ASSUME CalmInv, Resume
  PROVE  Barrier!Resume
<1>1. mon.pc = "RESUME" /\ mon'.pc = "WATCH"
  BY DEF Resume, Go, CalmInv, RecoveryTypeOK
<1>2. Round = "RESET" /\ Round' = "RUN"
  BY <1>1, RoundIs
<1>3. \A q \in VirtPort : Standing(q)' = Standing(q)
  BY ClientsStay DEF Resume
<1>4. \A q \in VirtPort : Standing(q) # "SHUT"
  BY <1>1, StandingInPhase
<1>5. QED
  BY <1>2, <1>3, <1>4 DEF Barrier!Resume

(* The other steps of the monitor but the broadcast show nothing.          *)
LEMMA WaitMovesNone ==
  ASSUME CalmInv,
         \/ BroadcastDone("HWERROR", "TEARDOWN") \/ TeardownComplete
         \/ NoPendingReq \/ PortLinked \/ BroadcastDone("COMPLETE", "RESUME")
  PROVE  UNCHANGED Barrier!vars
<1>1. UNCHANGED clientVars
  BY DEF BroadcastDone, TeardownComplete, NoPendingReq, PortLinked
<1>2. \/ /\ mon.pc \in {"HWERROR", "TEARDOWN", "ARP"}
         /\ mon'.pc \in {"TEARDOWN", "ARP", "RESET"}
      \/ mon.pc \in {"LINK", "COMPLETE"} /\ mon'.pc \in {"COMPLETE", "RESUME"}
  BY DEF BroadcastDone, TeardownComplete, NoPendingReq, PortLinked, Go,
         CalmInv, RecoveryTypeOK
<1>3. UNCHANGED Round
  BY <1>2, RoundIs
<1>4. QED
  BY <1>1, <1>3, ClientsStay, MoveNone

(* A visit of the first broadcast does not show; one of the second         *)
(* releases the client, or strands it.                                     *)
LEMMA BroadcastMoves ==
  ASSUME CalmInv, NEW note \in {"HWERROR", "COMPLETE"}, Broadcast(note)
  PROVE  \/ UNCHANGED Barrier!vars
         \/ \E p \in VirtPort : Barrier!Release(p) \/ Barrier!Strand(p)
<1>1. PICK o \in mon.todo :
        /\ mon' = [mon EXCEPT !.todo = @ \ {o}]
        /\ IF o[2] \in InUse(o[1])
           THEN ClearIdle(o[1], o[2]) /\ Notify(clientObj[o[1]][o[2]], note)
           ELSE UNCHANGED <<tableVars, clientVars>>
  BY DEF Broadcast
<1>2. PICK c \in Core, s \in Slots : o = <<c, s>>
  BY DEF CalmInv, RecoveryTypeOK, Places
<1>3. mon.pc = note /\ mon'.pc = note /\ <<c, s>> \in mon.todo
  BY <1>1, <1>2 DEF Broadcast, CalmInv, RecoveryTypeOK
<1>4. UNCHANGED Round
  BY <1>3, RoundIs
<1>5. CASE s \notin InUse(c)
  BY <1>1, <1>2, <1>4, <1>5, ClientsStay, MoveNone
<1>6. CASE s \in InUse(c)
  <2>1. Notify(clientObj[c][s], note)
    BY <1>1, <1>2, <1>6
  <2>2. PICK p \in VirtPort :
          /\ p = clientObj[c][s].token /\ client[p] \in {"UP", "LEAVING"}
          /\ UNCHANGED <<client, dma>>
          /\ \A q \in VirtPort : q # p => Same(q)
          /\ \/ /\ inbox'[p] = Append(inbox[p], note)
                /\ p \in unheard' <=> p \in unheard
             \/ inbox'[p] = inbox[p] /\ p \in unheard'
    BY <1>3, <1>6, <2>1, NotifyStep
  <2>3. InStep(clientObj[c][s], FALSE)
    BY <1>3, <1>6 DEF CalmInv, AllInStep
  <2>4. CASE note = "HWERROR"
    <3>1. AtWork(clientObj[c][s])
      BY <1>3, <2>3, <2>4 DEF InStep
    <3>2. Standing(p)' = Standing(p)
      <4>1. CASE client[p] = "LEAVING" \/ (client[p] = "UP" /\ dma[p] = "OPEN")
        BY <2>2, <4>1, StandingIs, Stand
      <4>2. CASE /\ client[p] = "UP" /\ dma[p] = "CLOSED"
                 /\ inbox[p] = <<"COMPLETE">>
        <5>1. inbox'[p] \in {<<"COMPLETE">>, <<"COMPLETE", "HWERROR">>}
          BY <2>2, <2>4, <4>2, Inboxes
        <5>2. Standing(p) = "RELEASED" /\ Standing(p)' = "RELEASED"
          BY <2>2, <4>2, <5>1, StandingIs, Stand
        <5>3. QED
          BY <5>2
      <4>3. CASE /\ client[p] = "UP" /\ dma[p] = "CLOSED"
                 /\ inbox[p] = <<>> /\ p \in unheard
        <5>1. inbox'[p] \in {<<>>, <<"HWERROR">>} /\ p \in unheard'
          BY <2>2, <2>4, <4>3, Inboxes
        <5>2. Standing(p) = "STRANDED"
          BY <4>3, StandingIs, Stand
        <5>3. Standing(p)' = "STRANDED"
          BY <2>2, <4>3, <5>1, StandingIs, Stand
        <5>4. QED
          BY <5>2, <5>3
      <4>4. QED
        <5>1. \/ client[p] = "LEAVING"
              \/ client[p] = "UP" /\ dma[p] = "OPEN"
              \/ client[p] = "UP" /\ dma[p] = "CLOSED" /\ inbox[p] = <<"COMPLETE">>
              \/ /\ client[p] = "UP" /\ dma[p] = "CLOSED"
                 /\ inbox[p] = <<>> /\ p \in unheard
          BY <2>2, <3>1 DEF AtWork
        <5>2. QED
          BY <4>1, <4>2, <4>3, <5>1
    <3>3. \A q \in VirtPort : q # p => Standing(q)' = Standing(q)
      BY <2>2, SameStanding
    <3>4. QED
      BY <1>4, <3>2, <3>3, MoveNone
  <2>5. CASE note = "COMPLETE"
    <3>1. Done(clientObj[c][s])
      BY <1>3, <2>3, <2>5 DEF InStep
    <3>2. /\ client[p] = "UP" /\ dma[p] = "CLOSED" /\ inbox[p] = <<>>
          /\ p \notin unheard
      BY <2>2, <3>1 DEF Done
    <3>3. Standing(p) = "SHUT"
      BY <3>2, StandingIs, Stand
    <3>4. Round = "RESET"
      BY <1>3, <2>5, RoundIs
    <3>5. CASE inbox'[p] = Append(inbox[p], note)
      <4>1. inbox'[p] = <<"COMPLETE">>
        BY <2>5, <3>2, <3>5, Inboxes
      <4>2. Standing(p)' = "RELEASED"
        BY <2>2, <3>2, <4>1, StandingIs, Stand
      <4>3. Barrier!Move(p, "SHUT", "RELEASED")
        BY <1>4, <2>2, <3>3, <4>2, MoveOne
      <4>4. QED
        BY <3>4, <4>3 DEF Barrier!Release
    <3>6. CASE inbox'[p] = inbox[p] /\ p \in unheard'
      <4>1. inbox'[p] = <<>> /\ p \in unheard'
        BY <3>2, <3>6
      <4>2. Standing(p)' = "STRANDED"
        BY <2>2, <3>2, <4>1, StandingIs, Stand
      <4>3. Barrier!Move(p, "SHUT", "STRANDED")
        BY <1>4, <2>2, <3>3, <4>2, MoveOne
      <4>4. QED
        BY <3>4, <4>3 DEF Barrier!Strand
    <3>7. QED
      BY <2>2, <3>5, <3>6
  <2>6. QED
    BY <2>4, <2>5
<1>7. QED
  BY <1>5, <1>6

(* Clients join while the monitor watches, when they have the answer.      *)
LEMMA AttachedMoves ==
  ASSUME CalmInv, NEW p \in VirtPort, Attached(p)
  PROVE  Barrier!Join(p)
<1>1. /\ client[p] = "JOINING" /\ client'[p] = "UP" /\ dma'[p] = "OPEN"
      /\ \A q \in VirtPort : q # p => Same(q)
      /\ UNCHANGED mon
  BY DEF Attached, monVars, CalmInv, RecoveryTypeOK, Same
<1>2. Round = "RUN" /\ UNCHANGED Round
  BY <1>1, RoundIs DEF CalmInv, CountCovers, Watching
<1>3. Standing(p) = "OUT" /\ Standing(p)' = "OPEN"
  BY <1>1, StandingIs, Stand
<1>4. Barrier!Move(p, "OUT", "OPEN")
  BY <1>1, <1>2, <1>3, MoveOne
<1>5. QED
  BY <1>2, <1>4 DEF Barrier!Join

(* A client that leaves uses the switch, to the others, until it has       *)
(* detached.                                                               *)
LEMMA DetachedMoves ==
  ASSUME CalmInv, NEW p \in VirtPort, Detached(p)
  PROVE  Barrier!Leave(p)
<1>1. /\ UNCHANGED mon
      /\ client[p] = "LEAVING" /\ client'[p] = "OFF"
      /\ \A q \in VirtPort : q # p => Same(q)
  BY DEF Detached, monVars, CalmInv, RecoveryTypeOK, Same
<1>2. UNCHANGED Round
  BY <1>1, RoundIs
<1>3. Standing(p) = "OPEN" /\ Standing(p)' = "OUT"
  BY <1>1, StandingIs, Stand
<1>4. Barrier!Move(p, "OPEN", "OUT")
  BY <1>1, <1>2, <1>3, MoveOne
<1>5. QED
  BY <1>4 DEF Barrier!Leave

(* That it closes its channels to leave does not show.                     *)
LEMMA ReleaseMovesNone ==
  ASSUME CalmInv, NEW p \in VirtPort, CloseTx(p) \/ CloseRx(p)
  PROVE  UNCHANGED Barrier!vars
<1>1. /\ UNCHANGED mon
      /\ (client[p] = "UP" /\ dma[p] = "OPEN") \/ client[p] = "LEAVING"
      /\ client'[p] = "LEAVING"
      /\ \A q \in VirtPort : q # p => Same(q)
  BY DEF CloseTx, CloseRx, monVars, CalmInv, RecoveryTypeOK, Same
<1>2. UNCHANGED Round
  BY <1>1, RoundIs
<1>3. Standing(p) = "OPEN" /\ Standing(p)' = "OPEN"
  BY <1>1, StandingIs, Stand
<1>4. \A q \in VirtPort : q # p => Standing(q)' = Standing(q)
  BY <1>1, SameStanding
<1>5. QED
  BY <1>2, <1>3, <1>4, MoveNone

(* What the server does with an attach, and an address, does not show.     *)
LEMMA ServedMovesNone ==
  ASSUME CalmInv, NEW p \in VirtPort,
         AttachServed(p) \/ AttachFull(p) \/ RegisterIpv4(p)
  PROVE  UNCHANGED Barrier!vars
<1>1. UNCHANGED mon
  BY DEF AttachServed, AttachFull, RegisterIpv4, monVars
<1>2. UNCHANGED Round
  BY <1>1, RoundIs
<1>3. ASSUME NEW q \in VirtPort PROVE Standing(q)' = Standing(q)
  <2>1. CASE AttachServed(p)
    <3>1. CASE q = p
      <4>1. client[p] = "OFF" /\ client'[p] = "JOINING"
        BY <2>1 DEF AttachServed, CalmInv, RecoveryTypeOK
      <4>2. QED
        BY <3>1, <4>1, StandingIs, Stand
    <3>2. CASE q # p
      BY <2>1, <3>2, SameStanding DEF AttachServed, CalmInv, RecoveryTypeOK, Same
    <3>3. QED
      BY <3>1, <3>2
  <2>2. CASE AttachFull(p) \/ RegisterIpv4(p)
    BY <2>2, ClientsStay DEF AttachFull, RegisterIpv4
  <2>3. QED
    BY <2>1, <2>2
<1>4. QED
  BY <1>2, <1>3, MoveNone

(* The recovery task of a client closes its channels in a round that has   *)
(* not reached its reset.                                                  *)
LEMMA CloseMoves ==
  ASSUME CalmInv, NEW p \in VirtPort, CloseDma(p)
  PROVE  Barrier!Shut(p)
<1>1. /\ client[p] = "UP" /\ dma[p] = "OPEN" /\ Pending(p, "HWERROR")
      /\ dma' = [dma EXCEPT ![p] = "CLOSED"]
      /\ inbox' = [inbox EXCEPT ![p] = <<"CLOSED">> \o Tail(inbox[p])]
      /\ UNCHANGED <<mon, client, unheard>>
  BY DEF CloseDma, Received, monVars
<1>2. /\ dma'[p] = "CLOSED"
      /\ inbox'[p] = <<"CLOSED">> \o Tail(inbox[p])
      /\ \A q \in VirtPort : q # p => Same(q)
  BY <1>1 DEF CalmInv, RecoveryTypeOK, Same
<1>3. PICK c \in Core : c = CoreOf[p]
  BY RecoveryAssumption
<1>4. PICK s \in InUse(c) : clientObj[c][s].token = p
  BY <1>1, <1>3 DEF CalmInv, ClientHasObject, InUse
<1>5. /\ mon.pc \in {"HWERROR", "TEARDOWN"}
      /\ p \notin unheard /\ inbox[p] = <<"HWERROR">>
  BY <1>1, <1>4, ToldToCloseOpen
<1>6. inbox'[p] = <<"CLOSED">> /\ p \notin unheard'
  BY <1>1, <1>2, <1>5, Inboxes
<1>7. Standing(p) = "OPEN" /\ Standing(p)' = "SHUT"
  <2>1. Standing(p) = "OPEN"
    BY <1>1, StandingIs, Stand
  <2>2. client'[p] = "UP" /\ dma'[p] = "CLOSED"
    BY <1>1, <1>2
  <2>3. Standing(p)' = "SHUT"
    BY <1>6, <2>2, StandingIs, Stand
  <2>4. QED
    BY <2>1, <2>3
<1>8. Round = "CLOSE" /\ UNCHANGED Round
  BY <1>1, <1>5, RoundIs
<1>9. Barrier!Move(p, "OPEN", "SHUT")
  BY <1>2, <1>7, <1>8, MoveOne
<1>10. QED
  BY <1>8, <1>9 DEF Barrier!Shut

(* That it confirms so does not show; that the confirmation is lost does:  *)
(* the client will not be released.                                        *)
LEMMA CompletionMoves ==
  ASSUME CalmInv, NEW p \in VirtPort, SendTeardownCompletion(p)
  PROVE  UNCHANGED Barrier!vars \/ Barrier!Strand(p)
<1>1. /\ Pending(p, "CLOSED") /\ client[p] = "UP"
      /\ inbox' = [inbox EXCEPT ![p] = Tail(inbox[p])]
      /\ UNCHANGED <<mon, client, dma>>
  BY ConfirmsUp DEF SendTeardownCompletion, Received, monVars
<1>2. /\ inbox'[p] = Tail(inbox[p])
      /\ \A q \in VirtPort : q # p => Same(q)
  BY <1>1 DEF CalmInv, RecoveryTypeOK, Same, SendTeardownCompletion
<1>3. PICK c \in Core : c = CoreOf[p]
  BY RecoveryAssumption
<1>4. PICK s \in InUse(c) : clientObj[c][s].token = p
  BY <1>1, <1>3 DEF CalmInv, ClientHasObject, InUse
<1>5. /\ mon.pc \in {"HWERROR", "TEARDOWN"}
      /\ p \notin unheard /\ dma[p] = "CLOSED" /\ inbox[p] = <<"CLOSED">>
  BY <1>1, <1>4, ToldAndClosed
<1>6. inbox'[p] = <<>>
  BY <1>2, <1>5, Inboxes
<1>7. Standing(p) = "SHUT"
  BY <1>1, <1>5, StandingIs, Stand
<1>8. Round = "CLOSE" /\ UNCHANGED Round
  BY <1>1, <1>5, RoundIs
<1>9. CASE UNCHANGED unheard
  <2>1. Standing(p)' = "SHUT"
    BY <1>1, <1>5, <1>6, <1>9, StandingIs, Stand
  <2>2. \A q \in VirtPort : q # p => Standing(q)' = Standing(q)
    BY <1>2, SameStanding
  <2>3. QED
    BY <1>7, <1>8, <2>1, <2>2, MoveNone
<1>10. CASE unheard' = unheard \cup {p}
  <2>1. p \in unheard'
    BY <1>10
  <2>2. Standing(p)' = "STRANDED"
    BY <1>1, <1>5, <1>6, <2>1, StandingIs, Stand
  <2>3. Barrier!Move(p, "SHUT", "STRANDED")
    BY <1>2, <1>7, <1>8, <2>2, MoveOne
  <2>4. QED
    BY <1>8, <2>3 DEF Barrier!Strand
<1>11. QED
  BY <1>9, <1>10 DEF SendTeardownCompletion

(* A released client opens its channels, in whatever round it is by then.  *)
LEMMA OpenMoves ==
  ASSUME CalmInv, NEW p \in VirtPort, OpenDma(p)
  PROVE  Barrier!Reopen(p)
<1>1. /\ client[p] = "UP" /\ dma[p] = "CLOSED" /\ Pending(p, "COMPLETE")
      /\ dma' = [dma EXCEPT ![p] = "OPEN"]
      /\ inbox' = [inbox EXCEPT ![p] = Tail(inbox[p])]
      /\ UNCHANGED <<mon, client, unheard>>
  BY DEF OpenDma, Received, monVars
<1>2. /\ dma'[p] = "OPEN"
      /\ \A q \in VirtPort : q # p => Same(q)
  BY <1>1 DEF CalmInv, RecoveryTypeOK, Same
<1>3. Standing(p) = "RELEASED"
  BY <1>1 DEF Standing
<1>4. Standing(p)' = "OPEN"
  BY <1>1, <1>2, StandingIs, Stand
<1>5. UNCHANGED Round
  BY <1>1, RoundIs
<1>6. Barrier!Move(p, "RELEASED", "OPEN")
  BY <1>2, <1>3, <1>4, <1>5, MoveOne
<1>7. QED
  BY <1>6 DEF Barrier!Reopen

(* A task that stops does so for a client that is stranded, leaving or     *)
(* gone.                                                                   *)
LEMMA AssertMovesNone ==
  ASSUME CalmInv, NEW p \in VirtPort, AssertFails(p)
  PROVE  UNCHANGED Barrier!vars
<1>1. /\ client[p] \in {"OFF", "LEAVING", "UP"} /\ inbox[p] = <<"HWERROR">>
      /\ inbox'[p] = <<"STOPPED">> /\ \A q \in VirtPort : q # p => Same(q)
      /\ UNCHANGED <<mon, client, dma, unheard>>
  BY FailsToClose
<1>2. UNCHANGED Round
  BY <1>1, RoundIs
<1>3. Standing(p)' = Standing(p)
  <2>1. CASE client[p] # "UP"
    BY <1>1, <2>1, StandingIs, Stand
  <2>2. CASE client[p] = "UP"
    <3>1. PICK c \in Core : c = CoreOf[p]
      BY RecoveryAssumption
    <3>2. PICK s \in InUse(c) : clientObj[c][s].token = p
      BY <2>2, <3>1 DEF CalmInv, ClientHasObject, InUse
    <3>3. p \in unheard /\ dma[p] = "CLOSED"
      BY <2>2, <3>2, FailsToClose
    <3>4. Standing(p) = "STRANDED" /\ Standing(p)' = "STRANDED"
      BY <1>1, <2>2, <3>3, StandingIs, Stand
    <3>5. QED
      BY <3>4
  <2>3. QED
    BY <2>1, <2>2
<1>4. \A q \in VirtPort : q # p => Standing(q)' = Standing(q)
  BY <1>1, SameStanding
<1>5. QED
  BY <1>2, <1>3, <1>4, MoveNone

-----------------------------------------------------------------------------
(* While clients come between recoveries only, whenever they go and        *)
(* whichever messages are lost, the monitor, its broadcasts and counts and *)
(* the clients' recovery tasks implement the barrier: every step is one of *)
(* the barrier's, or one it does not see.                                  *)
THEOREM RecoveryIsBarrier == Overlap \subseteq {"LOST"} /\ Spec => ImplementsBarrier
<1> SUFFICES ASSUME Overlap \subseteq {"LOST"} PROVE Spec => ImplementsBarrier
  OBVIOUS
<1>1. Init => Barrier!Init
  <2> SUFFICES ASSUME Init PROVE Barrier!Init
    OBVIOUS
  <2>1. Round = "RUN"
    BY RoundIs DEF Init
  <2>2. \A p \in VirtPort : client[p] \in {"OFF", "JOINING"}
    BY DEF Init
  <2>3. \A p \in VirtPort : Standing(p) = "OUT"
    BY <2>2, StandingIs, Stand
  <2>4. QED
    BY <2>1, <2>3 DEF Barrier!Init
<1>2. ASSUME CalmInv, [Next]_vars PROVE [Barrier!Next]_(Barrier!vars)
  <2>1. CASE UNCHANGED vars
    <3>1. UNCHANGED mon /\ UNCHANGED clientVars
      BY <2>1 DEF vars, monVars
    <3>2. UNCHANGED Round
      BY <3>1, RoundIs
    <3>3. QED
      BY <3>1, <3>2, ClientsStay, MoveNone
  <2>2. ~\E p \in VirtPort : AttachOrphaned(p)
    BY DEF AttachOrphaned
  <2>3. QED
    BY <1>2, <2>1, <2>2, NextCases, DetectMoves, ResetMoves, ResumeMoves,
       WaitMovesNone, BroadcastMoves, AttachedMoves, DetachedMoves,
       ReleaseMovesNone, ServedMovesNone, CloseMoves, CompletionMoves,
       OpenMoves, AssertMovesNone
    DEF Barrier!Next
<1>3. QED
  BY <1>1, <1>2, CalmInvariant, PTL DEF Spec, ImplementsBarrier, Barrier!Spec
=============================================================================
