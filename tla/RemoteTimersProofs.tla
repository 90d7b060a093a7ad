-------------------------- MODULE RemoteTimersProofs --------------------------
(***************************************************************************)
(* Proofs about the remote timers, for every set of cores and inputs and   *)
(* whichever calls fail, as long as no core has two timers, no input has   *)
(* two cores and nobody uses the last input: with any of the three the     *)
(* properties are false.                                                   *)
(***************************************************************************)
EXTENDS RemoteTimers, TLAPS

OneTimerEach ==
  /\ \A c \in Core : \A m, n \in PushOf[c] : m = n
  /\ \A c, d \in Core : c # d => PushOf[c] \cap PushOf[d] = {}
  /\ \A n \in Push : n < PushMax

(* What the map, the lookup under way and the requests speak of are timers *)
(* of their core, and a core whose bit is set asked for its timer.         *)
OwnTimers ==
  /\ \A n \in Push : coreOf[n] # NoCore => n \in PushOf[coreOf[n]]
  /\ target # None /\ target.core # NoCore => target.push \in PushOf[target.core]
  /\ req # None => req.push \in PushOf[req.core]
  /\ \A g \in asked : g[2] \in PushOf[g[1]]
  /\ \A c \in dst : \E n \in PushOf[c] : <<c, n>> \in asked

(* A register under way has set the bit, an unregister has told the core.  *)
Underway ==
  req # None =>
    /\ req.cmd = "REGISTER" => req.core \in dst /\ <<req.core, req.push>> \in asked
    /\ req.cmd = "UNREGISTER" => <<req.core, req.push>> \notin told

TimersIInv == TimersInv /\ OwnTimers /\ Underway

(* Initially nobody has a timer.                                           *)
LEMMA TimersInit == Init => TimersIInv
BY TimersAssumption
DEF Init, TimersIInv, TimersInv, TypeOK, ToldIsServed, OwnTimers, Underway

(* A register is taken up: the bit is set.                                 *)
LEMMA RegisterStep ==
  ASSUME TimersIInv, OneTimerEach, NEW c \in Core, NEW n \in PushOf[c],
         RegisterRemoteTimer(c, n)
  PROVE  TimersIInv'
<1>1. n \in Push
  BY TimersAssumption
<1> DEFINE r == [cmd |-> "REGISTER", core |-> c, push |-> n]
<1>2. r \in Request /\ r.cmd = "REGISTER" /\ r.core = c /\ r.push = n
  BY <1>1 DEF Request
<1> HIDE DEF r
<1>3. /\ req = None /\ req' = r /\ dst' = dst \cup {c}
      /\ asked' = asked \cup {<<c, n>>}
      /\ UNCHANGED <<coreOf, callback, routed, events, todo, target, rtnVal, told, got>>
  BY DEF RegisterRemoteTimer, task, r
<1>4. TypeOK'
  BY <1>1, <1>2, <1>3 DEF TimersIInv, TimersInv, TypeOK
<1>5. ToldIsServed'
  BY <1>3 DEF TimersIInv, TimersInv, ToldIsServed
<1>6. OwnTimers'
  BY <1>2, <1>3 DEF TimersIInv, OwnTimers
<1>7. Underway'
  BY <1>2, <1>3 DEF Underway
<1>8. QED
  BY <1>4, <1>5, <1>6, <1>7 DEF TimersIInv, TimersInv

(* An unregister is taken up: the bit is cleared, which no other timer of  *)
(* the core needs.                                                         *)
LEMMA UnregisterStep ==
  ASSUME TimersIInv, OneTimerEach, NEW c \in Core, NEW n \in PushOf[c],
         UnregisterRemoteTimer(c, n)
  PROVE  TimersIInv'
<1>1. n \in Push /\ UnregisterValid(n)
  BY TimersAssumption DEF OneTimerEach, UnregisterValid
<1> DEFINE r == [cmd |-> "UNREGISTER", core |-> c, push |-> n]
<1>2. r \in Request /\ r.cmd = "UNREGISTER" /\ r.core = c /\ r.push = n
  BY <1>1 DEF Request
<1> HIDE DEF r
<1>3. /\ req = None /\ req' = r /\ dst' = dst \ {c}
      /\ asked' = asked \ {<<c, n>>} /\ told' = told \ {<<c, n>>}
      /\ UNCHANGED <<coreOf, callback, routed, events, todo, target, rtnVal, got>>
  BY <1>1 DEF UnregisterRemoteTimer, ClearMask, task, r
<1>4. TypeOK'
  BY <1>2, <1>3 DEF TimersIInv, TimersInv, TypeOK
<1>5. \A g \in told' : g[1] # c
  <2> SUFFICES ASSUME NEW g \in told', g[1] = c PROVE FALSE
    OBVIOUS
  <2>1. g \in Core \X Push /\ g \in asked
    BY <1>3 DEF TimersIInv, TimersInv, TypeOK
  <2>2. g[2] = n
    BY <2>1 DEF TimersIInv, OwnTimers, OneTimerEach
  <2>3. g = <<c, n>>
    BY <2>1, <2>2
  <2>4. QED
    BY <1>3, <2>3
<1>6. ToldIsServed'
  BY <1>3, <1>5 DEF TimersIInv, TimersInv, ToldIsServed
<1>7. OwnTimers'
  BY <1>2, <1>3 DEF TimersIInv, OwnTimers
<1>8. Underway'
  BY <1>2, <1>3 DEF Underway
<1>9. QED
  BY <1>4, <1>6, <1>7, <1>8 DEF TimersIInv, TimersInv

(* The input is the core's, so that nobody else was told about it.         *)
LEMMA RegisteredStep ==
  ASSUME TimersIInv, OneTimerEach, Registered
  PROVE  TimersIInv'
<1>1. PICK c \in Core, n \in Push :
        /\ req # None /\ req.cmd = "REGISTER" /\ req.core = c /\ req.push = n
  BY DEF Registered, TimersIInv, TimersInv, TypeOK, Request
<1>2. n \in PushOf[c] /\ c \in dst /\ <<c, n>> \in asked
  BY <1>1 DEF TimersIInv, OwnTimers, Underway
<1>3. /\ req' = None
      /\ callback' \subseteq callback \cup {n} /\ routed' \subseteq routed \cup {n}
      /\ UNCHANGED <<dst, events, todo, target, rtnVal, asked, got>>
      /\ \/ coreOf' = [coreOf EXCEPT ![n] = c] /\ told' = told \cup {<<c, n>>}
         \/ UNCHANGED <<coreOf, told>>
  BY <1>1 DEF Registered, MapPush, task
<1>4. TypeOK'
  BY <1>1, <1>2, <1>3 DEF TimersIInv, TimersInv, TypeOK
<1>5. CASE UNCHANGED <<coreOf, told>>
  BY <1>3, <1>4, <1>5
  DEF TimersIInv, TimersInv, ToldIsServed, OwnTimers, Underway
<1>6. CASE coreOf' = [coreOf EXCEPT ![n] = c] /\ told' = told \cup {<<c, n>>}
  <2>1. /\ coreOf'[n] = c
        /\ \A m \in Push : m # n => coreOf'[m] = coreOf[m]
    BY <1>6 DEF TimersIInv, TimersInv, TypeOK
  <2>2. ASSUME NEW g \in told
        PROVE  coreOf'[g[2]] = g[1] /\ g[1] \in dst
    <3>1. g \in Core \X Push /\ g[2] \in PushOf[g[1]]
      BY DEF TimersIInv, TimersInv, TypeOK, OwnTimers
    <3>2. g[2] = n => g[1] = c
      BY <1>2, <3>1 DEF OneTimerEach
    <3>3. QED
      BY <2>1, <3>1, <3>2 DEF TimersIInv, TimersInv, ToldIsServed
  <2>3. ToldIsServed'
    BY <1>2, <1>3, <1>6, <2>1, <2>2 DEF ToldIsServed
  <2>4. OwnTimers'
    BY <1>2, <1>3, <2>1 DEF TimersIInv, OwnTimers
  <2>5. QED
    BY <1>3, <1>4, <2>3, <2>4 DEF TimersIInv, TimersInv, Underway
<1>7. QED
  BY <1>3, <1>5, <1>6

(* The rest of an unregister takes the input from nobody who was told.     *)
LEMMA UnregisteredStep ==
  ASSUME TimersIInv, OneTimerEach, Unregistered
  PROVE  TimersIInv'
<1>1. PICK c \in Core, n \in Push :
        /\ req # None /\ req.cmd = "UNREGISTER" /\ req.core = c /\ req.push = n
  BY DEF Unregistered, TimersIInv, TimersInv, TypeOK, Request
<1>2. n \in PushOf[c] /\ <<c, n>> \notin told
  BY <1>1 DEF TimersIInv, OwnTimers, Underway
<1>3. /\ req' = None
      /\ callback' \subseteq callback /\ routed' \subseteq routed
      /\ UNCHANGED <<dst, events, todo, target, rtnVal, asked, told, got>>
      /\ \/ coreOf' = [coreOf EXCEPT ![n] = NoCore]
         \/ UNCHANGED coreOf
  BY <1>1 DEF Unregistered, MapPush, task, clients
<1>4. TypeOK'
  BY <1>3 DEF TimersIInv, TimersInv, TypeOK
<1>5. \A m \in Push : coreOf'[m] = IF m = n THEN coreOf'[n] ELSE coreOf[m]
  BY <1>3 DEF TimersIInv, TimersInv, TypeOK
<1>5a. coreOf'[n] \in {coreOf[n], NoCore}
  BY <1>3 DEF TimersIInv, TimersInv, TypeOK
<1>6. ASSUME NEW g \in told PROVE coreOf'[g[2]] = g[1] /\ g[1] \in dst
  <2>1. g \in Core \X Push /\ g[2] \in PushOf[g[1]]
    BY DEF TimersIInv, TimersInv, TypeOK, OwnTimers
  <2>2. g[2] # n
    BY <1>2, <2>1 DEF OneTimerEach
  <2>3. QED
    BY <1>5, <2>1, <2>2 DEF TimersIInv, TimersInv, ToldIsServed
<1>7. ToldIsServed'
  BY <1>3, <1>6 DEF ToldIsServed
<1>8. OwnTimers'
  BY <1>3, <1>5, <1>5a DEF TimersIInv, OwnTimers
<1>9. QED
  BY <1>3, <1>4, <1>7, <1>8 DEF TimersIInv, TimersInv, Underway

(* The callback and the notify task change neither map nor mask.           *)
LEMMA NotifySteps ==
  ASSUME TimersIInv,
         (\E n \in Push : HwPushNotify(n)) \/ NotifyTask
  PROVE  TimersIInv'
<1>1. UNCHANGED <<server, asked, told>>
  BY DEF HwPushNotify, NotifyTask, WaitEvent, ReadCore, SendNotification, clients
<1>2. /\ target' \in Target \cup {None}
      /\ target' # None /\ target'.core # NoCore => target'.push \in PushOf[target'.core]
  <2>1. CASE ReadCore
    <3>1. PICK n \in Push : target' = [push |-> n, core |-> coreOf[n]]
      BY <2>1 DEF ReadCore, TimersIInv, TimersInv, TypeOK
    <3>2. coreOf[n] \in Core \cup {NoCore}
      BY DEF TimersIInv, TimersInv, TypeOK
    <3>3. QED
      BY <3>1, <3>2 DEF Target, TimersIInv, OwnTimers
  <2>2. CASE target' = target \/ target' = None
    BY <2>2 DEF TimersIInv, TimersInv, TypeOK, OwnTimers
  <2>3. QED
    BY <2>1, <2>2 DEF HwPushNotify, NotifyTask, WaitEvent, SendNotification
<1>3. /\ events' \subseteq Push /\ todo' \subseteq Push /\ rtnVal' \in BOOLEAN
      /\ got' \subseteq Core \X Push
  <2>1. CASE \E n \in Push : HwPushNotify(n)
    BY <2>1 DEF HwPushNotify, TimersIInv, TimersInv, TypeOK
  <2>2. CASE WaitEvent \/ ReadCore
    BY <2>2 DEF WaitEvent, ReadCore, clients, TimersIInv, TimersInv, TypeOK
  <2>3. CASE SendNotification
    <3>1. UNCHANGED <<events, todo>> /\ rtnVal' \in BOOLEAN
      BY <2>3 DEF SendNotification
    <3>2. got' \subseteq got \cup {<<target.core, target.push>>}
      BY <2>3 DEF SendNotification
    <3>3. \/ got' = got
          \/ target.core \in Core /\ target.push \in Push
      BY <2>3, TimersAssumption
      DEF SendNotification, MayReceive, TimersIInv, TimersInv, TypeOK, Target
    <3>4. QED
      BY <3>1, <3>2, <3>3 DEF TimersIInv, TimersInv, TypeOK
  <2>4. QED
    BY <2>1, <2>2, <2>3 DEF NotifyTask
<1>4. TimersInv'
  BY <1>1, <1>2, <1>3 DEF server, TimersIInv, TimersInv, TypeOK, ToldIsServed
<1>5. OwnTimers' /\ Underway'
  BY <1>1, <1>2 DEF server, TimersIInv, OwnTimers, Underway
<1>6. QED
  BY <1>4, <1>5 DEF TimersIInv

(* Every step preserves the invariant.                                     *)
LEMMA TimersStep ==
  ASSUME TimersIInv, OneTimerEach, [Next]_vars
  PROVE  TimersIInv'
<1>1. CASE UNCHANGED vars
  BY <1>1 DEF vars, server, task, clients, TimersIInv, TimersInv, TypeOK,
              ToldIsServed, OwnTimers, Underway
<1>2. QED
  BY <1>1, RegisterStep, UnregisterStep, RegisteredStep, UnregisteredStep,
     NotifySteps DEF Next

(* A core that was told it is registered is in the map and in the mask,    *)
(* whichever calls fail.                                                   *)
THEOREM TimersServed == OneTimerEach /\ Spec => []TimersInv
<1> SUFFICES ASSUME OneTimerEach PROVE Spec => []TimersInv
  OBVIOUS
<1>1. TimersIInv /\ [Next]_vars => TimersIInv'
  BY TimersStep
<1>2. TimersIInv => TimersInv
  BY DEF TimersIInv
<1>3. QED
  BY TimersInit, <1>1, <1>2, PTL DEF Spec

(* What is sent goes to a core whose bit is set, for its only timer.       *)
LEMMA SentStep ==
  ASSUME TimersIInv, OneTimerEach, [Next]_vars
  PROVE  [\A g \in got' \ got : g \in asked]_vars
<1>1. CASE got' \subseteq got
  BY <1>1
<1>2. CASE SendNotification
  <2> SUFFICES ASSUME NEW g \in got' \ got PROVE g \in asked
    OBVIOUS
  <2>1. g = <<target.core, target.push>> /\ MayReceive(target.core) /\ target # None
    BY <1>2 DEF SendNotification
  <2>2. target.core \in dst /\ target.push \in PushOf[target.core]
    BY <2>1 DEF MayReceive, TimersIInv, OwnTimers
  <2>3. PICK n \in PushOf[target.core] : <<target.core, n>> \in asked
    BY <2>2 DEF TimersIInv, OwnTimers
  <2>4. target.core \in Core
    BY <2>2 DEF TimersIInv, TimersInv, TypeOK
  <2>5. n = target.push
    BY <2>2, <2>4 DEF OneTimerEach
  <2>6. QED
    BY <2>1, <2>3, <2>5
<1>3. QED
  BY <1>1, <1>2
  DEF Next, vars, clients, task, RegisterRemoteTimer, UnregisterRemoteTimer,
      Registered, Unregistered, HwPushNotify, NotifyTask, WaitEvent, ReadCore

(* A time stamp is sent only to a core that asks for it at that moment,    *)
(* although the notify task reads the map and the mask at two times: the   *)
(* bit a core has is for its only timer.                                   *)
THEOREM TimersQuiet == OneTimerEach /\ Spec => SentOnlyIfAsked
<1> SUFFICES ASSUME OneTimerEach PROVE Spec => SentOnlyIfAsked
  OBVIOUS
<1>1. TimersIInv /\ [Next]_vars => TimersIInv'
  BY TimersStep
<1>2. TimersIInv /\ [Next]_vars => [\A g \in got' \ got : g \in asked]_vars
  BY SentStep
<1>3. QED
  BY TimersInit, <1>1, <1>2, PTL DEF Spec, SentOnlyIfAsked
=============================================================================
