----------------------------- MODULE RemoteTimers ------------------------------
(***************************************************************************)
(* Remote timers of the CPSW proxy server, cpsw_proxy_server.c: a client   *)
(* core has the time sync router feed the pulses of one of its timers to a *)
(* hardware push input of the switch's time stamping unit (CPTS), and is   *)
(* sent the time stamp of each pulse.                                      *)
(*                                                                         *)
(* Two tasks share hwPush2CoreIdMap and dstProcMask without a lock: the    *)
(* task that serves the clients' requests, which changes them around its   *)
(* calls of the driver, and the notify task, which reads one before and    *)
(* the other after the lookup of a time stamp.                             *)
(***************************************************************************)
EXTENDS Naturals, FiniteSets

CONSTANTS Core,            \* client cores
          Push,            \* hardware push inputs the clients use
          PushOf,          \* push inputs of each core
          PushMax,         \* CPSW_CPTS_HWPUSH_COUNT_MAX
          MayFail,         \* calls that may fail
          NoCore,          \* IPC_MAX_PROCS
          None             \* nothing in progress

Call == {"REGISTER", "UNREGISTER", "ROUTE", "LOOKUP", "SEND"}
Request == [cmd : {"REGISTER", "UNREGISTER"}, core : Core, push : Push]
Target == [push : Push, core : Core \cup {NoCore}]

ASSUME TimersAssumption ==
  /\ PushMax \in Nat
  /\ Push \subseteq 1..PushMax
  /\ PushOf \in [Core -> SUBSET Push]
  /\ MayFail \subseteq Call
  /\ NoCore \notin Core
  /\ None \notin Request \cup Target

VARIABLES coreOf,          \* hwPush2CoreIdMap
          dst,             \* dstProcMask: cores that may be sent to
          callback,        \* push inputs the driver calls back for
          routed,          \* push inputs the router feeds a timer to
          req,             \* the request being served
          events,          \* event bits posted by the callback
          todo,            \* event bits the notify task has taken
          target,          \* the one it is at, and the core it read
          rtnVal,          \* rtnVal of the notify task: TRUE for ENET_SOK
          asked,           \* <<core, push>> the core wants time stamps of
          told,            \* those it was told it gets
          got              \* those it was sent one for the last pulse

server == <<coreOf, dst, callback, routed, req>>
task == <<events, todo, target, rtnVal>>
clients == <<asked, told, got>>
vars == <<server, task, clients>>

Init ==
  /\ coreOf = [n \in Push |-> NoCore]
  /\ dst = {}
  /\ callback = {} /\ routed = {}
  /\ req = None
  /\ events = {} /\ todo = {}
  /\ target = None
  /\ rtnVal = TRUE
  /\ asked = {} /\ told = {} /\ got = {}

-----------------------------------------------------------------------------
(* A call returns ok.                                                      *)
Returns(call, ok) == ok \in BOOLEAN /\ (call \notin MayFail => ok)

(* Register accepts every input up to the last, unregister does not.       *)
RegisterValid(n) == n <= PushMax
UnregisterValid(n) == n < PushMax

(* A request is served up to its first call of the driver: the core's bit  *)
(* is set, or cleared, before it is known whether the request succeeds.    *)
RegisterRemoteTimer(c, n) ==
  /\ req = None
  /\ RegisterValid(n)
  /\ req' = [cmd |-> "REGISTER", core |-> c, push |-> n]
  /\ dst' = dst \cup {c}
  /\ asked' = asked \cup {<<c, n>>}
  /\ UNCHANGED <<coreOf, callback, routed, task, told, got>>

MutClearMask(c) == UNCHANGED dst
ClearMask(c) == dst' = dst \ {c}

UnregisterRemoteTimer(c, n) ==
  /\ req = None
  /\ <<c, n>> \in asked
  /\ asked' = asked \ {<<c, n>>}
  /\ told' = told \ {<<c, n>>}
  /\ IF UnregisterValid(n)
     THEN /\ req' = [cmd |-> "UNREGISTER", core |-> c, push |-> n]
          /\ ClearMask(c)
     ELSE UNCHANGED <<req, dst>>
  /\ UNCHANGED <<coreOf, callback, routed, task, got>>

MutMapPush(n, c) == coreOf' = [coreOf EXCEPT ![n] = NoCore]
MapPush(n, c) == coreOf' = [coreOf EXCEPT ![n] = c]

(* The rest of a register: callback, router, and then the map.             *)
Registered ==
  /\ req # None /\ req.cmd = "REGISTER"
  /\ req' = None
  /\ LET c == req.core
         n == req.push
     IN  \E called, fed \in BOOLEAN :
           /\ Returns("REGISTER", called) /\ Returns("ROUTE", fed)
           /\ callback' = IF called THEN callback \cup {n} ELSE callback
           /\ routed' = IF called /\ fed THEN routed \cup {n} ELSE routed
           /\ IF called /\ fed
              THEN MapPush(n, c) /\ told' = told \cup {<<c, n>>}
              ELSE UNCHANGED <<coreOf, told>>
  /\ UNCHANGED <<dst, task, asked, got>>

(* The rest of an unregister, in the same order.                           *)
Unregistered ==
  /\ req # None /\ req.cmd = "UNREGISTER"
  /\ req' = None
  /\ LET n == req.push
     IN  \E called, fed \in BOOLEAN :
           /\ Returns("UNREGISTER", called) /\ Returns("ROUTE", fed)
           /\ callback' = IF called THEN callback \ {n} ELSE callback
           /\ routed' = IF called /\ fed THEN routed \ {n} ELSE routed
           /\ IF called /\ fed THEN MapPush(n, NoCore) ELSE UNCHANGED coreOf
  /\ UNCHANGED <<dst, task, clients>>

(* A pulse of the timer: the driver's callback posts the input's event.    *)
HwPushNotify(n) ==
  /\ n \in callback \cap routed
  /\ events' = events \cup {n}
  /\ got' = {g \in got : g[2] # n}
  /\ UNCHANGED <<server, todo, target, rtnVal, asked, told>>

(* The notify task takes all the events there are; once a call has failed  *)
(* for the last event of a round it does nothing with them any more.       *)
WaitEvent ==
  /\ todo = {} /\ target = None
  /\ events # {}
  /\ events' = {}
  /\ todo' = IF rtnVal THEN events ELSE {}
  /\ UNCHANGED <<server, target, rtnVal, clients>>

(* The next event in ascending order: the core is read, then the driver is *)
(* asked for the time stamp.                                               *)
ReadCore ==
  /\ target = None
  /\ \E n \in todo :
       /\ \A k \in todo : n <= k
       /\ target' = [push |-> n, core |-> coreOf[n]]
       /\ todo' = todo \ {n}
  /\ UNCHANGED <<server, events, rtnVal, clients>>

MutMayReceive(c) == c # NoCore
MayReceive(c) == c # NoCore /\ c \in dst

(* With the time stamp found it is sent to that core if its bit is set now. *)
SendNotification ==
  /\ target # None
  /\ target' = None
  /\ \E found, sent \in BOOLEAN :
       /\ Returns("LOOKUP", found) /\ Returns("SEND", sent)
       /\ rtnVal' = (found /\ (MayReceive(target.core) => sent))
       /\ got' = IF found /\ sent /\ MayReceive(target.core)
                 THEN got \cup {<<target.core, target.push>>} ELSE got
  /\ UNCHANGED <<server, events, todo, asked, told>>

NotifyTask == WaitEvent \/ ReadCore \/ SendNotification

Next ==
  \/ \E c \in Core : \E n \in PushOf[c] :
       RegisterRemoteTimer(c, n) \/ UnregisterRemoteTimer(c, n)
  \/ Registered
  \/ Unregistered
  \/ \E n \in Push : HwPushNotify(n)
  \/ NotifyTask

(* Both tasks of the server keep running; nobody has to ask for anything,  *)
(* and no timer has to run.                                                *)
Spec == Init /\ [][Next]_vars /\ WF_vars(NotifyTask)
             /\ WF_vars(Registered) /\ WF_vars(Unregistered)
-----------------------------------------------------------------------------
TypeOK ==
  /\ coreOf \in [Push -> Core \cup {NoCore}]
  /\ dst \subseteq Core
  /\ callback \subseteq Push /\ routed \subseteq Push
  /\ req \in Request \cup {None}
  /\ events \subseteq Push /\ todo \subseteq Push
  /\ target \in Target \cup {None}
  /\ rtnVal \in BOOLEAN
  /\ asked \subseteq Core \X Push
  /\ told \subseteq asked
  /\ got \subseteq Core \X Push

(* A core that asked to be left alone is sent no time stamp of that push,  *)
(* although the notify task may have read the map before: the bit in       *)
(* dstProcMask, cleared before everything else, stops it.                  *)
SentOnlyIfAsked == [][\A g \in got' \ got : g \in asked]_vars

(* A core that was told it is registered is in the map and in the mask, so *)
(* that no pulse goes astray: the map is written after the driver calls    *)
(* and the mask before them, and a later request of somebody else must not *)
(* undo either.                                                            *)
ToldIsServed ==
  \A g \in told : coreOf[g[2]] = g[1] /\ g[1] \in dst

(* The state is well formed, and whoever was told is served.               *)
TimersInv == TypeOK /\ ToldIsServed

(* A pulse of a registered timer reaches its core, as long as the notify   *)
(* task has not met a failing call.                                        *)
PulseDelivered ==
  \A c \in Core : \A n \in PushOf[c] :
    (n \in events /\ <<c, n>> \in told)
      ~> (<<c, n>> \in got \/ <<c, n>> \notin told \/ ~rtnVal)
=============================================================================
