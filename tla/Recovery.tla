------------------------------ MODULE Recovery -------------------------------
(***************************************************************************)
(* Recovery of the switch from a lock-up: the monitor task of the server   *)
(* (ethfw_monitor.c), the registry of clients it counts (ClientTable), the *)
(* notifications it broadcasts, and the recovery task of each client       *)
(* (virtnetif_lwipif.c), which closes and reopens the DMA channels.        *)
(*                                                                         *)
(* The monitor counts the attached clients once, when it detects the       *)
(* lock-up, and then waits until exactly that many are idle: every attach  *)
(* and detach handled by another task in between makes the count stale.    *)
(* A client may be released at any time; Overlap says what else may come   *)
(* about: attaches during a recovery ("ATTACH"), attaches and detaches     *)
(* whose failure leaves an object behind ("ORPHAN"), and notifications and *)
(* confirmations that are lost ("LOST"): both sides log a failed send or   *)
(* request and go on.                                                      *)
(*                                                                         *)
(* EnetAppUtils_assert, EnetAppUtils_isPortLinkUp and the interface layer  *)
(* of lwIP between the client's callbacks are not in this repository.  The *)
(* assertion is taken to stop the task that fails it, the link of an       *)
(* invalid port to be down, and an interface that is not open, or is being *)
(* released, to have no channel handles.                                   *)
(***************************************************************************)
EXTENDS ClientTable, Sequences

CONSTANTS CoreOf,          \* core of the client of a virtual port
          IpPort,          \* ports whose client registers an IPv4 address
          Trigger,         \* {"PORT", "HOST"}: whose drop counter may grow
          Overlap,         \* \subseteq {"ATTACH", "ORPHAN", "LOST"}
          MaxLockup        \* bound: lock-ups in one behaviour

ASSUME RecoveryAssumption ==
  /\ Core \subseteq Nat /\ IsFiniteSet(Core)
  /\ CoreOf \in [VirtPort -> Core]
  /\ IpPort \subseteq VirtPort
  /\ Trigger \subseteq {"PORT", "HOST"}
  /\ Overlap \subseteq {"ATTACH", "ORPHAN", "LOST"}
  /\ MaxLockup \in Nat

VARIABLES mon,             \* the monitor task: where it is, what its broadcast
                           \* has yet to visit, numTotalClients, and whether
                           \* recoveryMacPort is a port
          status,          \* serverStatus
          arp,             \* ports with an entry in the proxy ARP table
          client,          \* of each port: OFF, JOINING, UP or LEAVING
          dma,             \* of each port: OPEN, RX (one of two) or CLOSED
          inbox,           \* notifications its client has yet to handle
          unheard,         \* history: attached clients that missed one, or
                           \* whose confirmation was lost
          lockups          \* lock-ups so far

monVars == <<mon, status, lockups>>
clientVars == <<client, dma, inbox, unheard>>
vars == <<tableVars, monVars, arp, clientVars>>

Phase == {"WATCH", "HWERROR", "TEARDOWN", "ARP", "RESET", "LINK", "COMPLETE",
          "RESUME"}
Places == Core \X Slots

(* The broadcast visits the objects core by core and slot by slot.         *)
ComesFirst(o) ==
  \A q \in mon.todo : o[1] < q[1] \/ (o[1] = q[1] /\ o[2] <= q[2])

Init ==
  /\ TableInit
  /\ mon = [pc |-> "WATCH", todo |-> Places, numTotal |-> 0, port |-> FALSE]
  /\ status = "READY"
  /\ arp = {}
  /\ client = [p \in VirtPort |-> "OFF"]
  /\ dma = [p \in VirtPort |-> "CLOSED"]
  /\ inbox = [p \in VirtPort |-> <<>>]
  /\ unheard = {}
  /\ lockups = 0

Watching == mon.pc = "WATCH"

-----------------------------------------------------------------------------
(* The monitor task.                                                       *)

MutGo(pc) == mon' = [mon EXCEPT !.pc = pc]
(* To the next step; a broadcast starts over with every object.            *)
Go(pc) == mon' = [mon EXCEPT !.pc = pc, !.todo = Places]

MutSetStatus(s) == status' = IF status = "READY" THEN s ELSE status
SetStatus(s) == status' = s

MutLockupStatus(trigger) == status
LockupStatus(trigger) == IF trigger = "PORT" THEN "BAD" ELSE status

(* EthFwMon_Task finds a drop counter grown: a MAC port's moves the server *)
(* to BAD, the host port's does not.  The clients are counted here, and    *)
(* with none attached there is nothing to wait for.                        *)
Detect(trigger) ==
  /\ Watching
  /\ lockups < MaxLockup
  /\ "ATTACH" \in Overlap \/ \A p \in VirtPort : client[p] # "JOINING"
  /\ lockups' = lockups + 1
  /\ SetStatus(LockupStatus(trigger))
  /\ LET n == Cardinality(AttachedObj) IN
       mon' = [pc |-> IF n = 0 THEN "RESET" ELSE "HWERROR",
               todo |-> Places, numTotal |-> n,
               port |-> mon.port \/ trigger = "PORT"]
  /\ UNCHANGED <<tableVars, arp, clientVars>>

(* A notification carries the token of the object.  The client finds its   *)
(* handle by it once the answer to the attach has set it; before that, and *)
(* for a client that is gone, the notification is dropped.  That a send    *)
(* failed is only logged.                                                  *)
Heard(p, note) ==
  /\ client[p] # "OFF"
  /\ inbox' = [inbox EXCEPT ![p] = Append(@, note)]
  /\ UNCHANGED unheard

MutMissed(p) == UNCHANGED <<inbox, unheard>>
Missed(p) ==
  /\ client[p] = "JOINING" \/ ("LOST" \in Overlap /\ client[p] # "OFF")
  /\ unheard' = unheard \cup {p}
  /\ UNCHANGED inbox

Notify(o, note) ==
  /\ \/ o.token \in VirtPort /\ (Heard(o.token, note) \/ Missed(o.token))
     \/ /\ o.token \in VirtPort => client[o.token] = "OFF"
        /\ UNCHANGED <<inbox, unheard>>
  /\ UNCHANGED <<client, dma>>

(* One round of the loop of CpswProxyServer_bcastNotify, which sleeps      *)
(* before the next: an object in use is no longer idle and is notified.    *)
Broadcast(note) ==
  /\ mon.pc = note
  /\ \E o \in mon.todo :
       /\ ComesFirst(o)
       /\ mon' = [mon EXCEPT !.todo = @ \ {o}]
       /\ IF o[2] \in InUse(o[1])
          THEN ClearIdle(o[1], o[2]) /\ Notify(clientObj[o[1]][o[2]], note)
          ELSE UNCHANGED <<tableVars, clientVars>>
  /\ UNCHANGED <<status, lockups, arp>>

BroadcastDone(note, next) ==
  /\ mon.pc = note
  /\ mon.todo = {}
  /\ Go(next)
  /\ UNCHANGED <<tableVars, status, lockups, arp, clientVars>>

MutAllIdle == Cardinality(IdleObj) + 1 >= mon.numTotal
AllIdle == Cardinality(IdleObj) = mon.numTotal

TeardownComplete ==
  /\ mon.pc = "TEARDOWN"
  /\ AllIdle
  /\ Go("ARP")
  /\ UNCHANGED <<tableVars, status, lockups, arp, clientVars>>

NoPendingReq ==
  /\ mon.pc = "ARP"
  /\ arp = {}
  /\ Go("RESET")
  /\ UNCHANGED <<tableVars, status, lockups, arp, clientVars>>

ResetHandler ==
  /\ mon.pc = "RESET"
  /\ SetStatus("RECOVERY")
  /\ Go("LINK")
  /\ UNCHANGED <<tableVars, lockups, arp, clientVars>>

(* The link of the port that locked up comes back, sooner or later.  The   *)
(* monitor waits for the last MAC port it found, also when this lock-up is *)
(* the host port's, and there may never have been one.                     *)
PortLinked ==
  /\ mon.pc = "LINK"
  /\ mon.port
  /\ Go("COMPLETE")
  /\ UNCHANGED <<tableVars, status, lockups, arp, clientVars>>

Resume ==
  /\ mon.pc = "RESUME"
  /\ SetStatus("READY")
  /\ Go("WATCH")
  /\ UNCHANGED <<tableVars, lockups, arp, clientVars>>

Monitor ==
  \/ Broadcast("HWERROR")
  \/ BroadcastDone("HWERROR", "TEARDOWN")
  \/ TeardownComplete
  \/ NoPendingReq
  \/ ResetHandler
  \/ PortLinked
  \/ Broadcast("COMPLETE")
  \/ BroadcastDone("COMPLETE", "RESUME")
  \/ Resume
-----------------------------------------------------------------------------
(* The clients, and the tasks of the server that answer them.              *)

(* The server has executed the attach, the client has not seen the answer. *)
(* An interface comes back when its old notifications have been handled.   *)
AttachServed(p) ==
  /\ client[p] = "OFF" /\ inbox[p] = <<>>
  /\ Watching \/ "ATTACH" \in Overlap
  /\ Attach(CoreOf[p], p, p)
  /\ client' = [client EXCEPT ![p] = "JOINING"]
  /\ UNCHANGED <<monVars, arp, dma, inbox, unheard>>

(* The answer sets the token of the handle, and the client opens its DMA   *)
(* channels.                                                               *)
Attached(p) ==
  /\ client[p] = "JOINING"
  /\ client' = [client EXCEPT ![p] = "UP"]
  /\ dma' = [dma EXCEPT ![p] = "OPEN"]
  /\ UNCHANGED <<tableVars, monVars, arp, inbox, unheard>>

(* An attach the server executed and the client counts as failed: its      *)
(* answer came after the timeout, or the MTU check failed (and left no     *)
(* token), or ATTACH_EXT ran out of flows, channels or addresses.  The     *)
(* object stays.                                                           *)
AttachOrphaned(p) ==
  /\ "ORPHAN" \in Overlap
  /\ client[p] = "OFF"
  /\ \E tok \in {p, NoToken} : Attach(CoreOf[p], p, tok)
  /\ UNCHANGED <<monVars, arp, clientVars>>

AttachFull(p) ==
  /\ client[p] = "OFF"
  /\ AttachRefused(CoreOf[p])
  /\ UNCHANGED <<monVars, arp, clientVars>>

(* LwipifEnetAppCb_releaseHandle: the interface closes its Tx channel, then*)
(* its Rx flow, with the requests that give back what it had, and detaches *)
(* last.  Closing what a recovery has closed would stop it at an assertion.*)
CloseTx(p) ==
  /\ client[p] = "UP" /\ dma[p] = "OPEN"
  /\ client' = [client EXCEPT ![p] = "LEAVING"]
  /\ dma' = [dma EXCEPT ![p] = "RX"]
  /\ UNCHANGED <<tableVars, monVars, arp, inbox, unheard>>

CloseRx(p) ==
  /\ client[p] = "LEAVING" /\ dma[p] = "RX"
  /\ dma' = [dma EXCEPT ![p] = "CLOSED"]
  /\ arp' = arp \ {p}
  /\ UNCHANGED <<tableVars, monVars, client, inbox, unheard>>

(* The detach, which may not reach the server.                             *)
Detached(p) ==
  /\ client[p] = "LEAVING" /\ dma[p] = "CLOSED"
  /\ \/ Detach(CoreOf[p], p)
     \/ "ORPHAN" \in Overlap /\ UNCHANGED tableVars
  /\ client' = [client EXCEPT ![p] = "OFF"]
  /\ unheard' = unheard \ {p}
  /\ UNCHANGED <<monVars, arp, dma, inbox>>

Release(p) == CloseRx(p) \/ Detached(p)

(* EthApp_virtNetifStatusCb: the interface has got its address.            *)
RegisterIpv4(p) ==
  /\ p \in IpPort \ arp
  /\ client[p] = "UP" /\ dma[p] = "OPEN"
  /\ arp' = arp \cup {p}
  /\ UNCHANGED <<tableVars, monVars, clientVars>>

(* CpswRemoteApp_hwRecoveryTask, one per core, takes the notifications of  *)
(* the core's interfaces from a mailbox until an assertion stops it.       *)
Pending(p, note) == inbox[p] # <<>> /\ Head(inbox[p]) = note
Stopped(c) == \E p \in VirtPort : CoreOf[p] = c /\ Pending(p, "STOPPED")
Received(p, note) == Pending(p, note) /\ ~Stopped(CoreOf[p])

(* HWERROR: EthApp_closeDma, which keeps the address registered, and then  *)
(* CpswProxy_teardownCompletion, a request to the server.                  *)
CloseDma(p) ==
  /\ Received(p, "HWERROR")
  /\ client[p] = "UP" /\ dma[p] = "OPEN"
  /\ dma' = [dma EXCEPT ![p] = "CLOSED"]
  /\ inbox' = [inbox EXCEPT ![p] = <<"CLOSED">> \o Tail(@)]
  /\ UNCHANGED <<tableVars, monVars, arp, client, unheard>>

(* The status of the request is ignored, and it is not sent again.         *)
SendTeardownCompletion(p) ==
  /\ Received(p, "CLOSED")
  /\ \/ TeardownCompletion(CoreOf[p], p) /\ UNCHANGED unheard
     \/ /\ "LOST" \in Overlap
        /\ unheard' = unheard \cup {p}
        /\ UNCHANGED tableVars
  /\ inbox' = [inbox EXCEPT ![p] = Tail(@)]
  /\ UNCHANGED <<monVars, arp, client, dma>>

(* HWRECOVERY_COMPLETE: EthApp_openDma.                                    *)
OpenDma(p) ==
  /\ Received(p, "COMPLETE")
  /\ client[p] = "UP" /\ dma[p] = "CLOSED"
  /\ dma' = [dma EXCEPT ![p] = "OPEN"]
  /\ inbox' = [inbox EXCEPT ![p] = Tail(@)]
  /\ UNCHANGED <<tableVars, monVars, arp, client, unheard>>

(* Closing channels that are not open, or opening ones that are not closed,*)
(* fails an assertion of LwipifEnetAppCb_closeDma or openDma.              *)
AssertFails(p) ==
  /\ \/ Received(p, "HWERROR") /\ ~(client[p] = "UP" /\ dma[p] = "OPEN")
     \/ Received(p, "COMPLETE") /\ ~(client[p] = "UP" /\ dma[p] = "CLOSED")
  /\ inbox' = [inbox EXCEPT ![p] = <<"STOPPED">> \o Tail(@)]
  /\ UNCHANGED <<tableVars, monVars, arp, client, dma, unheard>>

RecoveryTask(p) ==
  CloseDma(p) \/ SendTeardownCompletion(p) \/ OpenDma(p) \/ AssertFails(p)

Next ==
  \/ \E trigger \in Trigger : Detect(trigger)
  \/ Monitor
  \/ \E p \in VirtPort :
       \/ AttachServed(p)
       \/ Attached(p)
       \/ AttachOrphaned(p)
       \/ AttachFull(p)
       \/ CloseTx(p)
       \/ Release(p)
       \/ RegisterIpv4(p)
       \/ RecoveryTask(p)

(* The monitor, the recovery task of each client, the answer to an attach  *)
(* and a release under way keep running; the link comes back.  Nothing     *)
(* makes a client attach, leave or register, nor the switch lock up.       *)
Spec ==
  /\ Init /\ [][Next]_vars
  /\ WF_vars(Monitor)
  /\ \A p \in VirtPort :
       WF_vars(RecoveryTask(p)) /\ WF_vars(Attached(p)) /\ WF_vars(Release(p))
-----------------------------------------------------------------------------
(* No reset of the switch while a client still has a DMA channel open on   *)
(* it: the user guide asks clients to tear down theirs first because a     *)
(* reset leaves stale states in UDMA and the interconnect otherwise.       *)
ResetAfterTeardown ==
  mon.pc = "RESET" => \A p \in VirtPort : dma[p] = "CLOSED"

(* What the monitor counts is what the clients have done: an object marked *)
(* idle belongs to a client whose channels are closed.  The broadcast of   *)
(* the completion clears the mark before it tells the client to reopen.    *)
IdleIsClosed ==
  \A o \in IdleObj : dma[clientObj[o[1]][o[2]].virtPort] = "CLOSED"

(* A client that missed nothing is told to close open channels, never      *)
(* closed ones, and nobody is ever told to open channels that are not      *)
(* closed.  Only a client that missed something, or is released, stops its *)
(* core's recovery task.                                                   *)
PairedNotifications ==
  \A p \in VirtPort :
    /\ Pending(p, "HWERROR") /\ client[p] = "UP" => dma[p] = "OPEN" \/ p \in unheard
    /\ Pending(p, "COMPLETE") => client[p] = "UP" /\ dma[p] = "CLOSED"
    /\ Pending(p, "STOPPED") => p \in unheard \/ client[p] \in {"LEAVING", "OFF"}

(* Why the three hold while clients come between recoveries only, whenever *)
(* they go and whatever is lost: an equal count is one nobody has left.    *)
(* A client that is there has one object, on its core and with its token.  *)
RecoveryTypeOK ==
  /\ mon \in [pc : Phase, todo : SUBSET Places, numTotal : Nat, port : BOOLEAN]
  /\ client \in [VirtPort -> {"OFF", "JOINING", "UP", "LEAVING"}]
  /\ dma \in [VirtPort -> {"OPEN", "RX", "CLOSED"}]
  /\ inbox \in [VirtPort -> Seq({"HWERROR", "CLOSED", "COMPLETE", "STOPPED"})]
  /\ unheard \in SUBSET VirtPort

ObjectHasClient ==
  \A c \in Core : \A s \in InUse(c) :
    /\ clientObj[c][s].token \in VirtPort
    /\ clientObj[c][s].virtPort = clientObj[c][s].token
    /\ CoreOf[clientObj[c][s].token] = c
    /\ client[clientObj[c][s].token] # "OFF"
    /\ \A t \in InUse(c) :
         clientObj[c][t].token = clientObj[c][s].token => t = s

ClientHasObject ==
  \A p \in VirtPort : client[p] # "OFF" =>
    \E s \in InUse(CoreOf[p]) : clientObj[CoreOf[p]][s].token = p

(* Nobody is joining while the monitor counts and waits, and the count is  *)
(* the number of clients and those that have left since.                   *)
CountCovers ==
  ~Watching => /\ \A p \in VirtPort : client[p] # "JOINING"
               /\ mon.numTotal >= Cardinality(AttachedObj)

(* A client that is not there yet has nothing open and missed nothing; one *)
(* that is leaving, or has left, may still be told to close.               *)
NotUpIsQuiet ==
  \A p \in VirtPort :
    /\ client[p] \in {"OFF", "JOINING"} => dma[p] = "CLOSED" /\ p \notin unheard
    /\ client[p] = "JOINING" => inbox[p] = <<>>
    /\ client[p] \in {"OFF", "LEAVING"} =>
         inbox[p] \in {<<>>, <<"HWERROR">>, <<"STOPPED">>}

(* Where the client of an object is: at work or never told that it may go  *)
(* back, told to close or unaware of it, or done.                          *)
AtWork(o) ==
  /\ ~o.isIdle
  /\ \/ client[o.token] = "JOINING"
     \/ client[o.token] = "LEAVING" /\ inbox[o.token] = <<>>
     \/ /\ client[o.token] = "UP" /\ o.token \notin unheard
        /\ \/ dma[o.token] = "OPEN" /\ inbox[o.token] = <<>>
           \/ dma[o.token] = "CLOSED" /\ inbox[o.token] = <<"COMPLETE">>
     \/ /\ client[o.token] = "UP" /\ o.token \in unheard
        /\ dma[o.token] = "CLOSED" /\ inbox[o.token] = <<>>

Done(o) ==
  /\ o.isIdle /\ o.token \notin unheard /\ client[o.token] = "UP"
  /\ dma[o.token] = "CLOSED" /\ inbox[o.token] = <<>>

(* A client that missed something never confirms.                          *)
Astray(p) ==
  \/ dma[p] = "OPEN" /\ inbox[p] = <<>>
  \/ /\ dma[p] = "CLOSED"
     /\ inbox[p] \in {<<>>, <<"COMPLETE">>, <<"HWERROR">>, <<"STOPPED">>}

ToldToClose(o) ==
  \/ Done(o)
  \/ /\ ~o.isIdle
     /\ \/ client[o.token] = "LEAVING"
        \/ /\ client[o.token] = "UP" /\ o.token \notin unheard
           /\ \/ dma[o.token] = "OPEN" /\ inbox[o.token] = <<"HWERROR">>
              \/ dma[o.token] = "CLOSED" /\ inbox[o.token] = <<"CLOSED">>
              \/ dma[o.token] = "CLOSED" /\ inbox[o.token] = <<"COMPLETE", "HWERROR">>
        \/ client[o.token] = "UP" /\ o.token \in unheard /\ Astray(o.token)

(* A broadcast moves the clients it has visited from one to the next.      *)
InStep(o, visited) ==
  \/ mon.pc \in {"WATCH", "RESUME"} /\ AtWork(o)
  \/ mon.pc = "HWERROR" /\ (IF visited THEN ToldToClose(o) ELSE AtWork(o))
  \/ mon.pc = "TEARDOWN" /\ ToldToClose(o)
  \/ mon.pc \in {"ARP", "RESET", "LINK"} /\ Done(o)
  \/ mon.pc = "COMPLETE" /\ (IF visited THEN AtWork(o) ELSE Done(o))

AllInStep ==
  \A c \in Core : \A s \in InUse(c) :
    InStep(clientObj[c][s], <<c, s>> \notin mon.todo)

CalmInv ==
  /\ TableInv /\ RecoveryTypeOK
  /\ ObjectHasClient /\ ClientHasObject
  /\ CountCovers /\ NotUpIsQuiet /\ AllInStep

(* A server whose switch is locked up does not claim to be ready.          *)
StatusShowsLockup == ~Watching => status # "READY"

(* To the clients the recovery is a barrier: where each of them stands is  *)
(* read off its channels, the notification it has to handle next and       *)
(* whether it missed one.                                                  *)
Round ==
  CASE Watching -> "RUN"
    [] mon.pc \in {"HWERROR", "TEARDOWN", "ARP", "RESET"} -> "CLOSE"
    [] OTHER -> "RESET"

Standing(p) ==
  IF client[p] \in {"OFF", "JOINING"} THEN "OUT"
  ELSE IF client[p] = "LEAVING" \/ dma[p] # "CLOSED" THEN "OPEN"
  ELSE IF Pending(p, "COMPLETE") THEN "RELEASED"
  ELSE IF p \in unheard THEN "STRANDED" ELSE "SHUT"

Barrier == INSTANCE RecoveryBarrier
             WITH round <- Round, standing <- [p \in VirtPort |-> Standing(p)]

(* The recovery implements the barrier: the reset waits for every client,  *)
(* each closes and opens its channels once per round, in that order, the   *)
(* server is back in service when everybody has been told or has missed    *)
(* it, and after a client missed it the switch is not reset again.         *)
ImplementsBarrier == Barrier!Spec

(* Why the monitor may wait for ever: a client has left while it waits for *)
(* as many as it counted, a client missed a notification, its confirmation *)
(* was lost or its task has stopped, or no MAC port has ever locked up.    *)
Deserted ==
  /\ mon.pc \in {"HWERROR", "TEARDOWN"}
  /\ Cardinality(AttachedObj) < mon.numTotal

Silent(p) == client[p] = "UP" /\ (p \in unheard \/ Stopped(CoreOf[p]))

Hopeless ==
  \/ Deserted
  \/ \E p \in VirtPort : Silent(p)
  \/ mon.pc = "LINK" /\ ~mon.port

(* A recovery comes to its end unless a client leaves it, or a message of  *)
(* it is lost: the monitor does not wait for ever for clients that can     *)
(* answer.  (For an ARP table its clients filled it does: IpPort is empty  *)
(* where this is checked.)                                                 *)
RecoveryCompletes == ~Watching ~> (Hopeless \/ (Watching /\ status = "READY"))

(* Once the waits are over a recovery ends, whoever comes and goes and     *)
(* whatever is lost, if there is a port whose link can come back.          *)
ResetCompletes ==
  (mon.pc = "RESET" /\ mon.port) ~> (Watching /\ status = "READY")

(* A client that closed its channels for a recovery opens them again,      *)
(* unless the recovery waits for ever.                                     *)
DmaReopened ==
  \A p \in VirtPort :
    (client[p] = "UP" /\ dma[p] = "CLOSED") ~>
      (Hopeless \/ client[p] = "OFF" \/ dma[p] = "OPEN")
=============================================================================
