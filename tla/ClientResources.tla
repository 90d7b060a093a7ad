-------------------------- MODULE ClientResources --------------------------
(***************************************************************************)
(* What a client's network interface takes from the server and gives back: *)
(* a transmit channel, a receive flow, a MAC address, the classifier that  *)
(* steers its packets to the flow, and its entry in the proxy ARP table.   *)
(* The server side are the handlers of cpsw_proxy_server.c, the client     *)
(* side LwipifEnetAppCb_getHandle and releaseHandle (virtnetif_lwipif.c),  *)
(* which send one request after the other and look at no status.           *)
(*                                                                         *)
(* One action is one request, served by the one task of the server.  All   *)
(* ports are on one core, so that the driver, which checks a core's key    *)
(* only, never refuses to free what belongs to another port.  A request    *)
(* that fails is answered from a buffer nobody initialised: the client     *)
(* then holds whatever number was in it, which may be that of a flow of    *)
(* another port.  The server does not notice: the request is served as if  *)
(* the flow were the port's own.  Attaching and detaching are in           *)
(* ClientTable.                                                            *)
(***************************************************************************)
EXTENDS ArpTable, Sequences

CONSTANTS SwitchPort,      \* virtual switch ports
          MacPort,         \* virtual MAC ports
          Flow,            \* receive flows the driver may allocate
          Ch,              \* transmit channels
          Mac,             \* MAC addresses the driver may allocate
          TxChOf,          \* channel configured for a virtual port
          RelFlows,        \* ENET_CFG_RX_FLOWS_NUM
          NumRxFlow,       \* flows configured per virtual port
          Policers,        \* custom policers of a port's primary flow, in order
          IpOf,            \* IP addresses a client may be given
          MayFail,         \* what may fail: see Fault
          MaxFault,        \* bound: number of faults
          MaxVisit,        \* bound: how often a client comes up, all together
          None, Invalid    \* an id of zero, CPSWPROXY_CLIENT_INVALID_...

VirtPort == SwitchPort \cup MacPort
RelFlow == 0..(RelFlows - 1)
Resource == Flow \cup Ch \cup Mac
Fault == {"ALLOC", "FREE", "REGISTER", "UNREGISTER", "SET_POLICER",
          "DEL_POLICER", "ANSWER", "RESTART", "RENUMBER"}
CustomOf(p) == {Policers[p][i] : i \in 1..Len(Policers[p])}
Custom == UNION {CustomOf(p) : p \in VirtPort}
Match == Mac \cup MacPort \cup Custom \cup {None, "DEFAULT"}
Classifier == [match : Match, flow : Flow \cup {None}, port : VirtPort]
Kept == [flow : Flow \cup {None}, base : BOOLEAN, ch : Ch \cup {None},
         mac : Mac \cup {None}, ip : Ip \cup {None}]

ASSUME ResourceAssumption ==
  /\ RelFlows \in Nat \ {0}
  /\ TxChOf \in [VirtPort -> Ch]
  /\ NumRxFlow \in [VirtPort -> 1..RelFlows]
  /\ \A p \in VirtPort : Policers[p] \in Seq(Custom)
  /\ SwitchPort \cap MacPort = {}
  /\ IpOf \in [SwitchPort -> SUBSET Ip]
  /\ Mac \cup {None} \subseteq Hw
  /\ MayFail \subseteq Fault /\ MaxFault \in Nat \ {0} /\ MaxVisit \in Nat
  /\ Flow \cap Ch = {} /\ Flow \cap Mac = {} /\ Ch \cap Mac = {}
  /\ None \notin Resource \cup VirtPort \cup Ip /\ Invalid \notin Flow \cup {None}

VARIABLES owner,           \* port the driver allocated a resource for
          offset,          \* rxFlowIdxOffset of each flow of each port
          steer,           \* classifiers in the switch
          left,            \* classifiers nobody will remove any more
          step,            \* the client's next request
          hold,            \* what the client remembers of the answers
          told,            \* of these, the kinds it was told are its own
          config,          \* clients with useExtAttach, useDefaultRxFlow
          faults,          \* number of calls and answers that failed
          visits,          \* how often a client came up
          wild,            \* a handler used an rxFlowInfo it did not get
          astray           \* flows a port named that the server did not know for it

vars == <<arp, owner, offset, steer, left, step, hold, told, config, faults, visits, wild, astray>>

Granted == {"flow", "base", "ch", "mac"}
Nothing == [flow |-> None, base |-> FALSE, ch |-> None, mac |-> None, ip |-> None]

(* A client attaches with ATTACH_EXT or allocates one thing after another; *)
(* custom policers are made in the second case only.                       *)
Init ==
  /\ ArpInit
  /\ owner = [r \in Resource |-> None]
  /\ offset = [p \in VirtPort |-> [j \in RelFlow |-> None]]
  /\ steer = {} /\ left = {}
  /\ step = [p \in VirtPort |-> "DOWN"]
  /\ hold = [p \in VirtPort |-> Nothing]
  /\ told = [p \in VirtPort |-> {}]
  /\ config \in [ext : SUBSET {p \in VirtPort : Policers[p] = <<>>}, dflt : SUBSET SwitchPort]
  /\ faults = 0 /\ visits = 0 /\ wild = FALSE /\ astray = {}
-----------------------------------------------------------------------------
CanFail(cmd) == cmd \in MayFail /\ faults < MaxFault
Works(cmd, ok) == ok \in BOOLEAN /\ (~CanFail(cmd) => ok)
Quiet(ok) == faults' = IF ok \/ faults = MaxFault THEN faults ELSE faults + 1
calm == faults = 0

(* One request of the client and where its program goes next.              *)
Go(p, from, to) ==
  /\ step[p] = from
  /\ step' = [step EXCEPT ![p] = to]
  /\ from = "DOWN" => visits < MaxVisit
  /\ visits' = IF from = "DOWN" THEN visits + 1 ELSE visits
  /\ UNCHANGED config

(* The answer to a request for some kinds of ids: zeros when it is late,   *)
(* and with a failure whatever the server's buffer held.                   *)
Answer(p, kinds, granted, ok, clean) ==
  \E arrives \in BOOLEAN :
    /\ Works("ANSWER", arrives)
    /\ hold' = [hold EXCEPT ![p] =
                  [k \in DOMAIN Nothing |-> IF k \notin kinds THEN hold[p][k]
                                            ELSE IF arrives THEN granted[k] ELSE Nothing[k]]]
    /\ told' = [told EXCEPT ![p] = IF arrives /\ ok THEN @ \cup kinds ELSE @ \ kinds]
    /\ Quiet(arrives /\ clean)

(* A driver's allocation that fails, for whatever reason.                  *)
CannotAlloc(pool) == CanFail("ALLOC") \/ \A r \in pool : owner[r] # None

Refuse(p, kinds, pool) ==
  /\ CannotAlloc(pool)
  /\ \E g \in {k \in Kept : \A i \in DOMAIN k \ kinds : k[i] = Nothing[i]} :
       Answer(p, kinds, g, FALSE, FALSE)
  /\ UNCHANGED owner

Take(p, r) == owner[r] = None /\ owner' = [owner EXCEPT ![r] = p]

(* CpswProxyServer_getRelFlowIdx.  When the flow a request names is not    *)
(* one of the port's, the status says success all the same and the index   *)
(* is what it was.                                                         *)
IsRel(p, j, f) == offset[p][j] = f /\ \A i \in RelFlow : i < j => offset[p][i] # f
NotFound(p) == \A j \in RelFlow : offset[p][j] # hold[p].flow

Strays(p) ==
  astray' = astray \cup {f \in Flow : f = hold[p].flow /\ hold[p].base /\ NotFound(p)}

MutSaveOffset(p, f) == offset' = [offset EXCEPT ![p][0] = IF @ = None THEN f ELSE @]
SaveOffset(p, f) == offset' = [offset EXCEPT ![p][0] = f]
MutForget(p, j) == offset' = offset
Forget(p, j) == offset' = [offset EXCEPT ![p][j] = Invalid]
-----------------------------------------------------------------------------
(* CpswProxyServer_allocTxHandlerCb: the channel configured for the port.  *)
AllocTx(p) ==
  /\ p \notin config.ext
  /\ Go(p, "DOWN", "ALLOC_RX")
  /\ \/ /\ Take(p, TxChOf[p])
        /\ Answer(p, {"ch"}, [ch |-> TxChOf[p]], TRUE, TRUE)
     \/ Refuse(p, {"ch"}, {TxChOf[p]})
  /\ UNCHANGED <<arp, offset, steer, left, wild, astray>>

(* The custom policers of a flow are set or deleted one after the other,   *)
(* and the status of the whole is the status of the last.                  *)
LastDone(p, done) == Policers[p] = <<>> \/ Policers[p][Len(Policers[p])] \in done

(* CpswProxyServer_allocRxHandlerCb for the primary flow: when a custom    *)
(* policer fails the flow stays allocated and its number is answered.      *)
AllocRx(p) ==
  /\ Go(p, "ALLOC_RX", "ALLOC_MAC")
  /\ \/ \E f \in Flow, done \in SUBSET CustomOf(p) :
          /\ Take(p, f)
          /\ SaveOffset(p, f)
          /\ \A c \in CustomOf(p) : Works("SET_POLICER", c \in done)
          /\ steer' = {c \in steer : c.match \notin done}
                        \cup [match : done, flow : {f}, port : {p}]
          /\ Answer(p, {"flow", "base"}, [flow |-> f, base |-> TRUE],
                    LastDone(p, done), done = CustomOf(p))
     \/ Refuse(p, {"flow", "base"}, Flow) /\ UNCHANGED <<offset, steer>>
  /\ UNCHANGED <<arp, left, wild, astray>>

(* CpswProxyServer_allocMacHandlerCb.                                      *)
AllocMac(p) ==
  /\ Go(p, "ALLOC_MAC", "REGISTER")
  /\ \/ \E m \in Mac : Take(p, m) /\ Answer(p, {"mac"}, [mac |-> m], TRUE, TRUE)
     \/ Refuse(p, {"mac"}, Mac)
  /\ UNCHANGED <<arp, offset, steer, left, wild, astray>>

(* CpswProxyServer_attachExtHandlerCb allocates all three, and gives back  *)
(* nothing when a later one fails; the client's variables then hold what   *)
(* they held before they were declared.                                    *)
AttachExt(p) ==
  /\ p \in config.ext
  /\ Go(p, "DOWN", "REGISTER")
  /\ \E f \in Flow \cup {None}, c \in Ch \cup {None}, m \in Mac \cup {None} :
       /\ f = None => c = None /\ CannotAlloc(Flow)
       /\ c = None => m = None /\ (f = None \/ CannotAlloc(Ch))
       /\ m = None => c = None \/ CannotAlloc(Mac)
       /\ \A r \in {f, c, m} \ {None} : owner[r] = None
       /\ owner' = [r \in Resource |-> IF r \in {f, c, m} THEN p ELSE owner[r]]
       /\ IF f = None THEN UNCHANGED offset ELSE SaveOffset(p, f)
       /\ \/ /\ m # None
             /\ hold' = [hold EXCEPT ![p] = [flow |-> f, base |-> TRUE, ch |-> c, mac |-> m, ip |-> hold[p].ip]]
             /\ told' = [told EXCEPT ![p] = Granted]
             /\ UNCHANGED faults
          \/ /\ m = None \/ CanFail("ANSWER")
             /\ \E g \in {k \in Kept : k.mac = hold[p].mac /\ k.ip = hold[p].ip} : hold' = [hold EXCEPT ![p] = g]
             /\ told' = [told EXCEPT ![p] = {}]
             /\ Quiet(FALSE)
  /\ UNCHANGED <<arp, steer, left, wild, astray>>

(* The flow a request names is the primary one of the port that names it,  *)
(* and its base is the driver's.  When it is not found, the index that is  *)
(* compared was never set.                                                 *)
Accepted(p, yes) ==
  /\ yes => hold[p].base
  /\ NotFound(p) \/ (yes = (hold[p].base /\ IsRel(p, 0, hold[p].flow)))

(* What the flow's packets are told by.                                    *)
ByDefault(p) == p \in config.dflt
ByMac(p) == p \in SwitchPort \ config.dflt
ByPort(p) == p \in MacPort

(* A registration: the driver replaces the classifier with the same match. *)
Route(p, match) ==
  /\ Go(p, "REGISTER", "UP")
  /\ Strays(p)
  /\ \E ok, yes \in BOOLEAN :
       /\ Works("REGISTER", ok)
       /\ Accepted(p, yes)
       /\ Quiet(ok)
       /\ steer' = IF yes /\ ok
                   THEN {c \in steer : c.match # match} \cup
                        {[match |-> match, flow |-> hold[p].flow, port |-> p]}
                   ELSE steer
  /\ UNCHANGED <<arp, owner, offset, left, hold, told, wild>>

(* CpswRemoteApp_openLwipRxCh registers one of the three.                  *)
RegisterRxDefault(p) == ByDefault(p) /\ Route(p, "DEFAULT")
RegisterMac(p) == ByMac(p) /\ Route(p, hold[p].mac)
RegMacPortFlow(p) == ByPort(p) /\ Route(p, p)

(* The interface got an IP address, EthApp_virtNetifStatusCb.  When it is  *)
(* another one than before, the earlier one stays in the ARP table.        *)
RegisterIpv4(p) ==
  /\ p \in SwitchPort
  /\ Go(p, "UP", "UP")
  /\ \E ip \in IpOf[p] :
       LET same == Known(hold[p].ip) => ip = hold[p].ip
           room == Known(ip) \/ \E i \in ArpSlots : arp[i] = NoEntry
       IN  /\ same \/ CanFail("RENUMBER")
           /\ AddAddr(ip, hold[p].mac)
           /\ hold' = [hold EXCEPT ![p].ip = ip]
           /\ Quiet(same /\ room)
  /\ UNCHANGED <<owner, offset, steer, left, told, wild, astray>>

(* What the driver frees for a core, whichever port of it had it.          *)
Give(r, ok) ==
  owner' = IF ok /\ r # None THEN [owner EXCEPT ![r] = None] ELSE owner

MutAfterFreeTx(p) == "UNREGISTER"
AfterFreeTx(p) == IF p \in SwitchPort THEN "DEREGISTER_IPv4" ELSE "UNREGISTER"

FreeTx(p) ==
  /\ Go(p, "UP", AfterFreeTx(p))
  /\ \E ok \in BOOLEAN : /\ Works("FREE", ok)
                         /\ Quiet(ok)
                         /\ Give(hold[p].ch, ok)
  /\ told' = [told EXCEPT ![p] = @ \ {"ch"}]
  /\ hold' = [hold EXCEPT ![p].ch = None]
  /\ UNCHANGED <<arp, offset, steer, left, wild, astray>>

DeregisterIpv4(p) ==
  /\ Go(p, "DEREGISTER_IPv4", "UNREGISTER")
  /\ DelAddr(hold[p].ip)
  /\ UNCHANGED <<owner, offset, steer, left, hold, told, faults, wild, astray>>

(* The driver removes the classifier of this match and flow, if any.       *)
MutGone(p, match) == {c \in steer : p \in SwitchPort /\ c.match = match /\ c.flow = hold[p].flow}
Gone(p, match) == {c \in steer : c.match = match /\ c.flow = hold[p].flow}
Unroute(p, match) ==
  /\ Go(p, "UNREGISTER", "FREE_MAC")
  /\ Strays(p)
  /\ \E ok, yes \in BOOLEAN :
       LET gone == IF yes THEN Gone(p, match) ELSE {}
       IN  /\ Works("UNREGISTER", ok)
           /\ Accepted(p, yes)
           /\ Quiet(ok)
           /\ IF ok THEN steer' = steer \ gone /\ UNCHANGED left
                    ELSE left' = left \cup gone /\ UNCHANGED steer
  /\ UNCHANGED <<arp, owner, offset, hold, told, wild>>

DeregisterRxDefault(p) == ByDefault(p) /\ Unroute(p, "DEFAULT")
UnregisterMac(p) == ByMac(p) /\ Unroute(p, hold[p].mac)
UnregMacPortFlow(p) == ByPort(p) /\ Unroute(p, p)

FreeMac(p) ==
  /\ Go(p, "FREE_MAC", "FREE_RX")
  /\ \E ok \in BOOLEAN : /\ Works("FREE", ok)
                         /\ Quiet(ok)
                         /\ Give(hold[p].mac, ok)
  /\ told' = [told EXCEPT ![p] = @ \ {"mac"}]
  /\ UNCHANGED <<arp, offset, steer, left, hold, wild, astray>>

(* The custom policers of a port's j-th flow that are in the switch;       *)
(* deleting one that is not there fails.                                   *)
PolicersOf(p, j) == IF j = 0 THEN CustomOf(p) ELSE {}
InSwitch(p, j) == {c.match : c \in steer} \cap PolicersOf(p, j)

MutDeletePolicers(p, j, done) == done = InSwitch(p, j) /\ UNCHANGED <<steer, left>>
DeletePolicers(p, j, done) ==
  /\ done \subseteq InSwitch(p, j)
  /\ \A c \in InSwitch(p, j) : Works("DEL_POLICER", c \in done)
  /\ steer' = {c \in steer : c.match \notin done}
  /\ left' = left \cup {c \in steer : c.match \in PolicersOf(p, j) \ done}

(* CpswProxyServer_freeRxHandlerCb: the offset is forgotten before the     *)
(* flow is freed.  A flow that is not one of the port's is freed in place  *)
(* of its primary one; a flow beyond the port's own has no policer list,   *)
(* and the handler reads one through a pointer that was not set.           *)
FreeRx(p) ==
  /\ Go(p, "FREE_RX", "DOWN")
  /\ Strays(p)
  /\ \E j \in RelFlow :
       /\ IF NotFound(p) THEN j = 0 ELSE IsRel(p, j, hold[p].flow)
       /\ Forget(p, j)
       /\ \/ /\ j >= NumRxFlow[p]
             /\ wild' = TRUE
             /\ UNCHANGED <<owner, steer, left, faults>>
          \/ /\ j < NumRxFlow[p]
             /\ \E ok \in BOOLEAN, done \in SUBSET CustomOf(p) :
                  /\ Works("FREE", ok)
                  /\ DeletePolicers(p, j, done)
                  /\ Quiet(ok /\ done = InSwitch(p, j))
                  /\ Give(hold[p].flow, ok /\ hold[p].base /\ (j = 0 => LastDone(p, done)))
             /\ UNCHANGED wild
  /\ hold' = [hold EXCEPT ![p] = [Nothing EXCEPT
                  !.ip = hold[p].ip,
                  !.mac = IF p \in config.ext THEN hold[p].mac ELSE None]]
  /\ told' = [told EXCEPT ![p] = {}]
  /\ UNCHANGED arp

(* A client core starts again without giving anything back: it attaches as *)
(* if for the first time.                                                  *)
Restart(p) ==
  /\ CanFail("RESTART")
  /\ step[p] # "DOWN"
  /\ step' = [step EXCEPT ![p] = "DOWN"]
  /\ hold' = [hold EXCEPT ![p] = Nothing]
  /\ told' = [told EXCEPT ![p] = {}]
  /\ left' = left \cup {c \in steer : c.port = p}
  /\ Quiet(FALSE)
  /\ UNCHANGED <<arp, owner, offset, steer, config, visits, wild, astray>>

Client(p) ==
  \/ AllocTx(p) \/ AllocRx(p) \/ AllocMac(p) \/ AttachExt(p)
  \/ RegisterRxDefault(p) \/ RegisterMac(p) \/ RegMacPortFlow(p) \/ RegisterIpv4(p)
  \/ FreeTx(p) \/ DeregisterIpv4(p) \/ DeregisterRxDefault(p) \/ UnregisterMac(p)
  \/ UnregMacPortFlow(p) \/ FreeMac(p) \/ FreeRx(p)
  \/ Restart(p)

Next == \E p \in VirtPort : Client(p)

Spec == Init /\ [][Next]_vars
-----------------------------------------------------------------------------
Request == {"DOWN", "ALLOC_RX", "ALLOC_MAC", "REGISTER", "UP", "DEREGISTER_IPv4",
            "UNREGISTER", "FREE_MAC", "FREE_RX"}

TypeOK ==
  /\ ArpTypeOK
  /\ owner \in [Resource -> VirtPort \cup {None}]
  /\ offset \in [VirtPort -> [RelFlow -> Flow \cup {None, Invalid}]]
  /\ steer \subseteq Classifier /\ left \subseteq Classifier
  /\ step \in [VirtPort -> Request]
  /\ hold \in [VirtPort -> Kept]
  /\ told \in [VirtPort -> SUBSET Granted]
  /\ config \in [ext : SUBSET VirtPort, dflt : SUBSET SwitchPort]
  /\ faults \in 0..MaxFault /\ visits \in 0..MaxVisit /\ wild \in BOOLEAN /\ astray \subseteq Flow

(* A flow the server remembers for a port is remembered in one place only  *)
(* and allocated for that port, unless somebody named it to the server who *)
(* was never given it.                                                     *)
OffsetsOwned ==
  \A p \in VirtPort, j \in RelFlow : offset[p][j] \in Flow =>
    /\ IsRel(p, j, offset[p][j])
    /\ owner[offset[p][j]] = p \/ offset[p][j] \in astray

(* The invariants of the server's own tables.                              *)
ResourceInv == TypeOK /\ OffsetsOwned /\ OneEntryEach

(* A client that was told a flow is its own keeps it until it frees it,    *)
(* however the requests of the others fail or are answered late, and the   *)
(* server knows it as the primary flow of the port, so that no request of  *)
(* this client goes astray: the only way to lose a flow is that a client   *)
(* that was told none names just this one.                                 *)
FlowsKept ==
  \A p \in VirtPort : "flow" \in told[p] =>
    /\ hold[p].flow \in Flow /\ IsRel(p, 0, hold[p].flow)
    /\ owner[hold[p].flow] = p \/ hold[p].flow \in astray

(* A classifier its client still means to remove steers to a flow of the   *)
(* port that asked for it: no client gets packets of the client that had   *)
(* its flow before, unless the flow was named by a client it was not       *)
(* given to.                                                               *)
SteeredToHolder ==
  \A c \in steer \ left : c.flow \in Flow \ astray => owner[c.flow] = c.port

(* Every flow allocated for a port can be freed: the server knows its      *)
(* place, no handler looks beyond a port's flows, and no client names a    *)
(* flow that it was not given.                                             *)
FlowsFreeable ==
  /\ \A f \in Flow : owner[f] # None => \E j \in RelFlow : offset[owner[f]][j] = f
  /\ ~wild /\ astray = {}

(* Nothing of a client that went down is left behind: no flow, channel,    *)
(* MAC address or classifier, and no address in the ARP table, which the   *)
(* monitor waits for to be empty.                                          *)
NothingLeft(p) ==
  /\ \A r \in Resource : owner[r] # p
  /\ \A c \in steer : c.port # p
  /\ p \in SwitchPort => \A ip \in IpOf[p] : ~Known(ip)

(* While nothing fails, what is taken can be given back, and all of it is  *)
(* given back when a client goes down.                                     *)
GivenBack ==
  calm => FlowsFreeable /\ \A p \in VirtPort : step[p] = "DOWN" => NothingLeft(p)

(* While nothing fails, ARP requests for a client's address are answered   *)
(* with the MAC address the client holds.                                  *)
AnswersReachHolder ==
  \A p \in SwitchPort : \A ip \in IpOf[p] : calm /\ Known(ip) =>
    "mac" \in told[p] /\ Resolve[ip] = hold[p].mac
=============================================================================
