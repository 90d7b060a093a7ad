----------------------------- MODULE ClientTable -----------------------------
(***************************************************************************)
(* The registry of remote clients of the CPSW proxy server,                *)
(* cpsw_proxy_server.c: a few client objects per remote core, found again  *)
(* by the token the server handed out, and a reference count per core that *)
(* decides when the core attaches to the Ethernet driver (EnetMcm) and     *)
(* when it detaches.                                                       *)
(*                                                                         *)
(* One action is one request, handled by the task of the core's endpoint.  *)
(* An attach does not look for an object of the same port, takes the       *)
(* object and the reference before the steps that may fail, and gives      *)
(* neither back when they do.                                              *)
(***************************************************************************)
EXTENDS Naturals, FiniteSets

CONSTANTS Core,            \* remote cores
          VirtPort,        \* virtual ports; the port's token is the port
          MaxObj,          \* CPSWPROXYSERVER_VIRTPORT_PER_CLIENT_MAX
          NoToken,         \* ETHREMOTECFG_TOKEN_NONE
          Free             \* a client object not in use

Slots == 1..MaxObj
Token == VirtPort \cup {NoToken}
Object == [virtPort : VirtPort, token : Token, isIdle : BOOLEAN]

ASSUME TableAssumption ==
  /\ MaxObj \in Nat
  /\ NoToken \notin VirtPort
  /\ Free \notin Object

VARIABLES clientObj,       \* clientObj[c][s]: Free or an Object
          rmRefCnt,        \* attached objects of a core
          mcm              \* EnetMcm_coreAttach calls of a core less its
                           \* EnetMcm_coreDetach calls

tableVars == <<clientObj, rmRefCnt, mcm>>

TableInit ==
  /\ clientObj = [c \in Core |-> [s \in Slots |-> Free]]
  /\ rmRefCnt = [c \in Core |-> 0]
  /\ mcm = [c \in Core |-> 0]

-----------------------------------------------------------------------------
InUse(c) == {s \in Slots : clientObj[c][s] # Free}

(* CpswProxyServer_allocClient takes the first object not in use.          *)
FirstFree(c, s) ==
  /\ clientObj[c][s] = Free
  /\ \A t \in 1..(s - 1) : clientObj[c][t] # Free

(* CpswProxyServer_getClient: the first object in use with the token.      *)
HasToken(c, s, tok) == clientObj[c][s] # Free /\ clientObj[c][s].token = tok

FirstWith(c, s, tok) ==
  /\ HasToken(c, s, tok)
  /\ \A t \in 1..(s - 1) : ~HasToken(c, t, tok)

Unknown(c, tok) == \A s \in Slots : ~HasToken(c, s, tok)

Put(c, s, o) == clientObj' = [clientObj EXCEPT ![c] = [@ EXCEPT ![s] = o]]

MutTakeReference(c) ==
  rmRefCnt' = [rmRefCnt EXCEPT ![c] = 1] /\ mcm' = [mcm EXCEPT ![c] = 1]
TakeReference(c) ==
  /\ rmRefCnt' = [rmRefCnt EXCEPT ![c] = @ + 1]
  /\ mcm' = IF rmRefCnt[c] = 0 THEN [mcm EXCEPT ![c] = @ + 1] ELSE mcm

MutLastReference(c) == rmRefCnt[c] = 0
LastReference(c) == rmRefCnt[c] = 1

DropReference(c) ==
  /\ rmRefCnt' = [rmRefCnt EXCEPT ![c] = @ - 1]
  /\ mcm' = IF LastReference(c) THEN [mcm EXCEPT ![c] = @ - 1] ELSE mcm

(* ETHREMOTECFG_CMD_ATTACH and ATTACH_EXT, whether they succeed or fail    *)
(* after the object was taken: tok is the port's token once the MTUs of    *)
(* the core have been checked, NoToken when that check fails.              *)
Attach(c, p, tok) ==
  /\ \E s \in Slots :
       /\ FirstFree(c, s)
       /\ Put(c, s, [virtPort |-> p, token |-> tok, isIdle |-> FALSE])
  /\ TakeReference(c)

AttachRefused(c) ==
  /\ InUse(c) = Slots
  /\ UNCHANGED tableVars

(* ETHREMOTECFG_CMD_DETACH.                                                *)
Detach(c, tok) ==
  /\ \E s \in Slots :
       /\ FirstWith(c, s, tok)
       /\ Put(c, s, Free)
  /\ DropReference(c)

(* ETHREMOTECFG_CMD_TEARDOWN_COMPLETION.                                   *)
TeardownCompletion(c, tok) ==
  /\ \E s \in Slots :
       /\ FirstWith(c, s, tok)
       /\ Put(c, s, [clientObj[c][s] EXCEPT !.isIdle = TRUE])
  /\ UNCHANGED <<rmRefCnt, mcm>>

(* A detach or a teardown completion with a token the server does not know *)
(* is answered with an error.                                              *)
TokenRefused(c, tok) ==
  /\ Unknown(c, tok)
  /\ UNCHANGED tableVars

(* CpswProxyServer_getIdleClientCnt: attached objects, and idle ones.      *)
AttachedObj == {o \in Core \X Slots :
                  /\ clientObj[o[1]][o[2]] # Free
                  /\ clientObj[o[1]][o[2]].token # NoToken}
IdleObj == {o \in AttachedObj : clientObj[o[1]][o[2]].isIdle}

MutClearIdle(c, s) == UNCHANGED tableVars

(* The part of CpswProxyServer_bcastNotify for one object in use.          *)
ClearIdle(c, s) ==
  /\ Put(c, s, [clientObj[c][s] EXCEPT !.isIdle = FALSE])
  /\ UNCHANGED <<rmRefCnt, mcm>>
-----------------------------------------------------------------------------
(* Any core may send any request with any token, and a broadcast may come  *)
(* at any time.                                                            *)
TableNext ==
  \E c \in Core :
    \/ \E p \in VirtPort : \E tok \in {p, NoToken} : Attach(c, p, tok)
    \/ AttachRefused(c)
    \/ \E tok \in Token :
         \/ Detach(c, tok)
         \/ TeardownCompletion(c, tok)
         \/ TokenRefused(c, tok)
    \/ \E s \in InUse(c) : ClearIdle(c, s)

TableSpec == TableInit /\ [][TableNext]_tableVars
-----------------------------------------------------------------------------
TableTypeOK ==
  /\ clientObj \in [Core -> [Slots -> Object \cup {Free}]]
  /\ rmRefCnt \in [Core -> Nat]
  /\ mcm \in [Core -> Nat]

(* The reference count of a core is the number of its objects in use,      *)
(* whichever attach failed at whichever point and whatever stray detach    *)
(* came: it never goes below zero and never keeps a core attached that has *)
(* no client left.                                                         *)
RefCntIsObjects == \A c \in Core : rmRefCnt[c] = Cardinality(InUse(c))

(* The driver sees a core attach once while it has clients: no second      *)
(* attach without a detach, no detach while a client is left.              *)
CoreAttachedOnce ==
  \A c \in Core : mcm[c] = IF InUse(c) = {} THEN 0 ELSE 1

TableInv == TableTypeOK /\ RefCntIsObjects /\ CoreAttachedOnce
=============================================================================
