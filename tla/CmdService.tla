----------------------------- MODULE CmdService -----------------------------
(***************************************************************************)
(* The command service of the CPSW proxy client, cpsw_proxy.c: how the     *)
(* applications of one core talk to the server.                            *)
(*                                                                         *)
(* All the handles of a core share one IPC endpoint, one mutex and one     *)
(* mailbox.  CpswProxy_sendCmd numbers a request with its own handle's     *)
(* counter, sends it, and then takes messages from the mailbox until one   *)
(* does not carry a smaller number.  CpswProxy_cmdHandlerTask moves the    *)
(* responses from the endpoint to the mailbox.  The wait may have a        *)
(* timeout, so a response may arrive when nobody waits for it any more.    *)
(*                                                                         *)
(* A response is modelled by the request it answers: its resId is that     *)
(* request's id, its length the length of that command's response.         *)
(***************************************************************************)
EXTENDS Naturals, Sequences, Functions

CONSTANTS Handle,          \* client objects of this core
          Cmd,             \* commands, one per response structure
          MaxReq,          \* bound: commands per session of a handle
          MaxSess,         \* bound: times a handle is closed and opened
          MbxLen,          \* CPSWPROXY_CMD_RES_MBX_MSGCOUNT
          Timeout,         \* whether cmdTimeoutInMsecs is not zero
          PendFails,       \* whether the wait may fail in another way
          MayLose,         \* whether the server may leave a request unanswered
          Idle             \* no command in progress

ASSUME CmdAssumption ==
  /\ MaxReq \in Nat /\ MaxSess \in Nat
  /\ MbxLen \in Nat \ {0}
  /\ Timeout \in BOOLEAN /\ PendFails \in BOOLEAN /\ MayLose \in BOOLEAN

Request == [h : Handle, sess : Nat, id : Nat, cmd : Cmd]
Status == {"SOK", "ETIMEOUT", "EUNEXPECTED", "EFAIL"}

(* The command in progress: the request, the status so far, and what the   *)
(* message buffer on the caller's stack holds as resId.                    *)
Call == [req : Request, status : {"SOK", "ETIMEOUT", "EFAIL"}, resId : Nat]

ASSUME IdleAssumption == Idle \notin Call

VARIABLES reqId,           \* next request number of each handle
          sess,            \* how often each handle was opened again
          call,            \* holder of the command mutex: Idle or a Call
          toServer,        \* requests on their way to the server
          toClient,        \* responses on their way to the endpoint
          mbx,             \* responses in the command mailbox
          outcome          \* what the last command of each handle returned

vars == <<reqId, sess, call, toServer, toClient, mbx, outcome>>

(* What a command returned: the status, the request it was for, and the    *)
(* request whose response was copied to the caller.                        *)
NoOutcome == [status |-> "EFAIL"]
Outcome == [status : Status, req : Request, res : Request] \cup
           [status : {"ETIMEOUT", "EFAIL"}, req : Request] \cup {NoOutcome}

Init ==
  /\ reqId = [h \in Handle |-> 0]
  /\ sess = [h \in Handle |-> 0]
  /\ call = Idle
  /\ toServer = <<>>
  /\ toClient = <<>>
  /\ mbx = <<>>
  /\ outcome = [h \in Handle |-> NoOutcome]

-----------------------------------------------------------------------------
MutSend(r) == toServer' = toServer \o <<r, r>>
Send(r) == toServer' = Append(toServer, r)

(* CpswProxy_sendCmd up to the wait.  The buffer the first response will   *)
(* be read into is uninitialized: its resId is any number.                 *)
SendCmd(h, c) ==
  /\ call = Idle
  /\ reqId[h] < MaxReq
  /\ reqId' = [reqId EXCEPT ![h] = @ + 1]
  /\ LET r == [h |-> h, sess |-> sess[h], id |-> reqId[h], cmd |-> c] IN
       \/ /\ Send(r)
          /\ \E junk \in 0..MaxReq :
               call' = [req |-> r, status |-> "SOK", resId |-> junk]
          /\ UNCHANGED outcome
       \/ \* EthFwIpc_sendRpmsg failed: nothing to wait for
          /\ outcome' = [outcome EXCEPT ![h] = [status |-> "EFAIL", req |-> r]]
          /\ UNCHANGED <<call, toServer>>
  /\ UNCHANGED <<sess, toClient, mbx>>

(* The server answers requests in the order they come, or fails to.        *)
Serve ==
  /\ toServer # <<>>
  /\ toServer' = Tail(toServer)
  /\ \/ toClient' = Append(toClient, Head(toServer))
     \/ MayLose /\ UNCHANGED toClient
  /\ UNCHANGED <<reqId, sess, call, mbx, outcome>>

(* CpswProxy_cmdHandlerTask waits while the mailbox is full.               *)
CmdHandler ==
  /\ toClient # <<>>
  /\ Len(mbx) < MbxLen
  /\ mbx' = Append(mbx, Head(toClient))
  /\ toClient' = Tail(toClient)
  /\ UNCHANGED <<reqId, sess, call, toServer, outcome>>

Return(o) ==
  /\ outcome' = [outcome EXCEPT ![call.req.h] = o]
  /\ call' = Idle

(* The checks after the wait: a status of the wait itself stays, then the  *)
(* length is compared, then the number.                                    *)
Verdict(r) ==
  IF call.status # "SOK" THEN call.status
  ELSE IF r.cmd # call.req.cmd \/ r.id > call.req.id THEN "EUNEXPECTED"
  ELSE "SOK"

MutEarlier(id) == id <= call.req.id
MutAccept(id) == FALSE
(* While the number of the last message is earlier, the wait goes on.      *)
Earlier(id) == id < call.req.id

(* EthFwOsal_pendMailbox delivers a message: the wait goes on while its    *)
(* number is smaller than the request's.                                   *)
PendMailbox ==
  /\ call # Idle
  /\ mbx # <<>>
  /\ mbx' = Tail(mbx)
  /\ LET r == Head(mbx) IN
       IF Earlier(r.id)
       THEN /\ call' = [call EXCEPT !.resId = r.id]
            /\ UNCHANGED outcome
       ELSE Return([status |-> Verdict(r), req |-> call.req, res |-> r])
  /\ UNCHANGED <<reqId, sess, toServer, toClient>>

(* EthFwOsal_pendMailbox delivers nothing: the loop still looks at the     *)
(* resId in the buffer, which no message of this wait may have filled.     *)
PendNothing(status) ==
  /\ call # Idle
  /\ IF Earlier(call.resId)
     THEN /\ call' = [call EXCEPT !.status = status]
          /\ UNCHANGED outcome
     ELSE Return([status |-> status, req |-> call.req])
  /\ UNCHANGED <<reqId, sess, toServer, toClient, mbx>>

(* It times out, or fails in another way.                                  *)
PendTimeout == Timeout /\ mbx = <<>> /\ PendNothing("ETIMEOUT")

PendError == PendFails /\ PendNothing("EFAIL")

(* CpswProxy_close and CpswProxy_open: the counter starts again from zero. *)
Reopen(h) ==
  /\ sess[h] < MaxSess
  /\ call # Idle => call.req.h # h
  /\ reqId' = [reqId EXCEPT ![h] = 0]
  /\ sess' = [sess EXCEPT ![h] = @ + 1]
  /\ outcome' = [outcome EXCEPT ![h] = NoOutcome]
  /\ UNCHANGED <<call, toServer, toClient, mbx>>

Next ==
  \/ \E h \in Handle, c \in Cmd : SendCmd(h, c)
  \/ \E h \in Handle : Reopen(h)
  \/ Serve
  \/ CmdHandler
  \/ PendMailbox
  \/ PendTimeout
  \/ PendError

Spec == Init /\ [][Next]_vars

(* The server's request task, the command handler task and the task that   *)
(* waits in sendCmd run whenever they can; the timeout clock always runs.  *)
Fairness ==
  /\ WF_vars(Serve)
  /\ WF_vars(CmdHandler)
  /\ WF_vars(PendMailbox)
  /\ WF_vars(PendTimeout)

FairSpec == Spec /\ Fairness
-----------------------------------------------------------------------------
TypeOK ==
  /\ reqId \in [Handle -> Nat]
  /\ sess \in [Handle -> Nat]
  /\ call \in Call \cup {Idle}
  /\ toServer \in Seq(Request)
  /\ toClient \in Seq(Request)
  /\ mbx \in Seq(Request)
  /\ outcome \in [Handle -> Outcome]

(* A command that returns success was given the response to that very      *)
(* request ("Check if transaction id matches for request and response"),   *)
(* however many late responses of timed out commands were still queued.    *)
OwnResponse ==
  \A h \in Handle : outcome[h].status = "SOK" => outcome[h].res = outcome[h].req

(* A command never gives up on a response from the future: numbers larger  *)
(* than the one it waits for do not arrive.                                *)
NoForeignResponse ==
  \A h \in Handle : outcome[h].status # "EUNEXPECTED"

(* What makes both inductive: every message between the caller and the     *)
(* mailbox has a number already given out, and one that carries the number *)
(* of the command in progress belongs to that command.                     *)
Messages == Range(toServer) \cup Range(toClient) \cup Range(mbx)

MessagesNumbered ==
  \A r \in Messages :
    /\ r.id < reqId[r.h]
    /\ call # Idle /\ r.id >= call.req.id => r = call.req

CallNumbered ==
  call # Idle => call.req.id < reqId[call.req.h]

CmdInv == TypeOK /\ MessagesNumbered /\ CallNumbered /\ OwnResponse
                 /\ NoForeignResponse

(* Without a timeout the mutex makes the exchange strict: when no command  *)
(* is in progress, no message is left anywhere to be mistaken later.       *)
QuietWhenIdle ==
  call = Idle => toServer = <<>> /\ toClient = <<>> /\ mbx = <<>>

(* Every command returns to its caller.                                    *)
CommandsReturn == (call # Idle) ~> (call = Idle)
=============================================================================
