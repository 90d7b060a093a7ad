-------------------------- MODULE CmdServiceProofs --------------------------
(***************************************************************************)
(* Proofs about the command service: on a core with a single client        *)
(* handle, however long its mailbox and however late or silent the server, *)
(* a command that succeeds was given its own response.                     *)
(***************************************************************************)
EXTENDS CmdService, TLAPS

(* The premise: one handle, never closed and opened again.                 *)
SingleSession == (\A g, h \in Handle : g = h) /\ MaxSess = 0

-----------------------------------------------------------------------------
(* Appending a message adds it to the messages of a queue.                 *)
LEMMA RangeAppend ==
  ASSUME NEW S, NEW q \in Seq(S), NEW e \in S
  PROVE  /\ Append(q, e) \in Seq(S)
         /\ Range(Append(q, e)) = Range(q) \cup {e}
<1>1. /\ Append(q, e) \in Seq(S)
      /\ DOMAIN q = 1..Len(q) /\ Len(q) \in Nat
      /\ DOMAIN Append(q, e) = 1..(Len(q) + 1)
      /\ \A i \in 1..Len(q) : Append(q, e)[i] = q[i]
      /\ Append(q, e)[Len(q) + 1] = e
  OBVIOUS
<1>2. \A i \in 1..(Len(q) + 1) : i \in 1..Len(q) \/ i = Len(q) + 1
  BY <1>1
<1>3. QED
  BY <1>1, <1>2 DEF Range

(* Taking the first message of a queue adds none.                          *)
LEMMA RangeTail ==
  ASSUME NEW S, NEW q \in Seq(S), q # <<>>
  PROVE  /\ Tail(q) \in Seq(S) /\ Head(q) \in S
         /\ Head(q) \in Range(q)
         /\ Range(Tail(q)) \subseteq Range(q)
BY DEF Range

(* Every message in flight is a request.                                   *)
LEMMA MessageType == TypeOK => Messages \subseteq Request
<1>1. ASSUME NEW S, NEW q \in Seq(S) PROVE Range(q) \subseteq S
  BY DEF Range
<1>2. QED
  BY <1>1 DEF TypeOK, Messages

(* Sending takes a new number, larger than every number in flight.         *)
LEMMA SendStep ==
  ASSUME SingleSession, CmdInv, NEW h \in Handle, NEW c \in Cmd, SendCmd(h, c)
  PROVE  CmdInv'
<1> DEFINE r == [h |-> h, sess |-> sess[h], id |-> reqId[h], cmd |-> c]
<1>1. TypeOK /\ reqId[h] \in Nat /\ call = Idle
  BY DEF CmdInv, TypeOK, SendCmd, Send
<1>2. r \in Request
  BY <1>1 DEF TypeOK, Request
<1>3. /\ reqId' = [reqId EXCEPT ![h] = @ + 1]
      /\ reqId' \in [Handle -> Nat]
      /\ reqId'[h] = reqId[h] + 1
  BY <1>1 DEF SendCmd, TypeOK, Send
<1>4. UNCHANGED <<sess, toClient, mbx>>
  BY DEF SendCmd, Send
<1>5. \A s \in Messages : s \in Request /\ s.h = h /\ s.id < reqId[h] /\ s.id \in Nat
  BY <1>1, MessageType DEF CmdInv, MessagesNumbered, SingleSession, Request
<1>6. CASE /\ toServer' = Append(toServer, r)
           /\ \E junk \in 0..MaxReq :
                call' = [req |-> r, status |-> "SOK", resId |-> junk]
           /\ UNCHANGED outcome
  <2>1. /\ toServer' \in Seq(Request)
        /\ Range(toServer') = Range(toServer) \cup {r}
    BY <1>1, <1>2, <1>6, RangeAppend DEF TypeOK
  <2>2. Messages' = Messages \cup {r}
    BY <1>4, <2>1 DEF Messages
  <2>3. call' \in Call /\ call'.req = r
    BY <1>2, <1>6, CmdAssumption DEF Call
  <2>4. TypeOK'
    BY <1>1, <1>3, <1>4, <1>6, <2>1, <2>3 DEF TypeOK
  <2>5. MessagesNumbered'
    <3>1. SUFFICES ASSUME NEW s \in Messages'
                   PROVE  /\ s.id < reqId'[s.h]
                          /\ call' # Idle /\ s.id >= call'.req.id
                               => s = call'.req
      BY DEF MessagesNumbered
    <3>2. QED
      BY <1>1, <1>3, <1>5, <2>2, <2>3
  <2>6. CallNumbered'
    BY <1>1, <1>3, <2>3 DEF CallNumbered
  <2>7. OwnResponse' /\ NoForeignResponse'
    BY <1>6 DEF CmdInv, OwnResponse, NoForeignResponse
  <2>8. QED
    BY <2>4, <2>5, <2>6, <2>7 DEF CmdInv
<1>7. CASE /\ outcome' = [outcome EXCEPT ![h] = [status |-> "EFAIL", req |-> r]]
           /\ UNCHANGED <<call, toServer>>
  <2>1. TypeOK'
    <3>1. [status |-> "EFAIL", req |-> r] \in Outcome
      BY <1>2 DEF Outcome
    <3>2. outcome' \in [Handle -> Outcome]
      BY <1>1, <1>7, <3>1 DEF TypeOK
    <3>3. QED
      BY <1>1, <1>3, <1>4, <1>7, <3>2 DEF TypeOK
  <2>2. Messages' = Messages
    BY <1>4, <1>7 DEF Messages
  <2>3. MessagesNumbered' /\ CallNumbered'
    BY <1>1, <1>3, <1>5, <1>7, <2>2 DEF MessagesNumbered, CallNumbered
  <2>4. OwnResponse' /\ NoForeignResponse'
    BY <1>1, <1>7 DEF CmdInv, OwnResponse, NoForeignResponse, TypeOK
  <2>5. QED
    BY <2>1, <2>3, <2>4 DEF CmdInv
<1>8. QED
  BY <1>6, <1>7 DEF SendCmd, Send

(* The server and the command handler task only move or drop messages.     *)
LEMMA MoveStep ==
  ASSUME CmdInv, Serve \/ CmdHandler
  PROVE  CmdInv'
<1>0. TypeOK
  BY DEF CmdInv
<1>1. UNCHANGED <<reqId, sess, call, outcome>>
  BY DEF Serve, CmdHandler
<1>2. /\ toServer' \in Seq(Request) /\ toClient' \in Seq(Request)
      /\ mbx' \in Seq(Request) /\ Messages' \subseteq Messages
  <2>1. CASE Serve
    <3>1. /\ toServer' \in Seq(Request) /\ Head(toServer) \in Request
          /\ Head(toServer) \in Range(toServer)
          /\ Range(toServer') \subseteq Range(toServer)
          /\ mbx' = mbx
      BY <1>0, <2>1, RangeTail DEF Serve, TypeOK
    <3>2. \/ toClient' = toClient
          \/ /\ toClient' \in Seq(Request)
             /\ Range(toClient') = Range(toClient) \cup {Head(toServer)}
      <4>1. /\ Append(toClient, Head(toServer)) \in Seq(Request)
            /\ Range(Append(toClient, Head(toServer)))
                 = Range(toClient) \cup {Head(toServer)}
        BY <1>0, <3>1, RangeAppend DEF TypeOK
      <4>2. toClient' \in {toClient, Append(toClient, Head(toServer))}
        BY <2>1 DEF Serve
      <4>3. QED
        BY <4>1, <4>2
    <3>3. QED
      BY <1>0, <3>1, <3>2 DEF Messages, TypeOK
  <2>2. CASE CmdHandler
    <3>1. /\ toClient' \in Seq(Request) /\ Head(toClient) \in Request
          /\ Head(toClient) \in Range(toClient)
          /\ Range(toClient') \subseteq Range(toClient)
          /\ toServer' = toServer
      BY <1>0, <2>2, RangeTail DEF CmdHandler, TypeOK
    <3>2. /\ mbx' \in Seq(Request)
          /\ Range(mbx') = Range(mbx) \cup {Head(toClient)}
      BY <1>0, <2>2, <3>1, RangeAppend DEF CmdHandler, TypeOK
    <3>3. QED
      BY <1>0, <3>1, <3>2 DEF Messages, TypeOK
  <2>3. QED
    BY <2>1, <2>2
<1>3. TypeOK'
  BY <1>0, <1>1, <1>2 DEF TypeOK
<1>4. MessagesNumbered'
  BY <1>1, <1>2 DEF CmdInv, MessagesNumbered
<1>5. QED
  BY <1>1, <1>3, <1>4 DEF CmdInv, CallNumbered, OwnResponse, NoForeignResponse

(* The wait takes a message: a smaller number is dropped, and no other     *)
(* number but the command's own can come.                                  *)
LEMMA PendStep ==
  ASSUME CmdInv, PendMailbox
  PROVE  CmdInv'
<1> DEFINE r == Head(mbx)
<1>1. /\ TypeOK /\ call # Idle /\ call \in Call /\ call.req \in Request
      /\ call.req.h \in Handle /\ call.status \in {"SOK", "ETIMEOUT", "EFAIL"}
  BY DEF CmdInv, TypeOK, PendMailbox, Call, Request, Earlier
<1>2. UNCHANGED <<reqId, sess, toServer, toClient>> /\ mbx # <<>>
  BY DEF PendMailbox, Earlier
<1>3. /\ mbx' \in Seq(Request) /\ r \in Request /\ r \in Messages
      /\ Messages' \subseteq Messages
  <2>1. /\ mbx' \in Seq(Request) /\ r \in Request /\ r \in Range(mbx)
        /\ Range(mbx') \subseteq Range(mbx)
    BY <1>1, <1>2, RangeTail DEF PendMailbox, TypeOK, Earlier
  <2>2. QED
    BY <1>2, <2>1 DEF Messages
<1>4. r.id \in Nat /\ call.req.id \in Nat
  BY <1>1, <1>3 DEF Request
<1>5. CASE r.id < call.req.id
  <2>1. call' = [call EXCEPT !.resId = r.id] /\ UNCHANGED outcome
    BY <1>5 DEF PendMailbox, Earlier
  <2>2. call' \in Call /\ call'.req = call.req
    BY <1>1, <1>4, <2>1 DEF Call
  <2>3. TypeOK'
    BY <1>1, <1>2, <1>3, <2>1, <2>2 DEF TypeOK
  <2>4. MessagesNumbered' /\ CallNumbered'
    BY <1>1, <1>2, <1>3, <2>2, IdleAssumption
    DEF CmdInv, MessagesNumbered, CallNumbered
  <2>5. QED
    BY <2>1, <2>3, <2>4 DEF CmdInv, OwnResponse, NoForeignResponse
<1>6. CASE ~(r.id < call.req.id)
  <2>1. r = call.req
    BY <1>1, <1>3, <1>4, <1>6 DEF CmdInv, MessagesNumbered
  <2>2. PICK st \in {"SOK", "ETIMEOUT", "EFAIL"} :
          /\ outcome' = [outcome EXCEPT ![call.req.h] =
                           [status |-> st, req |-> call.req, res |-> r]]
          /\ call' = Idle
    BY <1>1, <1>4, <1>6, <2>1 DEF PendMailbox, Return, Verdict, Earlier
  <2>3. [status |-> st, req |-> call.req, res |-> r] \in Outcome
    BY <1>1, <1>3 DEF Outcome, Status
  <2>4. outcome' \in [Handle -> Outcome]
    BY <1>1, <2>2, <2>3 DEF TypeOK
  <2>5. TypeOK'
    BY <1>1, <1>2, <1>3, <2>2, <2>4 DEF TypeOK
  <2>6. MessagesNumbered' /\ CallNumbered'
    BY <1>2, <1>3, <2>2 DEF CmdInv, MessagesNumbered, CallNumbered
  <2>7. OwnResponse' /\ NoForeignResponse'
    BY <1>1, <2>1, <2>2 DEF CmdInv, OwnResponse, NoForeignResponse, TypeOK
  <2>8. QED
    BY <2>5, <2>6, <2>7 DEF CmdInv
<1>7. QED
  BY <1>5, <1>6

(* A wait that brings nothing is marked, or ends.                          *)
LEMMA NothingStep ==
  ASSUME CmdInv, NEW st \in {"ETIMEOUT", "EFAIL"}, PendNothing(st)
  PROVE  CmdInv'
<1>1. /\ TypeOK /\ call # Idle /\ call \in Call /\ call.req \in Request
      /\ call.req.h \in Handle
  BY DEF CmdInv, TypeOK, PendNothing, Call, Request, Earlier
<1>2. UNCHANGED <<reqId, sess, toServer, toClient, mbx>> /\ Messages' = Messages
  BY DEF PendNothing, Messages, Earlier
<1>3. CASE call' = [call EXCEPT !.status = st] /\ UNCHANGED outcome
  <2>1. call' \in Call /\ call'.req = call.req
    BY <1>1, <1>3 DEF Call
  <2>2. QED
    BY <1>1, <1>2, <1>3, <2>1
    DEF CmdInv, TypeOK, MessagesNumbered, CallNumbered, OwnResponse,
        NoForeignResponse
<1>4. CASE Return([status |-> st, req |-> call.req])
  <2>1. [status |-> st, req |-> call.req] \in Outcome
    BY <1>1 DEF Outcome
  <2>2. outcome' \in [Handle -> Outcome] /\ call' = Idle
    BY <1>1, <1>4, <2>1 DEF Return, TypeOK
  <2>3. TypeOK'
    BY <1>1, <1>2, <2>2 DEF TypeOK
  <2>4. MessagesNumbered' /\ CallNumbered'
    BY <1>2, <2>2 DEF CmdInv, MessagesNumbered, CallNumbered
  <2>5. OwnResponse' /\ NoForeignResponse'
    BY <1>1, <1>4 DEF Return, CmdInv, OwnResponse, NoForeignResponse, TypeOK
  <2>6. QED
    BY <2>3, <2>4, <2>5 DEF CmdInv
<1>5. QED
  BY <1>3, <1>4 DEF PendNothing, Earlier

-----------------------------------------------------------------------------
(* On a core with one handle every message has a number already given out, *)
(* one with the number of the command in progress belongs to that command, *)
(* and commands end with their own response, a timeout or a failed wait.   *)
THEOREM SingleHandleInvariant ==
  ASSUME SingleSession
  PROVE  Spec => []CmdInv
<1>1. ASSUME Init PROVE CmdInv
  <2>1. NoOutcome \in Outcome
    BY DEF Outcome
  <2>2. TypeOK
    BY <1>1, <2>1 DEF Init, TypeOK
  <2>3. Messages = {}
    BY <1>1 DEF Init, Messages, Range
  <2>4. MessagesNumbered /\ CallNumbered
    BY <1>1, <2>3 DEF Init, MessagesNumbered, CallNumbered
  <2>5. OwnResponse /\ NoForeignResponse
    BY <1>1 DEF Init, OwnResponse, NoForeignResponse, NoOutcome
  <2>6. QED
    BY <2>2, <2>4, <2>5 DEF CmdInv
<1>2. ASSUME CmdInv, [Next]_vars PROVE CmdInv'
  <2>1. CASE UNCHANGED vars
    BY <1>2, <2>1
    DEF vars, CmdInv, TypeOK, MessagesNumbered, Messages, CallNumbered,
        OwnResponse, NoForeignResponse
  <2>2. ASSUME NEW h \in Handle, Reopen(h) PROVE FALSE
    BY <1>2, <2>2, CmdAssumption DEF SingleSession, Reopen, CmdInv, TypeOK
  <2>3. QED
    BY <1>2, <2>1, <2>2, SendStep, MoveStep, PendStep, NothingStep
    DEF Next, PendTimeout, PendError
<1>3. QED
  BY <1>1, <1>2, PTL DEF Spec

(* On a core with one handle, a command that returns success was given the *)
(* response to that very request, and none is refused for the number of    *)
(* its response, for every timeout, mailbox length and server delay.       *)
THEOREM SingleHandle ==
  ASSUME SingleSession
  PROVE  Spec => [](OwnResponse /\ NoForeignResponse)
<1>1. Spec => []CmdInv
  BY SingleHandleInvariant
<1>2. CmdInv => OwnResponse /\ NoForeignResponse
  BY DEF CmdInv
<1>3. QED
  BY <1>1, <1>2, PTL

-----------------------------------------------------------------------------
(* The other premise: cmdTimeoutInMsecs is zero, the wait does not fail in *)
(* another way, and every request is answered.  There may be any number of *)
(* handles, opened at any time.                                            *)
Blocking == ~Timeout /\ ~PendFails /\ ~MayLose

(* Where the one message of the command in progress is.                    *)
AtServer == toServer = <<call.req>> /\ toClient = <<>> /\ mbx = <<>>
AtEndpoint == toServer = <<>> /\ toClient = <<call.req>> /\ mbx = <<>>
InMailbox == toServer = <<>> /\ toClient = <<>> /\ mbx = <<call.req>>

(* What makes QuietWhenIdle inductive: a command in progress has exactly   *)
(* one message under way, its own, and waits undisturbed.                  *)
OneMessage ==
  call # Idle => call.status = "SOK" /\ (AtServer \/ AtEndpoint \/ InMailbox)

ExchangeInv ==
  /\ call \in Call \cup {Idle}
  /\ reqId \in [Handle -> Nat] /\ sess \in [Handle -> Nat]
  /\ outcome \in [Handle -> Outcome]
  /\ QuietWhenIdle
  /\ OneMessage
  /\ OwnResponse

(* What the step of one queue to the next does to a single message.        *)
LEMMA SingleMessage ==
  ASSUME NEW e
  PROVE  /\ <<e>> # <<>> /\ Head(<<e>>) = e /\ Tail(<<e>>) = <<>>
         /\ Append(<<>>, e) = <<e>>
OBVIOUS

(* A command starts on empty queues and puts its request in the first.     *)
LEMMA ExchangeSend ==
  ASSUME ExchangeInv, NEW h \in Handle, NEW c \in Cmd, SendCmd(h, c)
  PROVE  ExchangeInv'
<1> DEFINE r == [h |-> h, sess |-> sess[h], id |-> reqId[h], cmd |-> c]
<1>1. /\ call = Idle /\ UNCHANGED <<sess, toClient, mbx>>
      /\ toServer = <<>> /\ toClient = <<>> /\ mbx = <<>>
  BY DEF SendCmd, ExchangeInv, QuietWhenIdle
<1>2. r \in Request
  BY DEF ExchangeInv, Request
<1>3. reqId' \in [Handle -> Nat] /\ sess' \in [Handle -> Nat]
  BY <1>1 DEF SendCmd, ExchangeInv
<1>4. CASE /\ Send(r)
           /\ \E junk \in 0..MaxReq :
                call' = [req |-> r, status |-> "SOK", resId |-> junk]
           /\ UNCHANGED outcome
  <2>1. call' \in Call /\ call'.req = r /\ call'.status = "SOK"
    BY <1>2, <1>4, CmdAssumption DEF Call
  <2>2. call' # Idle
    BY <2>1, IdleAssumption
  <2>3. toServer' = <<call'.req>> /\ toClient' = <<>> /\ mbx' = <<>>
    BY <1>1, <1>4, <2>1, SingleMessage DEF Send
  <2>4. QuietWhenIdle' /\ OneMessage'
    BY <2>1, <2>2, <2>3 DEF QuietWhenIdle, OneMessage, AtServer
  <2>5. QED
    BY <1>3, <1>4, <2>1, <2>4 DEF ExchangeInv, OwnResponse
<1>5. CASE /\ outcome' = [outcome EXCEPT ![h] = [status |-> "EFAIL", req |-> r]]
           /\ UNCHANGED <<call, toServer>>
  <2>1. [status |-> "EFAIL", req |-> r] \in Outcome
    BY <1>2 DEF Outcome
  <2>2. outcome' \in [Handle -> Outcome]
    BY <1>5, <2>1 DEF ExchangeInv
  <2>3. OwnResponse'
    BY <1>5 DEF ExchangeInv, OwnResponse
  <2>4. QED
    BY <1>1, <1>3, <1>5, <2>2, <2>3 DEF ExchangeInv, QuietWhenIdle, OneMessage
<1>6. QED
  BY <1>4, <1>5 DEF SendCmd

(* The server answers and the command handler task moves the one message.  *)
LEMMA ExchangeMove ==
  ASSUME Blocking, ExchangeInv, Serve \/ CmdHandler
  PROVE  ExchangeInv'
<1>1. UNCHANGED <<reqId, sess, call, outcome>>
  BY DEF Serve, CmdHandler
<1>2. call # Idle
  BY DEF Serve, CmdHandler, ExchangeInv, QuietWhenIdle
<1>3. AtEndpoint' \/ InMailbox'
  <2>1. CASE Serve
    <3>1. AtServer
      BY <1>2, <2>1 DEF Serve, ExchangeInv, OneMessage, AtEndpoint, InMailbox
    <3>2. QED
      BY <1>1, <2>1, <3>1, SingleMessage DEF Serve, Blocking, AtServer, AtEndpoint
  <2>2. CASE CmdHandler
    <3>1. AtEndpoint
      BY <1>2, <2>2 DEF CmdHandler, ExchangeInv, OneMessage, AtServer, InMailbox
    <3>2. QED
      BY <1>1, <2>2, <3>1, SingleMessage DEF CmdHandler, AtEndpoint, InMailbox
  <2>3. QED
    BY <2>1, <2>2
<1>4. QED
  BY <1>1, <1>2, <1>3 DEF ExchangeInv, QuietWhenIdle, OneMessage, OwnResponse

(* The wait can only take the response to the command that waits, and      *)
(* leaves nothing behind.                                                  *)
LEMMA ExchangePend ==
  ASSUME ExchangeInv, PendMailbox
  PROVE  ExchangeInv'
<1>1. /\ call # Idle /\ mbx # <<>> /\ mbx' = Tail(mbx)
      /\ UNCHANGED <<reqId, sess, toServer, toClient>>
  BY DEF PendMailbox
<1>2. /\ call \in Call /\ call.req \in Request /\ call.req.id \in Nat
      /\ call.req.h \in Handle
  BY <1>1 DEF ExchangeInv, Call, Request
<1>3. call.status = "SOK" /\ InMailbox
  BY <1>1 DEF ExchangeInv, OneMessage, AtServer, AtEndpoint
<1>4. Head(mbx) = call.req /\ mbx' = <<>>
  BY <1>1, <1>3, SingleMessage DEF InMailbox
<1>5. ~Earlier(Head(mbx).id) /\ Verdict(Head(mbx)) = "SOK"
  BY <1>2, <1>3, <1>4 DEF Earlier, Verdict
<1> DEFINE o == [status |-> "SOK", req |-> call.req, res |-> call.req]
<1>6. Return(o)
  BY <1>4, <1>5 DEF PendMailbox
<1>7. o \in Outcome /\ o.res = o.req
  BY <1>2 DEF Outcome, Status
<1> HIDE DEF o
<1>8. outcome' = [outcome EXCEPT ![call.req.h] = o] /\ call' = Idle
  BY <1>6 DEF Return
<1>9. outcome' \in [Handle -> Outcome]
  BY <1>2, <1>7, <1>8 DEF ExchangeInv
<1>10. OwnResponse'
  BY <1>2, <1>7, <1>8 DEF ExchangeInv, OwnResponse
<1>11. QuietWhenIdle' /\ OneMessage'
  BY <1>1, <1>3, <1>4, <1>8 DEF QuietWhenIdle, OneMessage, InMailbox
<1>12. QED
  BY <1>1, <1>8, <1>9, <1>10, <1>11 DEF ExchangeInv

(* Without a timeout the core's mutex makes the exchange strict, for any   *)
(* number of handles and reopenings and any mailbox length: when no        *)
(* command is in progress no message is left anywhere, and a command       *)
(* returns the response to its own request.                                *)
THEOREM BlockingExchange ==
  ASSUME Blocking
  PROVE  Spec => [](QuietWhenIdle /\ OwnResponse)
<1>1. ASSUME Init PROVE ExchangeInv
  <2>1. NoOutcome \in Outcome
    BY DEF Outcome
  <2>2. QED
    BY <1>1, <2>1 DEF Init, ExchangeInv, QuietWhenIdle, OneMessage,
                      OwnResponse, NoOutcome
<1>2. ASSUME ExchangeInv, [Next]_vars PROVE ExchangeInv'
  <2>1. CASE UNCHANGED vars
    BY <1>2, <2>1 DEF vars, ExchangeInv, QuietWhenIdle, OneMessage, AtServer,
                      AtEndpoint, InMailbox, OwnResponse
  <2>2. ASSUME NEW h \in Handle, Reopen(h) PROVE ExchangeInv'
    <3>1. NoOutcome \in Outcome /\ NoOutcome.status # "SOK"
      BY DEF Outcome, NoOutcome
    <3>2. UNCHANGED <<call, toServer, toClient, mbx>>
      BY <2>2 DEF Reopen
    <3>3. QuietWhenIdle' /\ OneMessage'
      BY <1>2, <3>2 DEF ExchangeInv, QuietWhenIdle, OneMessage, AtServer,
                        AtEndpoint, InMailbox
    <3>4. /\ reqId' \in [Handle -> Nat] /\ sess' \in [Handle -> Nat]
          /\ outcome' \in [Handle -> Outcome]
      BY <1>2, <2>2, <3>1 DEF Reopen, ExchangeInv
    <3>5. OwnResponse'
      BY <1>2, <2>2, <3>1 DEF Reopen, ExchangeInv, OwnResponse
    <3>6. QED
      BY <1>2, <3>2, <3>3, <3>4, <3>5 DEF ExchangeInv
  <2>3. ~PendTimeout /\ ~PendError
    BY DEF PendTimeout, PendError, Blocking
  <2>4. QED
    BY <1>2, <2>1, <2>2, <2>3, ExchangeSend, ExchangeMove, ExchangePend DEF Next
<1>3. ExchangeInv => QuietWhenIdle /\ OwnResponse
  BY DEF ExchangeInv
<1>4. QED
  BY <1>1, <1>2, <1>3, PTL DEF Spec
=============================================================================
