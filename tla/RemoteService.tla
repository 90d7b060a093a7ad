---------------------------- MODULE RemoteService ----------------------------
(***************************************************************************)
(* Calls between cores, app_remote_service.c.  A task that runs a service  *)
(* of another core takes its core's transmit lock, sends a request and     *)
(* holds the lock until the answer is there, unless it wants none.  Each   *)
(* core has a receive task that runs the handlers under the receive lock;  *)
(* a task that runs a service of its own core runs the handler itself,     *)
(* under the same lock.  A handler may run a service of another core.      *)
(*                                                                         *)
(* The receive task of a core is a thread like the others and has the      *)
(* core's name.  Messages arrive in order; sending may fail.               *)
(***************************************************************************)
EXTENDS Naturals, FiniteSets, Sequences

CONSTANTS Core, Task,      \* cores, and the tasks that run services
          CoreOf,          \* core of a task
          Service,         \* service names
          Offers,          \* the services a core may register
          Handlers,        \* APP_REMOTE_SERVICE_HANDLERS_MAX
          Relay,           \* what a handler runs itself: <<core, service>>, or Nothing
          Room,            \* requests the transport holds for a core
          MaxCall,         \* bound: calls of the tasks, all together
          MaxLost,         \* bound: messages that cannot be sent
          Nothing

Thread == Task \cup Core
HomeOf(t) == IF t \in Core THEN t ELSE CoreOf[t]
Request == [by : Thread, to : Core, service : Service, ack : BOOLEAN, num : Nat]
Answer == [to : Request, ok : BOOLEAN]

ASSUME ServiceAssumption ==
  /\ CoreOf \in [Task -> Core] /\ Task \cap Core = {}
  /\ Offers \in [Core -> SUBSET Service]
  /\ Relay \in [Core \X Service -> (Core \X Service) \cup {Nothing}]
  /\ Handlers \in Nat /\ Room \in Nat /\ MaxCall \in Nat /\ MaxLost \in Nat
  /\ Nothing \notin Core \X Service /\ Nothing \notin Thread /\ Nothing \notin Request

VARIABLES services,        \* services registered on a core
          txLock, rxLock,  \* thread that holds a core's lock
          inbox,           \* requests sent to a core's receive task
          answers,         \* answers sent to a core's transmit endpoint
          doing,           \* where a thread is
          call,            \* the request a thread sends or waits for
          serving,         \* the request a thread runs the handler of
          calls,           \* number of requests made
          succeeded,       \* requests whose handler returned success
          returned,        \* what callers were told
          lost,            \* number of messages that could not be sent
          unanswered       \* whether one of them was an answer

vars == <<services, txLock, rxLock, inbox, answers, doing, call, serving, calls, succeeded,
          returned, lost, unanswered>>

Init ==
  /\ services = [c \in Core |-> {}]
  /\ txLock = [c \in Core |-> Nothing] /\ rxLock = [c \in Core |-> Nothing]
  /\ inbox = [c \in Core |-> <<>>] /\ answers = [c \in Core |-> <<>>]
  /\ doing = [t \in Thread |-> "IDLE"]
  /\ call = [t \in Thread |-> Nothing] /\ serving = [t \in Thread |-> Nothing]
  /\ calls = 0 /\ succeeded = {} /\ returned = {} /\ lost = 0
  /\ unanswered = FALSE
-----------------------------------------------------------------------------
Goes(t, from, to) == doing[t] = from /\ doing' = [doing EXCEPT ![t] = to]

(* appRemoteServiceRegister and UnRegister.                                *)
Register(c, s) ==
  /\ s \in Offers[c] \ services[c] /\ Cardinality(services[c]) < Handlers
  /\ services' = [services EXCEPT ![c] = @ \cup {s}]
  /\ UNCHANGED <<txLock, rxLock, inbox, answers, doing, call, serving, calls, succeeded, returned, lost, unanswered>>

UnRegister(c, s) ==
  /\ s \in services[c]
  /\ services' = [services EXCEPT ![c] = @ \ {s}]
  /\ UNCHANGED <<txLock, rxLock, inbox, answers, doing, call, serving, calls, succeeded, returned, lost, unanswered>>

(* appRemoteServiceRun: the handler is run here when the core is its own.  *)
Run(t, c, s, ack) ==
  LET r == [by |-> t, to |-> c, service |-> s, ack |-> ack, num |-> calls + 1]
  IN  /\ calls' = calls + 1
      /\ IF c = HomeOf(t)
         THEN /\ doing' = [doing EXCEPT ![t] = "RX_LOCK"]
              /\ serving' = [serving EXCEPT ![t] = r]
              /\ UNCHANGED call
         ELSE /\ doing' = [doing EXCEPT ![t] = "TX_LOCK"]
              /\ call' = [call EXCEPT ![t] = r]
              /\ UNCHANGED serving

RunTask(t, c, s, ack) ==
  /\ doing[t] = "IDLE" /\ calls < MaxCall
  /\ Run(t, c, s, ack)
  /\ UNCHANGED <<services, txLock, rxLock, inbox, answers, succeeded, returned, lost, unanswered>>

MutTxFree(c) == TRUE
TxFree(c) == txLock[c] = Nothing

PendTx(t) ==
  /\ Goes(t, "TX_LOCK", "SEND")
  /\ TxFree(HomeOf(t))
  /\ txLock' = [txLock EXCEPT ![HomeOf(t)] = t]
  /\ UNCHANGED <<services, rxLock, inbox, answers, call, serving, calls, succeeded, returned, lost, unanswered>>

MutPostTx(t, sent) == txLock' = IF sent THEN [txLock EXCEPT ![HomeOf(t)] = Nothing] ELSE txLock
PostTx(t, sent) == txLock' = [txLock EXCEPT ![HomeOf(t)] = Nothing]

(* The call returns to a task, or to the handler the receive task runs.    *)
Return(t, ok) ==
  /\ returned' = returned \cup {[to |-> call[t], ok |-> ok]}
  /\ call' = [call EXCEPT ![t] = Nothing]
  /\ doing' = [doing EXCEPT ![t] = IF serving[t] = Nothing THEN "IDLE" ELSE "END"]

Send(t) ==
  LET r == call[t]
      full == Len(inbox[r.to]) >= Room
  IN  /\ doing[t] = "SEND"
      /\ \/ /\ ~full
            /\ inbox' = [inbox EXCEPT ![r.to] = Append(@, r)]
            /\ IF r.ack THEN /\ doing' = [doing EXCEPT ![t] = "ANSWER"]
                             /\ UNCHANGED <<txLock, call, returned>>
                        ELSE PostTx(t, TRUE) /\ Return(t, TRUE)
            /\ UNCHANGED lost
         \/ /\ full \/ lost < MaxLost
            /\ lost' = IF full THEN lost ELSE lost + 1
            /\ PostTx(t, FALSE) /\ Return(t, FALSE)
            /\ UNCHANGED inbox
      /\ UNCHANGED <<services, rxLock, answers, serving, calls, succeeded, unanswered>>

(* The first answer at the transmit endpoint; one from another core is     *)
(* thrown away, and the call returns the status of the receive: success.   *)
RecvAnswer(t) ==
  LET h == HomeOf(t)
  IN  /\ doing[t] = "ANSWER" /\ answers[h] # <<>>
      /\ answers' = [answers EXCEPT ![h] = Tail(@)]
      /\ PostTx(t, TRUE)
      /\ Return(t, Head(answers[h]).to.to = call[t].to => Head(answers[h]).ok)
      /\ UNCHANGED <<services, rxLock, inbox, serving, calls, succeeded, lost, unanswered>>
-----------------------------------------------------------------------------
(* appRemoteServiceRxTaskMain.                                             *)
RecvRequest(c) ==
  /\ Goes(c, "IDLE", "RX_LOCK") /\ inbox[c] # <<>>
  /\ serving' = [serving EXCEPT ![c] = Head(inbox[c])]
  /\ inbox' = [inbox EXCEPT ![c] = Tail(@)]
  /\ UNCHANGED <<services, txLock, rxLock, answers, call, calls, succeeded, returned, lost, unanswered>>

MutRxFree(c) == TRUE
RxFree(c) == rxLock[c] = Nothing

(* Where a thread goes that has the handler's status.                      *)
Leave(t, ok) ==
  IF t \in Core
  THEN doing' = [doing EXCEPT ![t] = IF ok THEN "DONE" ELSE "FAILED"] /\ UNCHANGED <<serving, returned>>
  ELSE /\ doing' = [doing EXCEPT ![t] = "IDLE"]
       /\ serving' = [serving EXCEPT ![t] = Nothing]
       /\ returned' = returned \cup {[to |-> serving[t], ok |-> ok]}

(* appRemoteServiceRunHandler looks the service up under the lock.         *)
PendRx(t) ==
  LET h == HomeOf(t)
  IN  /\ doing[t] = "RX_LOCK" /\ RxFree(h)
      /\ IF serving[t].service \in services[h]
         THEN /\ rxLock' = [rxLock EXCEPT ![h] = t]
              /\ doing' = [doing EXCEPT ![t] = "RUN"]
              /\ UNCHANGED <<serving, returned>>
         ELSE Leave(t, FALSE) /\ UNCHANGED rxLock
      /\ UNCHANGED <<services, txLock, inbox, answers, call, calls, succeeded, lost, unanswered>>

(* The handler does its work, or has another core do it.                   *)
Handle(t) ==
  LET next == Relay[<<HomeOf(t), serving[t].service>>]
  IN  /\ doing[t] = "RUN"
      /\ IF next = Nothing
         THEN doing' = [doing EXCEPT ![t] = "END"] /\ UNCHANGED <<call, serving, calls>>
         ELSE Run(t, next[1], next[2], TRUE)
      /\ UNCHANGED <<services, txLock, rxLock, inbox, answers, succeeded, returned, lost, unanswered>>

(* The handler returns a status of its own, which is what the caller is    *)
(* told.                                                                   *)
PostRx(t) ==
  /\ doing[t] = "END"
  /\ rxLock' = [rxLock EXCEPT ![HomeOf(t)] = Nothing]
  /\ \E ok \in BOOLEAN :
       /\ succeeded' = IF ok THEN succeeded \cup {serving[t]} ELSE succeeded
       /\ Leave(t, ok)
  /\ UNCHANGED <<services, txLock, inbox, answers, call, calls, lost, unanswered>>

(* An answer that cannot be sent is not sent again.                        *)
MutWanted(r) == TRUE
Wanted(r) == r.ack

SendAnswer(c) ==
  LET r == serving[c]
      a == [to |-> r, ok |-> doing[c] = "DONE"]
  IN  /\ doing[c] \in {"DONE", "FAILED"}
      /\ doing' = [doing EXCEPT ![c] = "IDLE"]
      /\ serving' = [serving EXCEPT ![c] = Nothing]
      /\ \/ /\ Wanted(r)
            /\ answers' = [answers EXCEPT ![HomeOf(r.by)] = Append(@, a)]
            /\ UNCHANGED <<lost, unanswered>>
         \/ /\ Wanted(r) /\ lost < MaxLost
            /\ lost' = lost + 1 /\ unanswered' = TRUE
            /\ UNCHANGED answers
         \/ ~Wanted(r) /\ UNCHANGED <<answers, lost, unanswered>>
      /\ UNCHANGED <<services, txLock, rxLock, inbox, call, calls, succeeded, returned>>

Works(t) ==
  \/ PendTx(t) \/ Send(t) \/ RecvAnswer(t)
  \/ PendRx(t) \/ Handle(t) \/ PostRx(t)
  \/ t \in Core /\ (RecvRequest(t) \/ SendAnswer(t))

Next ==
  \/ \E t \in Thread : Works(t)
  \/ \E t \in Task, c \in Core, s \in Service, ack \in BOOLEAN : RunTask(t, c, s, ack)
  \/ \E c \in Core, s \in Service : Register(c, s) \/ UnRegister(c, s)

Spec == Init /\ [][Next]_vars

(* Every thread is scheduled; nobody need run a service.                   *)
FairSpec == Spec /\ \A t \in Thread : WF_vars(Works(t))
-----------------------------------------------------------------------------
Handling(t) == serving[t] # Nothing /\ doing[t] \in {"RUN", "END", "TX_LOCK", "SEND", "ANSWER"}

TypeOK ==
  /\ services \in [Core -> SUBSET Service]
  /\ txLock \in [Core -> Thread \cup {Nothing}] /\ rxLock \in [Core -> Thread \cup {Nothing}]
  /\ \A t \in Thread : call[t] = Nothing \/ (call[t] \in Request /\ call[t].by = t)
  /\ \A t \in Thread : serving[t] = Nothing \/ serving[t] \in Request
  /\ doing \in [Thread -> {"IDLE", "TX_LOCK", "SEND", "ANSWER", "RX_LOCK", "RUN", "END",
                           "DONE", "FAILED"}]

(* What the header promises: the requests to one core are served one after *)
(* the other and each runs to completion, also those of the core's own     *)
(* tasks, and while the handler waits for another core.                    *)
Serialized ==
  \A t, u \in Thread : Handling(t) /\ Handling(u) /\ HomeOf(t) = HomeOf(u) => t = u

(* An answer at a core's transmit endpoint is for the thread that waits    *)
(* there, whatever calls were made without waiting or could not be sent.   *)
AnswersExpected ==
  \A c \in Core : \A i \in 1..Len(answers[c]) :
    \E t \in Thread : HomeOf(t) = c /\ doing[t] = "ANSWER" /\ answers[c][i].to = call[t]

(* A call that wants an answer returns success exactly if a handler was    *)
(* run for it and returned success: nobody is told the status of another   *)
(* call, however many requests and answers are lost in between.            *)
ToldTruth == \A a \in returned : a.to.ack => (a.ok <=> a.to \in succeeded)

(* Handlers run one at a time, and answers find the thread that waits.     *)
ServiceInv == TypeOK /\ Serialized /\ AnswersExpected

(* Every call returns, although a thread keeps its core's lock while it    *)
(* waits and a handler may itself wait for another core: unless an answer  *)
(* could not be sent.                                                      *)
CallsReturn ==
  \A t \in Task : (doing[t] # "IDLE") ~> (doing[t] = "IDLE" \/ unanswered)
=============================================================================
