------------------------ MODULE RemoteServiceProofs ------------------------
(***************************************************************************)
(* Proofs about the calls between cores: handlers of a core run one at a   *)
(* time, an answer finds the thread that asked, and a caller is told the   *)
(* truth, for any number of cores, tasks, calls and lost messages.  The    *)
(* end of the module is about the other utility that connects the cores,   *)
(* the log ring.                                                           *)
(***************************************************************************)
EXTENDS RemoteService, LogRing, TLAPS

(* The premise: no handler runs a service of its own core, which the       *)
(* receive lock, not being recursive, would never let it enter.            *)
NoSelfRelay ==
  \A c \in Core, s \in Service :
    Relay[<<c, s>>] # Nothing => Relay[<<c, s>>][1] # c

-----------------------------------------------------------------------------
Types ==
  /\ services \in [Core -> SUBSET Service]
  /\ txLock \in [Core -> Thread \cup {Nothing}] /\ rxLock \in [Core -> Thread \cup {Nothing}]
  /\ inbox \in [Core -> Seq(Request)] /\ answers \in [Core -> Seq(Answer)]
  /\ doing \in [Thread -> {"IDLE", "TX_LOCK", "SEND", "ANSWER", "RX_LOCK", "RUN", "END",
                           "DONE", "FAILED"}]
  /\ call \in [Thread -> Request \cup {Nothing}] /\ serving \in [Thread -> Request \cup {Nothing}]
  /\ calls \in Nat

(* The caller of a request is waiting for its answer.                      *)
AskedFor(r) == doing[r.by] = "ANSWER" /\ call[r.by] = r

(* A thread has a call exactly while it makes one, to another core, and a  *)
(* request to serve exactly while it serves one; the request a receive     *)
(* task serves is waited for if it wants an answer.                        *)
ThreadInv(t) ==
  /\ doing[t] \in {"TX_LOCK", "SEND", "ANSWER"} =>
       call[t] # Nothing /\ call[t].by = t /\ call[t].to # HomeOf(t)
  /\ doing[t] \notin {"TX_LOCK", "SEND", "ANSWER"} => call[t] = Nothing
  /\ doing[t] = "IDLE" => serving[t] = Nothing
  /\ doing[t] \in {"RX_LOCK", "RUN", "END", "DONE", "FAILED"} => serving[t] # Nothing
  /\ serving[t] # Nothing => serving[t].to = HomeOf(t)
  /\ t \in Task => doing[t] \notin {"DONE", "FAILED"} /\ (serving[t] # Nothing => serving[t].by = t)
  /\ t \in Core /\ serving[t] # Nothing /\ serving[t].ack => AskedFor(serving[t])

ThreadsInv == \A t \in Thread : ThreadInv(t)

LockInv ==
  \A t \in Thread :
    /\ doing[t] \in {"SEND", "ANSWER"} => txLock[HomeOf(t)] = t
    /\ Handling(t) => rxLock[HomeOf(t)] = t

(* A request that wants an answer is in one place: the inbox, the receive  *)
(* task or the answers.                                                    *)
InboxInv ==
  \A c \in Core : \A i \in 1..Len(inbox[c]) :
    /\ inbox[c][i].to = c
    /\ inbox[c][i].ack =>
         /\ AskedFor(inbox[c][i]) /\ serving[c] # inbox[c][i]
         /\ \A j \in 1..Len(inbox[c]) : inbox[c][j] = inbox[c][i] => j = i

AnswerInv ==
  \A c \in Core :
    /\ Len(answers[c]) <= 1
    /\ \A i \in 1..Len(answers[c]) :
         /\ HomeOf(answers[c][i].to.by) = c /\ answers[c][i].to.ack
         /\ AskedFor(answers[c][i].to)
         /\ serving[answers[c][i].to.to] # answers[c][i].to
         /\ \A j \in 1..Len(inbox[answers[c][i].to.to]) :
              inbox[answers[c][i].to.to][j] # answers[c][i].to

IInv == Types /\ ThreadsInv /\ LockInv /\ InboxInv /\ AnswerInv

-----------------------------------------------------------------------------
(* Every thread has a core.                                                *)
LEMMA Homes ==
  /\ \A t \in Thread : HomeOf(t) \in Core
  /\ \A c \in Core : c \in Thread /\ HomeOf(c) = c /\ c \notin Task
  /\ \A t \in Task : t \in Thread
  /\ \A t \in Thread : t \in Task \/ t \in Core
  /\ Nothing \notin Thread /\ Nothing \notin Request
  /\ \A r \in Request : r.by \in Thread /\ r.to \in Core /\ r.service \in Service /\ r.ack \in BOOLEAN /\ r.num \in Nat
  /\ \A a \in Answer : a.to \in Request /\ a.ok \in BOOLEAN
BY ServiceAssumption DEF HomeOf, Thread, Request, Answer

(* What AnswerInv says of the request r that an answer at core d is to.    *)
AnswerFor(r, d) ==
  /\ HomeOf(r.by) = d /\ r.ack /\ AskedFor(r) /\ serving[r.to] # r
  /\ \A j \in 1..Len(inbox[r.to]) : inbox[r.to][j] # r

(* Every answer is to a request it is for.                                 *)
LEMMA AnswerOf ==
  ASSUME AnswerInv, NEW d \in Core, NEW i \in 1..Len(answers[d])
  PROVE  AnswerFor(answers[d][i].to, d)
BY DEF AnswerInv, AnswerFor

(* What a queue holds after a message is added at its end.                 *)
LEMMA Appended ==
  ASSUME NEW S, NEW q \in Seq(S), NEW e \in S
  PROVE  /\ Append(q, e) \in Seq(S) /\ Len(q) \in Nat /\ Len(Append(q, e)) = Len(q) + 1
         /\ \A i \in 1..Len(q) : Append(q, e)[i] = q[i] /\ q[i] \in S
         /\ Append(q, e)[Len(q) + 1] = e
OBVIOUS

(* What a queue holds after its first message is taken.                    *)
LEMMA Taken ==
  ASSUME NEW S, NEW q \in Seq(S), q # <<>>
  PROVE  /\ Tail(q) \in Seq(S) /\ Len(q) \in Nat /\ Len(q) >= 1 /\ Len(Tail(q)) = Len(q) - 1
         /\ Head(q) = q[1] /\ q[1] \in S
         /\ \A i \in 1..Len(Tail(q)) : Tail(q)[i] = q[i + 1] /\ i + 1 \in 1..Len(q)
OBVIOUS

-----------------------------------------------------------------------------
(* Initially nobody makes a call.                                          *)
LEMMA InitIInv == Init => IInv
BY Homes, ServiceAssumption
   DEF Init, IInv, Types, ThreadsInv, ThreadInv, LockInv, InboxInv, AnswerInv, Handling, AskedFor

(* Registering and removing a service touches no call.                     *)
LEMMA RegisterIInv ==
  ASSUME NEW c \in Core, NEW s \in Service, IInv, Register(c, s) \/ UnRegister(c, s)
  PROVE  IInv'
<1>1. /\ \/ services' = [services EXCEPT ![c] = services[c] \cup {s}]
         \/ services' = [services EXCEPT ![c] = services[c] \ {s}]
      /\ UNCHANGED <<txLock, rxLock, inbox, answers, doing, call, serving, calls>>
  BY DEF Register, UnRegister
<1>2. services' \in [Core -> SUBSET Service]
  <2>1. services \in [Core -> SUBSET Service]
    BY DEF IInv, Types
  <2>2. CASE services' = [services EXCEPT ![c] = services[c] \cup {s}]
    BY <2>1, <2>2
  <2>3. CASE services' = [services EXCEPT ![c] = services[c] \ {s}]
    BY <2>1, <2>3
  <2>4. QED
    BY <1>1, <2>2, <2>3
<1>3. Types'
  BY <1>1, <1>2 DEF IInv, Types
<1>4. ThreadsInv' /\ LockInv'
  BY <1>1 DEF IInv, ThreadsInv, ThreadInv, AskedFor, LockInv, Handling
<1>5. InboxInv' /\ AnswerInv'
  BY <1>1 DEF IInv, InboxInv, AnswerInv, AskedFor
<1>6. QED
  BY <1>3, <1>4, <1>5 DEF IInv

-----------------------------------------------------------------------------
(* A step of one thread leaves the others where they are.                  *)
OnlyMoves(t) ==
  \A u \in Thread : u # t => doing'[u] = doing[u] /\ call'[u] = call[u] /\ serving'[u] = serving[u]

(* Changing a function of the threads at one of them changes it there.     *)
LEMMA AtOne ==
  ASSUME NEW D, NEW S, NEW f \in [D -> S], NEW t \in D, NEW v
  PROVE  /\ [f EXCEPT ![t] = v][t] = v
         /\ \A u \in D : u # t => [f EXCEPT ![t] = v][u] = f[u]
         /\ v \in S => [f EXCEPT ![t] = v] \in [D -> S]
OBVIOUS

(* A request stays asked for while its caller does not get the answer.     *)
LEMMA StaysAsked ==
  ASSUME NEW t \in Thread, OnlyMoves(t), NEW r \in Request, AskedFor(r),
         doing[t] # "ANSWER" \/ call[t] # r
  PROVE  AskedFor(r)' /\ r.by # t
BY Homes DEF OnlyMoves, AskedFor

(* A step of a thread that waits for no answer, takes nothing from the     *)
(* queues and puts nothing into them: the requests in them stay as they    *)
(* were.                                                                   *)
LEMMA QueuesKept ==
  ASSUME IInv, NEW t \in Thread, OnlyMoves(t), doing[t] # "ANSWER",
         UNCHANGED <<inbox, answers>>,
         t \in Core => serving'[t] \in {serving[t], Nothing}
  PROVE  InboxInv' /\ AnswerInv'
<1>1. /\ inbox \in [Core -> Seq(Request)] /\ answers \in [Core -> Seq(Answer)]
      /\ InboxInv /\ AnswerInv
  BY DEF IInv, Types
<1>2. \A c \in Core : serving'[c] = serving[c] \/ serving'[c] = Nothing
  BY Homes DEF OnlyMoves
<1>3. \A c \in Core : \A i \in 1..Len(inbox[c]) : inbox[c][i] \in Request
  BY <1>1
<1>4. \A c \in Core : \A i \in 1..Len(answers[c]) :
        answers[c][i] \in Answer /\ answers[c][i].to \in Request
  BY <1>1, Homes
<1>5. \A r \in Request : r # Nothing /\ (AskedFor(r) => AskedFor(r)')
  BY StaysAsked, Homes
<1>6. InboxInv'
  BY <1>1, <1>2, <1>3, <1>5 DEF InboxInv, AskedFor
<1>7. AnswerInv'
  <2>1. ASSUME NEW c \in Core, NEW i \in 1..Len(answers[c])
        PROVE  /\ HomeOf(answers[c][i].to.by) = c /\ answers[c][i].to.ack
               /\ AskedFor(answers[c][i].to)'
               /\ serving'[answers[c][i].to.to] # answers[c][i].to
               /\ \A j \in 1..Len(inbox[answers[c][i].to.to]) :
                    inbox[answers[c][i].to.to][j] # answers[c][i].to
    <3>1. PICK r \in Request : r = answers[c][i].to
      BY <1>4
    <3>2. /\ HomeOf(r.by) = c /\ r.ack /\ AskedFor(r) /\ serving[r.to] # r
          /\ \A j \in 1..Len(inbox[r.to]) : inbox[r.to][j] # r
      BY <3>1, <1>1 DEF AnswerInv
    <3>3. AskedFor(r)' /\ serving'[r.to] # r
      BY <3>2, <1>2, <1>5, Homes
    <3>4. QED
      BY <3>1, <3>2, <3>3 DEF AskedFor
  <2>2. \A c \in Core : Len(answers[c]) <= 1
    BY <1>1 DEF AnswerInv
  <2>3. QED
    BY <2>1, <2>2 DEF AnswerInv, AskedFor
<1>8. QED
  BY <1>6, <1>7

(* The threads that do not move keep their part of the other invariants.   *)
LEMMA OthersKept ==
  ASSUME IInv, NEW t \in Thread, OnlyMoves(t),
         doing[t] # "ANSWER" \/ \A c \in Core : serving[c] # call[t],
         NEW u \in Thread, u # t
  PROVE  ThreadInv(u)'
<1>1. doing'[u] = doing[u] /\ call'[u] = call[u] /\ serving'[u] = serving[u]
  BY DEF OnlyMoves
<1>2. ThreadInv(u)
  BY DEF IInv, ThreadsInv
<1>3. ASSUME u \in Core, serving[u] # Nothing, serving[u].ack
      PROVE  AskedFor(serving[u])'
  <2>1. PICK r \in Request : r = serving[u]
    BY <1>3 DEF IInv, Types
  <2>2. AskedFor(r)
    BY <1>2, <1>3, <2>1 DEF ThreadInv
  <2>3. AskedFor(r)'
    BY <1>3, <2>1, <2>2, StaysAsked
  <2>4. QED
    BY <2>1, <2>3, <1>1 DEF AskedFor
<1>4. QED
  BY <1>1, <1>2, <1>3 DEF ThreadInv

(* So does the request the thread itself goes on serving.                  *)
LEMMA ServedKept ==
  ASSUME IInv, NEW t \in Thread, OnlyMoves(t),
         t \in Core, serving[t] # Nothing, serving[t].ack, serving'[t] = serving[t]
  PROVE  AskedFor(serving[t])'
<1>1. PICK r \in Request : r = serving[t]
  BY DEF IInv, Types
<1>2. ThreadInv(t)
  BY DEF IInv, ThreadsInv
<1>3. AskedFor(r) /\ r.to = HomeOf(t)
  BY <1>1, <1>2 DEF ThreadInv
<1>4. doing[t] # "ANSWER" \/ call[t] # r
  BY <1>2, <1>3 DEF ThreadInv
<1>5. AskedFor(r)'
  BY <1>3, <1>4, StaysAsked
<1>6. QED
  BY <1>1, <1>5 DEF AskedFor

(* What is left to show of a step that leaves the queues alone.            *)
LEMMA StepKeeps ==
  ASSUME IInv, NEW t \in Thread, OnlyMoves(t), doing[t] # "ANSWER",
         UNCHANGED <<inbox, answers>>,
         t \in Core => serving'[t] \in {serving[t], Nothing},
         Types', ThreadInv(t)', LockInv'
  PROVE  IInv'
<1>1. \A u \in Thread : u # t => ThreadInv(u)'
  BY OthersKept
<1>2. ThreadsInv'
  BY <1>1 DEF ThreadsInv
<1>3. InboxInv' /\ AnswerInv'
  BY QueuesKept
<1>4. QED
  BY <1>2, <1>3 DEF IInv

-----------------------------------------------------------------------------
(* A task starts a call: on its own core it goes for the receive lock, for *)
(* another core for the transmit lock.                                     *)
LEMMA RunTaskIInv ==
  ASSUME NEW t \in Task, NEW c \in Core, NEW s \in Service, NEW ack \in BOOLEAN,
         IInv, RunTask(t, c, s, ack)
  PROVE  IInv'
<1> DEFINE r == [by |-> t, to |-> c, service |-> s, ack |-> ack, num |-> calls + 1]
<1>0. r \in Request /\ r.by = t /\ r.to = c /\ t \in Thread /\ t \notin Core /\ r # Nothing
  BY Homes, ServiceAssumption DEF Request, IInv, Types
<1>. HIDE DEF r
<1>1. /\ doing[t] = "IDLE" /\ calls' = calls + 1
      /\ UNCHANGED <<services, txLock, rxLock, inbox, answers>>
  BY DEF RunTask, Run
<1>2. \/ /\ c = HomeOf(t) /\ doing' = [doing EXCEPT ![t] = "RX_LOCK"]
         /\ serving' = [serving EXCEPT ![t] = r] /\ call' = call
      \/ /\ c # HomeOf(t) /\ doing' = [doing EXCEPT ![t] = "TX_LOCK"]
         /\ call' = [call EXCEPT ![t] = r] /\ serving' = serving
  BY DEF RunTask, Run, r
<1>3. /\ doing' \in [Thread -> {"IDLE", "TX_LOCK", "SEND", "ANSWER", "RX_LOCK", "RUN", "END",
                                "DONE", "FAILED"}]
      /\ call' \in [Thread -> Request \cup {Nothing}] /\ serving' \in [Thread -> Request \cup {Nothing}]
  BY <1>0, <1>2 DEF IInv, Types
<1>4. Types' /\ OnlyMoves(t)
  BY <1>0, <1>1, <1>2, <1>3 DEF IInv, Types, OnlyMoves
<1>5. /\ doing'[t] \in {"RX_LOCK", "TX_LOCK"}
      /\ doing'[t] = "RX_LOCK" => serving'[t] = r /\ call'[t] = call[t] /\ c = HomeOf(t)
      /\ doing'[t] = "TX_LOCK" => call'[t] = r /\ serving'[t] = serving[t] /\ c # HomeOf(t)
  BY <1>0, <1>2 DEF IInv, Types
<1>6. ThreadInv(t)
  BY <1>0 DEF IInv, ThreadsInv
<1>7. ThreadInv(t)'
  BY <1>0, <1>1, <1>5, <1>6 DEF ThreadInv
<1>8. LockInv'
  BY <1>0, <1>1, <1>4, <1>5, <1>6 DEF IInv, LockInv, ThreadInv, Handling, OnlyMoves
<1>9. QED
  BY <1>0, <1>1, <1>4, <1>7, <1>8, StepKeeps

(* A caller takes its core's transmit lock.                                *)
LEMMA PendTxIInv ==
  ASSUME NEW t \in Thread, IInv, PendTx(t)
  PROVE  IInv'
<1>1. /\ doing[t] = "TX_LOCK" /\ doing' = [doing EXCEPT ![t] = "SEND"]
      /\ txLock[HomeOf(t)] = Nothing /\ txLock' = [txLock EXCEPT ![HomeOf(t)] = t]
      /\ UNCHANGED <<services, rxLock, inbox, answers, call, serving, calls>>
  BY DEF PendTx, Goes, TxFree
<1>2. Types' /\ OnlyMoves(t) /\ doing'[t] = "SEND"
  BY <1>1, Homes DEF IInv, Types, OnlyMoves
<1>3. ThreadInv(t)
  BY DEF IInv, ThreadsInv
<1>4. ThreadInv(t)'
  <2>1. t \in Core /\ serving[t] # Nothing /\ serving[t].ack => AskedFor(serving[t])'
    BY <1>1, <1>2, ServedKept
  <2>2. QED
    BY <1>1, <1>2, <1>3, <2>1 DEF ThreadInv
<1>5. LockInv'
  <2>1. txLock \in [Core -> Thread \cup {Nothing}] /\ LockInv
    BY DEF IInv, Types
  <2>2. QED
    BY <1>1, <1>2, <2>1, Homes DEF LockInv, Handling, OnlyMoves
<1>6. QED
  BY <1>1, <1>2, <1>4, <1>5, StepKeeps

(* A core's receive task takes the first request of its inbox.             *)
LEMMA RecvRequestIInv ==
  ASSUME NEW c \in Core, IInv, RecvRequest(c)
  PROVE  IInv'
<1> DEFINE q == inbox[c]
           r == Head(q)
<1>1. /\ doing[c] = "IDLE" /\ doing' = [doing EXCEPT ![c] = "RX_LOCK"]
      /\ q # <<>> /\ serving' = [serving EXCEPT ![c] = r] /\ inbox' = [inbox EXCEPT ![c] = Tail(q)]
      /\ UNCHANGED <<services, txLock, rxLock, answers, call, calls>>
  BY DEF RecvRequest, Goes
<1>2. q \in Seq(Request) /\ inbox \in [Core -> Seq(Request)]
  BY DEF IInv, Types
<1>3. /\ Tail(q) \in Seq(Request) /\ Len(q) \in Nat /\ Len(q) >= 1 /\ Len(Tail(q)) = Len(q) - 1
      /\ r = q[1] /\ r \in Request
      /\ \A i \in 1..Len(Tail(q)) : Tail(q)[i] = q[i + 1] /\ i + 1 \in 1..Len(q)
  BY <1>1, <1>2, Taken
<1>4. InboxInv /\ AnswerInv /\ LockInv /\ c \in Thread /\ r # Nothing
  BY <1>3, Homes DEF IInv
<1>5. /\ r.to = c
      /\ r.ack => AskedFor(r) /\ \A j \in 1..Len(q) : q[j] = r => j = 1
  BY <1>3, <1>4 DEF InboxInv
<1>. HIDE DEF q, r
<1>6. Types' /\ OnlyMoves(c)
  BY <1>1, <1>2, <1>3, <1>4 DEF IInv, Types, OnlyMoves
<1>7. /\ doing'[c] = "RX_LOCK" /\ serving'[c] = r /\ call'[c] = call[c]
      /\ inbox'[c] = Tail(q) /\ \A d \in Core : d # c => inbox'[d] = inbox[d]
      /\ \A d \in Core : d # c => serving'[d] = serving[d]
  BY <1>1, <1>2, <1>4, Homes DEF IInv, Types
<1>8. ThreadInv(c)
  BY <1>4 DEF IInv, ThreadsInv
<1>9. \A s \in Request : AskedFor(s) => AskedFor(s)'
  BY <1>1, <1>4, <1>6, StaysAsked
<1>10. ThreadInv(c)'
  BY <1>1, <1>3, <1>4, <1>5, <1>7, <1>8, <1>9, Homes DEF ThreadInv, AskedFor
<1>11. \A u \in Thread : u # c => ThreadInv(u)'
  BY <1>1, <1>4, <1>6, OthersKept
<1>12. ThreadsInv'
  BY <1>10, <1>11 DEF ThreadsInv
<1>13. LockInv'
  BY <1>1, <1>4, <1>6, <1>7, <1>8 DEF LockInv, Handling, ThreadInv, OnlyMoves
<1>14. InboxInv'
  <2>1. ASSUME NEW d \in Core, NEW i \in 1..Len(inbox'[d])
        PROVE  /\ inbox'[d][i].to = d
               /\ inbox'[d][i].ack =>
                    /\ AskedFor(inbox[d][i])' /\ serving'[d] # inbox'[d][i]
                    /\ \A j \in 1..Len(inbox'[d]) : inbox'[d][j] = inbox'[d][i] => j = i
    <3>1. CASE d = c
      <4>1. /\ i \in 1..Len(Tail(q)) /\ inbox'[c][i] = q[i + 1] /\ i + 1 \in 1..Len(q) /\ i + 1 # 1
            /\ q[i + 1] \in Request
        BY <3>1, <1>2, <1>3, <1>7
      <4>2. q[i + 1].to = c
        BY <4>1, <1>4 DEF InboxInv, q
      <4>3. ASSUME q[i + 1].ack
            PROVE  /\ AskedFor(q[i + 1]) /\ q[i + 1] # r
                   /\ \A j \in 1..Len(Tail(q)) : Tail(q)[j] = q[i + 1] => j = i
        <5>1. AskedFor(q[i + 1]) /\ \A j \in 1..Len(q) : q[j] = q[i + 1] => j = i + 1
          BY <4>1, <4>3, <1>4 DEF InboxInv, q
        <5>2. QED
          BY <5>1, <4>1, <1>3
      <4>4. q[i + 1].ack => AskedFor(inbox[d][i])'
        BY <4>1, <4>3, <1>9, <3>1 DEF AskedFor
      <4>6. QED
        BY <3>1, <4>1, <4>2, <4>3, <4>4, <1>7
    <3>2. CASE d # c
      <4>1. /\ inbox'[d] = inbox[d] /\ serving'[d] = serving[d] /\ i \in 1..Len(inbox[d])
            /\ inbox[d][i] \in Request
        BY <3>2, <1>7, <1>2
      <4>2. QED
        BY <4>1, <1>4, <1>9 DEF InboxInv, AskedFor
    <3>3. QED
      BY <3>1, <3>2
  <2>2. QED
    BY <2>1 DEF InboxInv, AskedFor
<1>15. AnswerInv'
  <2>1. ASSUME NEW d \in Core, NEW i \in 1..Len(answers[d])
        PROVE  /\ HomeOf(answers[d][i].to.by) = d /\ answers[d][i].to.ack
               /\ AskedFor(answers[d][i].to)'
               /\ serving'[answers[d][i].to.to] # answers[d][i].to
               /\ \A j \in 1..Len(inbox'[answers[d][i].to.to]) :
                    inbox'[answers[d][i].to.to][j] # answers[d][i].to
    <3>1. PICK s \in Request : s = answers[d][i].to
      BY Homes DEF IInv, Types
    <3>2. /\ HomeOf(s.by) = d /\ s.ack /\ AskedFor(s) /\ serving[s.to] # s /\ s.to \in Core
          /\ \A j \in 1..Len(inbox[s.to]) : inbox[s.to][j] # s
      <4>1. s.to \in Core /\ AnswerInv
        BY <1>4, Homes
      <4>2. AnswerFor(s, d)
        BY <3>1, <4>1, AnswerOf
      <4> QED BY <4>1, <4>2 DEF AnswerFor
    <3>3. /\ s # r
          /\ \A j \in 1..Len(inbox'[s.to]) : inbox'[s.to][j] # s
      <4>1. s # r
        BY <3>2, <1>3, <1>5 DEF q
      <4>2. CASE s.to = c
        BY <3>2, <4>1, <4>2, <1>3, <1>7 DEF q
      <4>3. CASE s.to # c
        BY <3>2, <4>1, <4>3, <1>7
      <4>4. QED
        BY <4>1, <4>2, <4>3
    <3>4. serving'[s.to] # s /\ AskedFor(s)'
      BY <3>2, <3>3, <1>7, <1>9
    <3>5. QED
      BY <3>1, <3>2, <3>3, <3>4, <1>1 DEF AskedFor
  <2>2. \A d \in Core : Len(answers[d]) <= 1
    BY <1>4 DEF AnswerInv
  <2>3. answers' = answers
    BY <1>1
  <2>4. QED
    BY <2>1, <2>2, <2>3 DEF AnswerInv, AskedFor
<1>16. QED
  BY <1>6, <1>12, <1>13, <1>14, <1>15 DEF IInv

-----------------------------------------------------------------------------
(* A thread takes its core's receive lock and runs the handler, unless the *)
(* service is not there.                                                   *)
LEMMA PendRxIInv ==
  ASSUME NEW t \in Thread, IInv, PendRx(t)
  PROVE  IInv'
<1>0. /\ doing \in [Thread -> {"IDLE", "TX_LOCK", "SEND", "ANSWER", "RX_LOCK", "RUN", "END",
                               "DONE", "FAILED"}]
      /\ serving \in [Thread -> Request \cup {Nothing}]
      /\ rxLock \in [Core -> Thread \cup {Nothing}] /\ HomeOf(t) \in Core
  BY Homes DEF IInv, Types
<1>1. /\ doing[t] = "RX_LOCK" /\ rxLock[HomeOf(t)] = Nothing
      /\ UNCHANGED <<services, txLock, inbox, answers, call, calls>>
      /\ \/ /\ rxLock' = [rxLock EXCEPT ![HomeOf(t)] = t]
            /\ doing' = [doing EXCEPT ![t] = "RUN"] /\ serving' = serving
         \/ /\ t \in Core /\ doing' = [doing EXCEPT ![t] = "FAILED"]
            /\ serving' = serving /\ rxLock' = rxLock
         \/ /\ t \notin Core /\ doing' = [doing EXCEPT ![t] = "IDLE"]
            /\ serving' = [serving EXCEPT ![t] = Nothing] /\ rxLock' = rxLock
  BY DEF PendRx, Leave, RxFree
<1>2. /\ doing' \in [Thread -> {"IDLE", "TX_LOCK", "SEND", "ANSWER", "RX_LOCK", "RUN", "END",
                                "DONE", "FAILED"}]
      /\ serving' \in [Thread -> Request \cup {Nothing}]
      /\ rxLock' \in [Core -> Thread \cup {Nothing}]
  BY <1>0, <1>1
<1>3. Types' /\ OnlyMoves(t)
  BY <1>1, <1>2 DEF IInv, Types, OnlyMoves
<1>4. /\ doing'[t] \in {"RUN", "FAILED", "IDLE"} /\ call'[t] = call[t]
      /\ doing'[t] = "RUN" => rxLock'[HomeOf(t)] = t /\ serving'[t] = serving[t]
      /\ doing'[t] = "FAILED" => t \in Core /\ serving'[t] = serving[t] /\ rxLock' = rxLock
      /\ doing'[t] = "IDLE" => t \notin Core /\ serving'[t] = Nothing /\ rxLock' = rxLock
      /\ \A c \in Core : c # HomeOf(t) => rxLock'[c] = rxLock[c]
  BY <1>0, <1>1
<1>5. ThreadInv(t)
  BY DEF IInv, ThreadsInv
<1>6. t \in Core /\ serving[t] # Nothing /\ serving[t].ack => AskedFor(serving[t])'
  BY <1>3, <1>4, ServedKept
<1>7. ThreadInv(t)'
  BY <1>1, <1>4, <1>5, <1>6, Homes DEF ThreadInv, AskedFor
<1>8. LockInv'
  BY <1>0, <1>1, <1>3, <1>4, Homes DEF IInv, LockInv, Handling, OnlyMoves
<1>9. QED
  BY <1>1, <1>3, <1>4, <1>7, <1>8, StepKeeps

(* A handler ends, or runs a service of another core.                      *)
LEMMA HandleIInv ==
  ASSUME NoSelfRelay, NEW t \in Thread, IInv, Handle(t)
  PROVE  IInv'
<1> DEFINE nested == Relay[<<HomeOf(t), serving[t].service>>]
           r == [by |-> t, to |-> nested[1], service |-> nested[2], ack |-> TRUE, num |-> calls + 1]
<1>1. /\ doing[t] = "RUN"
      /\ UNCHANGED <<services, txLock, rxLock, inbox, answers>>
  BY DEF Handle
<1>2. ThreadInv(t)
  BY DEF IInv, ThreadsInv
<1>3. serving[t] \in Request /\ HomeOf(t) \in Core /\ serving[t].service \in Service
  BY <1>1, <1>2, Homes DEF IInv, Types, ThreadInv
<1>4. nested # Nothing => nested[1] \in Core /\ nested[2] \in Service /\ nested[1] # HomeOf(t)
  BY <1>3, ServiceAssumption DEF NoSelfRelay
<1>. HIDE DEF nested
<1>5. nested # Nothing => r \in Request /\ r.by = t /\ r.to # HomeOf(t) /\ r # Nothing /\ calls + 1 \in Nat
  <2>1. calls + 1 \in Nat
    BY DEF IInv, Types
  <2>2. QED
    BY <2>1, <1>4, Homes DEF Request
<1>6. \/ /\ doing' = [doing EXCEPT ![t] = "END"] /\ UNCHANGED <<call, serving, calls>>
      \/ /\ nested # Nothing /\ doing' = [doing EXCEPT ![t] = "TX_LOCK"]
         /\ call' = [call EXCEPT ![t] = r] /\ calls' = calls + 1 /\ serving' = serving
  BY <1>4 DEF Handle, Run, nested
<1>. HIDE DEF r
<1>7. /\ doing' \in [Thread -> {"IDLE", "TX_LOCK", "SEND", "ANSWER", "RX_LOCK", "RUN", "END",
                                "DONE", "FAILED"}]
      /\ call' \in [Thread -> Request \cup {Nothing}]
      /\ calls' \in Nat
  BY <1>5, <1>6 DEF IInv, Types
<1>8. Types' /\ OnlyMoves(t)
  BY <1>1, <1>6, <1>7 DEF IInv, Types, OnlyMoves
<1>9. /\ doing'[t] \in {"END", "TX_LOCK"} /\ serving' = serving
      /\ doing'[t] = "END" => call'[t] = call[t]
      /\ doing'[t] = "TX_LOCK" => call'[t] = r /\ nested # Nothing
  BY <1>6, <1>7 DEF IInv, Types
<1>10. t \in Core /\ serving[t] # Nothing /\ serving[t].ack => AskedFor(serving[t])'
  BY <1>8, <1>9, ServedKept
<1>11. ThreadInv(t)'
  BY <1>1, <1>2, <1>5, <1>9, <1>10 DEF ThreadInv, AskedFor
<1>12. LockInv'
  BY <1>1, <1>8, <1>9 DEF IInv, LockInv, Handling, OnlyMoves
<1>13. QED
  BY <1>1, <1>8, <1>9, <1>11, <1>12, StepKeeps

(* A handler's end gives the receive lock back.                            *)
LEMMA PostRxIInv ==
  ASSUME NEW t \in Thread, IInv, PostRx(t)
  PROVE  IInv'
<1>0. /\ doing \in [Thread -> {"IDLE", "TX_LOCK", "SEND", "ANSWER", "RX_LOCK", "RUN", "END",
                               "DONE", "FAILED"}]
      /\ serving \in [Thread -> Request \cup {Nothing}]
      /\ rxLock \in [Core -> Thread \cup {Nothing}] /\ HomeOf(t) \in Core
  BY Homes DEF IInv, Types
<1>1. /\ doing[t] = "END" /\ rxLock' = [rxLock EXCEPT ![HomeOf(t)] = Nothing]
      /\ UNCHANGED <<services, txLock, inbox, answers, call, calls>>
      /\ \/ /\ t \in Core /\ serving' = serving
            /\ \/ doing' = [doing EXCEPT ![t] = "DONE"]
               \/ doing' = [doing EXCEPT ![t] = "FAILED"]
         \/ /\ t \notin Core /\ doing' = [doing EXCEPT ![t] = "IDLE"]
            /\ serving' = [serving EXCEPT ![t] = Nothing]
  <2>1. PICK ok \in BOOLEAN : Leave(t, ok)
    BY DEF PostRx
  <2>2. QED
    BY <2>1 DEF PostRx, Leave
<1>2. /\ doing' \in [Thread -> {"IDLE", "TX_LOCK", "SEND", "ANSWER", "RX_LOCK", "RUN", "END",
                                "DONE", "FAILED"}]
      /\ serving' \in [Thread -> Request \cup {Nothing}]
      /\ rxLock' \in [Core -> Thread \cup {Nothing}]
  BY <1>0, <1>1
<1>3. Types' /\ OnlyMoves(t)
  BY <1>1, <1>2 DEF IInv, Types, OnlyMoves
<1>4. /\ doing'[t] \in {"DONE", "FAILED", "IDLE"} /\ call'[t] = call[t]
      /\ doing'[t] \in {"DONE", "FAILED"} => t \in Core /\ serving'[t] = serving[t]
      /\ doing'[t] = "IDLE" => t \notin Core /\ serving'[t] = Nothing
      /\ \A c \in Core : c # HomeOf(t) => rxLock'[c] = rxLock[c]
  BY <1>0, <1>1
<1>5. ThreadInv(t)
  BY DEF IInv, ThreadsInv
<1>6. t \in Core /\ serving[t] # Nothing /\ serving[t].ack => AskedFor(serving[t])'
  BY <1>3, <1>4, ServedKept
<1>7. ThreadInv(t)'
  BY <1>1, <1>4, <1>5, <1>6, Homes DEF ThreadInv, AskedFor
<1>8. rxLock[HomeOf(t)] = t
  BY <1>1, <1>5 DEF IInv, LockInv, Handling, ThreadInv
<1>9. LockInv'
  BY <1>1, <1>3, <1>4, <1>8, Homes DEF IInv, LockInv, Handling, OnlyMoves
<1>10. QED
  BY <1>1, <1>3, <1>4, <1>7, <1>9, StepKeeps

-----------------------------------------------------------------------------
(* The request a caller sends is nowhere yet, and is put into the inbox.   *)
LEMMA InboxAppended ==
  ASSUME IInv, NEW t \in Thread, OnlyMoves(t), doing[t] = "SEND", NEW r \in Request, r = call[t],
         inbox'[r.to] = Append(inbox[r.to], r),
         \A c \in Core : c # r.to => inbox'[c] = inbox[c], answers' = answers,
         serving'[t] = serving[t], r.ack => AskedFor(r)'
  PROVE  InboxInv' /\ AnswerInv'
<1>0. /\ inbox \in [Core -> Seq(Request)]
      /\ \A c \in Core : \A i \in 1..Len(answers[c]) : answers[c][i].to \in Request
  BY Homes DEF IInv, Types
<1>1. InboxInv /\ AnswerInv /\ ThreadInv(t)
  BY DEF IInv, ThreadsInv
<1>2. r.by = t /\ r.to \in Core /\ r # Nothing
  BY <1>1, Homes DEF ThreadInv
<1>3. \A s \in Request : AskedFor(s) => s # r /\ AskedFor(s)'
  BY <1>2, StaysAsked DEF AskedFor
<1>4. \A c \in Core : serving'[c] = serving[c]
  BY Homes DEF OnlyMoves
<1>5. r.ack => \A c \in Core : serving[c] # r
  <2>1. ASSUME r.ack, NEW c \in Core, serving[c] = r
        PROVE  FALSE
    <3>1. ThreadInv(c) /\ c \in Thread
      BY Homes DEF IInv, ThreadsInv
    <3>2. AskedFor(r)
      BY <2>1, <3>1, <1>2 DEF ThreadInv
    <3>3. QED
      BY <3>2, <1>3
  <2>2. QED
    BY <2>1
<1> DEFINE q == inbox[r.to]
<1>6. q \in Seq(Request)
  BY <1>0, <1>2
<1>7. /\ Len(q) \in Nat /\ Len(Append(q, r)) = Len(q) + 1
      /\ \A i \in 1..Len(q) : Append(q, r)[i] = q[i] /\ q[i] \in Request
      /\ Append(q, r)[Len(q) + 1] = r
  BY <1>6, Appended
<1>8. inbox'[r.to] = Append(q, r) /\ \A c \in Core : c # r.to => inbox'[c] = inbox[c]
  OBVIOUS
<1>9. InboxInv'
  <2>1. ASSUME NEW c \in Core, NEW i \in 1..Len(inbox'[c])
        PROVE  /\ inbox'[c][i].to = c
               /\ inbox'[c][i].ack =>
                    /\ AskedFor(inbox[c][i])' /\ serving'[c] # inbox'[c][i]
                    /\ \A j \in 1..Len(inbox'[c]) : inbox'[c][j] = inbox'[c][i] => j = i
    <3>1. CASE c # r.to
      <4>1. inbox'[c] = inbox[c] /\ serving'[c] = serving[c] /\ inbox[c][i] \in Request
        BY <3>1, <1>0, <1>4, <1>8
      <4>2. QED
        BY <4>1, <1>1, <1>3 DEF InboxInv, AskedFor
    <3>2. CASE c = r.to /\ i = Len(q) + 1
      <4>1. inbox'[c][i] = r /\ serving'[c] = serving[c]
        BY <3>2, <1>4, <1>7, <1>8
      <4>2. ASSUME r.ack, NEW j \in 1..Len(inbox'[c]), inbox'[c][j] = r
            PROVE  j = i
        <5>1. j \in 1..Len(q) => inbox[c][j] = r
          BY <3>2, <4>2, <1>7, <1>8 DEF q
        <5>2. j \notin 1..Len(q)
          BY <5>1, <3>2, <4>2, <1>1, <1>3 DEF InboxInv, q
        <5>3. QED
          BY <5>2, <3>2, <1>7, <1>8
      <4>3. r.ack => AskedFor(inbox[c][i])'
        BY <4>1 DEF AskedFor
      <4>4. QED
        BY <4>1, <4>2, <4>3, <3>2, <1>5
    <3>3. CASE c = r.to /\ i # Len(q) + 1
      <4>1. /\ i \in 1..Len(q) /\ inbox'[c][i] = q[i] /\ q[i] \in Request /\ serving'[c] = serving[c]
            /\ q = inbox[c]
        BY <3>3, <1>4, <1>7, <1>8
      <4>2. /\ q[i].to = c
            /\ q[i].ack => /\ AskedFor(q[i]) /\ serving[c] # q[i]
                           /\ \A j \in 1..Len(q) : q[j] = q[i] => j = i
        BY <4>1, <1>1 DEF InboxInv, AskedFor
      <4>3. q[i].ack => q[i] # r /\ AskedFor(inbox[c][i])'
        <5>1. PICK s \in Request : s = q[i]
          BY <4>1
        <5>2. s.ack => s # r /\ AskedFor(s)'
          BY <5>1, <4>2, <1>3 DEF AskedFor
        <5>3. QED
          BY <5>1, <5>2, <4>1 DEF AskedFor
      <4>4. q[i].ack => \A j \in 1..Len(inbox'[c]) : inbox'[c][j] = q[i] => j = i
        <5>1. SUFFICES ASSUME q[i].ack, NEW j \in 1..Len(inbox'[c]), inbox'[c][j] = q[i]
                       PROVE  j = i
          OBVIOUS
        <5>2. j = Len(q) + 1 => inbox'[c][j] = r
          BY <3>3, <1>7, <1>8
        <5>3. j \in 1..Len(q) /\ inbox'[c][j] = q[j]
          <6>1. j \in 1..(Len(q) + 1) /\ inbox'[c][j] = Append(q, r)[j]
            BY <5>1, <3>3, <1>7, <1>8
          <6>2. j # Len(q) + 1
            BY <5>1, <5>2, <4>3
          <6>3. QED
            BY <6>1, <6>2, <1>7
        <5>4. QED
          BY <5>1, <5>3, <4>2
      <4>5. QED
        BY <4>1, <4>2, <4>3, <4>4
    <3>4. QED
      BY <3>1, <3>2, <3>3
  <2>2. QED
    BY <2>1 DEF InboxInv, AskedFor
<1>10. AnswerInv'
  <2>1. ASSUME NEW d \in Core, NEW i \in 1..Len(answers[d])
        PROVE  /\ HomeOf(answers[d][i].to.by) = d /\ answers[d][i].to.ack
               /\ AskedFor(answers[d][i].to)'
               /\ serving'[answers[d][i].to.to] # answers[d][i].to
               /\ \A j \in 1..Len(inbox'[answers[d][i].to.to]) :
                    inbox'[answers[d][i].to.to][j] # answers[d][i].to
    <3>1. PICK s \in Request : s = answers[d][i].to
      BY <1>0
    <3>2. /\ HomeOf(s.by) = d /\ s.ack /\ AskedFor(s) /\ serving[s.to] # s /\ s.to \in Core
          /\ \A j \in 1..Len(inbox[s.to]) : inbox[s.to][j] # s
      <4>1. s.to \in Core /\ AnswerInv
        BY <1>1, Homes
      <4>2. AnswerFor(s, d)
        BY <3>1, <4>1, AnswerOf
      <4> QED BY <4>1, <4>2 DEF AnswerFor
    <3>3. s # r /\ AskedFor(s)' /\ serving'[s.to] # s
      BY <3>2, <1>3, <1>4
    <3>4. \A j \in 1..Len(inbox'[s.to]) : inbox'[s.to][j] # s
      <4>1. CASE s.to = r.to
        <5>1. ASSUME NEW j \in 1..Len(inbox'[s.to]) PROVE inbox'[s.to][j] = r \/ \E i1 \in 1..Len(q) : inbox'[s.to][j] = q[i1]
          <6>1. j \in 1..(Len(q) + 1) /\ inbox'[s.to][j] = Append(q, r)[j]
            BY <5>1, <4>1, <1>7, <1>8
          <6>2. CASE j = Len(q) + 1
            BY <6>1, <6>2, <1>7
          <6>3. CASE j \in 1..Len(q)
            BY <6>1, <6>3, <1>7
          <6>4. QED
            BY <6>1, <6>2, <6>3, <1>7
        <5>2. \A i1 \in 1..Len(q) : q[i1] # s
          BY <4>1, <3>2
        <5>3. QED
          BY <5>1, <5>2, <3>3
      <4>2. CASE s.to # r.to
        BY <4>2, <3>2, <1>8
      <4>3. QED
        BY <4>1, <4>2
    <3>5. QED
      BY <3>1, <3>2, <3>3, <3>4 DEF AskedFor
  <2>2. \A d \in Core : Len(answers[d]) <= 1
    BY <1>1 DEF AnswerInv
  <2>3. QED
    BY <2>1, <2>2 DEF AnswerInv, AskedFor
<1>11. QED
  BY <1>9, <1>10

(* A caller sends its request, and goes on waiting only for an answer it   *)
(* wants.                                                                  *)
LEMMA SendIInv ==
  ASSUME NEW t \in Thread, IInv, Send(t)
  PROVE  IInv'
<1> DEFINE r == call[t]
           back == IF serving[t] = Nothing THEN "IDLE" ELSE "END"
           sent == [inbox EXCEPT ![r.to] = Append(inbox[r.to], r)]
<1>0. /\ doing \in [Thread -> {"IDLE", "TX_LOCK", "SEND", "ANSWER", "RX_LOCK", "RUN", "END",
                               "DONE", "FAILED"}]
      /\ call \in [Thread -> Request \cup {Nothing}] /\ serving \in [Thread -> Request \cup {Nothing}]
      /\ txLock \in [Core -> Thread \cup {Nothing}] /\ HomeOf(t) \in Core
      /\ ThreadInv(t) /\ LockInv
  BY Homes DEF IInv, Types, ThreadsInv
<1>1. /\ doing[t] = "SEND"
      /\ UNCHANGED <<services, rxLock, answers, serving, calls>>
      /\ \/ /\ inbox' = sent /\ r.ack /\ doing' = [doing EXCEPT ![t] = "ANSWER"]
            /\ txLock' = txLock /\ call' = call
         \/ /\ inbox' = sent \/ inbox' = inbox
            /\ inbox' = sent => ~r.ack \/ inbox' = inbox
            /\ txLock' = [txLock EXCEPT ![HomeOf(t)] = Nothing]
            /\ call' = [call EXCEPT ![t] = Nothing] /\ doing' = [doing EXCEPT ![t] = back]
  BY DEF Send, PostTx, Return
<1>2. r \in Request /\ r.by = t /\ r.to \in Core
  BY <1>0, <1>1, Homes DEF ThreadInv
<1>3. /\ sent \in [Core -> Seq(Request)] /\ sent[r.to] = Append(inbox[r.to], r)
      /\ \A c \in Core : c # r.to => sent[c] = inbox[c]
  <2>1. inbox \in [Core -> Seq(Request)]
    BY DEF IInv, Types
  <2>2. Append(inbox[r.to], r) \in Seq(Request)
    BY <2>1, <1>2, Appended
  <2>3. QED
    BY <2>1, <2>2, <1>2
<1>. HIDE DEF sent
<1>4. /\ doing' \in [Thread -> {"IDLE", "TX_LOCK", "SEND", "ANSWER", "RX_LOCK", "RUN", "END",
                                "DONE", "FAILED"}]
      /\ call' \in [Thread -> Request \cup {Nothing}]
      /\ txLock' \in [Core -> Thread \cup {Nothing}]
  BY <1>0, <1>1
<1>5. inbox' \in [Core -> Seq(Request)]
  BY <1>1, <1>3 DEF IInv, Types
<1>6. Types' /\ OnlyMoves(t)
  BY <1>1, <1>4, <1>5, <1>0 DEF IInv, Types, OnlyMoves
<1>7. /\ doing'[t] = "ANSWER" /\ r.ack => call'[t] = r
      /\ doing'[t] = "ANSWER" => r.ack /\ inbox' = sent /\ call'[t] = r /\ txLock' = txLock
      /\ doing'[t] # "ANSWER" => /\ doing'[t] = back /\ call'[t] = Nothing /\ txLock'[HomeOf(t)] = Nothing
                                 /\ inbox' = inbox \/ (inbox' = sent /\ ~r.ack)
      /\ \A c \in Core : c # HomeOf(t) => txLock'[c] = txLock[c]
  BY <1>0, <1>1
<1>8. t \in Core /\ serving[t] # Nothing /\ serving[t].ack => AskedFor(serving[t])'
  BY <1>1, <1>6, ServedKept
<1>9. ThreadInv(t)'
  BY <1>0, <1>1, <1>2, <1>7, <1>8 DEF ThreadInv, AskedFor
<1>10. LockInv'
  BY <1>0, <1>1, <1>6, <1>7, Homes DEF LockInv, Handling, OnlyMoves
<1>11. CASE inbox' = inbox
  BY <1>1, <1>6, <1>9, <1>10, <1>11, StepKeeps
<1>12. CASE inbox' = sent /\ (~r.ack \/ doing'[t] = "ANSWER")
  <2>1. r.ack => AskedFor(r)'
    BY <1>2, <1>7, <1>12 DEF AskedFor
  <2>2. InboxInv' /\ AnswerInv'
    <3>1. PICK s \in Request : s = r
      BY <1>2
    <3>2. s.ack => AskedFor(s)'
      BY <3>1, <1>2, <1>7, <1>12 DEF AskedFor
    <3>3. QED
      BY <3>1, <3>2, <1>1, <1>3, <1>6, <1>12, InboxAppended
  <2>3. \A u \in Thread : u # t => ThreadInv(u)'
    BY <1>1, <1>6, OthersKept
  <2>4. ThreadsInv'
    BY <1>9, <2>3 DEF ThreadsInv
  <2>5. QED
    BY <1>6, <1>10, <2>2, <2>4 DEF IInv
<1>13. QED
  BY <1>7, <1>11, <1>12

(* Between one and one is one.                                             *)
LEMMA OneLeft == \A n \in Nat : n >= 1 /\ n <= 1 => n = 1
OBVIOUS

(* The answer a caller takes is the one to its request, and nothing of the *)
(* request is left.                                                        *)
LEMMA AnswerIsMine ==
  ASSUME IInv, NEW t \in Thread, doing[t] = "ANSWER", answers[HomeOf(t)] # <<>>
  PROVE  /\ HomeOf(t) \in Core /\ Len(answers[HomeOf(t)]) = 1 /\ call[t] \in Request
         /\ Head(answers[HomeOf(t)]) \in Answer /\ Head(answers[HomeOf(t)]) = answers[HomeOf(t)][1]
         /\ Head(answers[HomeOf(t)]).to = call[t]
         /\ \A c \in Core : serving[c] # call[t] /\ \A j \in 1..Len(inbox[c]) : inbox[c][j] # call[t]
<1> DEFINE h == HomeOf(t)
           q == answers[h]
<1>1. h \in Core /\ q \in Seq(Answer)
  BY Homes DEF IInv, Types
<1>2. Len(q) \in Nat /\ Len(q) >= 1 /\ Head(q) = q[1] /\ q[1] \in Answer
  BY <1>1, Taken
<1>3. LockInv /\ AnswerInv /\ InboxInv /\ ThreadInv(t) /\ h \in Core
  BY <1>1 DEF IInv, ThreadsInv
<1>4. /\ Len(q) = 1 /\ HomeOf(q[1].to.by) = h /\ AskedFor(q[1].to)
      /\ serving[q[1].to.to] # q[1].to
      /\ \A j \in 1..Len(inbox[q[1].to.to]) : inbox[q[1].to.to][j] # q[1].to
  <2>1. 1 \in 1..Len(answers[h]) /\ Len(answers[h]) \in Nat /\ Len(answers[h]) >= 1
    BY <1>2
  <2>2. AnswerInv
    BY <1>3
  <2>3. Len(answers[h]) <= 1
    BY <2>2, <1>1 DEF AnswerInv
  <2>4. \A i \in 1..Len(answers[h]) :
          /\ HomeOf(answers[h][i].to.by) = h /\ AskedFor(answers[h][i].to)
          /\ serving[answers[h][i].to.to] # answers[h][i].to
          /\ \A j \in 1..Len(inbox[answers[h][i].to.to]) :
               inbox[answers[h][i].to.to][j] # answers[h][i].to
    BY <2>2, <1>1 DEF AnswerInv
  <2>5. Len(answers[h]) = 1
    BY <2>1, <2>3, OneLeft
  <2>6. QED
    BY <2>1, <2>4, <2>5
<1>5. q[1].to \in Request /\ q[1].to.by \in Thread /\ q[1].to.to \in Core
  BY <1>2, Homes
<1>6. q[1].to.by = t
  BY <1>3, <1>4, <1>5 DEF LockInv, AskedFor
<1>7. q[1].to = call[t]
  BY <1>4, <1>6 DEF AskedFor
<1>8. \A c \in Core : serving[c] # Nothing => serving[c].to = c
  BY Homes DEF IInv, ThreadsInv, ThreadInv
<1>9. \A c \in Core : c # call[t].to => serving[c] # call[t]
  BY <1>5, <1>7, <1>8, Homes
<1>10. \A c \in Core : c # call[t].to => \A j \in 1..Len(inbox[c]) : inbox[c][j] # call[t]
  BY <1>3 DEF InboxInv
<1>11. QED
  BY <1>1, <1>2, <1>4, <1>5, <1>7, <1>9, <1>10

(* A caller takes its answer.                                              *)
LEMMA RecvAnswerIInv ==
  ASSUME NEW t \in Thread, IInv, RecvAnswer(t)
  PROVE  IInv'
<1> DEFINE h == HomeOf(t)
           back == IF serving[t] = Nothing THEN "IDLE" ELSE "END"
<1>0. /\ doing \in [Thread -> {"IDLE", "TX_LOCK", "SEND", "ANSWER", "RX_LOCK", "RUN", "END",
                               "DONE", "FAILED"}]
      /\ call \in [Thread -> Request \cup {Nothing}] /\ serving \in [Thread -> Request \cup {Nothing}]
      /\ txLock \in [Core -> Thread \cup {Nothing}] /\ h \in Core
      /\ ThreadInv(t) /\ LockInv /\ InboxInv /\ AnswerInv
      /\ \A c \in Core : \A i \in 1..Len(inbox[c]) : inbox[c][i] \in Request
      /\ \A c \in Core : \A i \in 1..Len(answers[c]) : answers[c][i].to \in Request
  BY Homes DEF IInv, Types, ThreadsInv
<1>1. /\ doing[t] = "ANSWER" /\ answers[h] # <<>> /\ answers' = [answers EXCEPT ![h] = Tail(answers[h])]
      /\ txLock' = [txLock EXCEPT ![h] = Nothing]
      /\ call' = [call EXCEPT ![t] = Nothing] /\ doing' = [doing EXCEPT ![t] = back]
      /\ UNCHANGED <<services, rxLock, inbox, serving, calls>>
  BY DEF RecvAnswer, PostTx, Return
<1>2. /\ Len(answers[h]) = 1 /\ call[t] \in Request
      /\ \A c \in Core : serving[c] # call[t] /\ \A j \in 1..Len(inbox[c]) : inbox[c][j] # call[t]
  BY <1>1, AnswerIsMine
<1>3. /\ doing' \in [Thread -> {"IDLE", "TX_LOCK", "SEND", "ANSWER", "RX_LOCK", "RUN", "END",
                                "DONE", "FAILED"}]
      /\ call' \in [Thread -> Request \cup {Nothing}]
      /\ txLock' \in [Core -> Thread \cup {Nothing}]
  BY <1>0, <1>1
<1>4. /\ answers' \in [Core -> Seq(Answer)] /\ Len(answers'[h]) = 0
      /\ \A c \in Core : c # h => answers'[c] = answers[c]
  <2>1. answers \in [Core -> Seq(Answer)] /\ answers[h] \in Seq(Answer)
    BY <1>0 DEF IInv, Types
  <2>2. Tail(answers[h]) \in Seq(Answer) /\ Len(Tail(answers[h])) = 0
    BY <2>1, <1>1, <1>2, Taken
  <2>3. QED
    BY <2>1, <2>2, <1>0, <1>1
<1>5. Types' /\ OnlyMoves(t)
  BY <1>1, <1>3, <1>4, <1>0 DEF IInv, Types, OnlyMoves
<1>6. /\ doing'[t] = back /\ call'[t] = Nothing /\ serving' = serving
      /\ \A c \in Core : c # h => txLock'[c] = txLock[c]
  BY <1>0, <1>1
<1>7. t \in Core /\ serving[t] # Nothing /\ serving[t].ack => AskedFor(serving[t])'
  BY <1>5, <1>6, ServedKept
<1>8. ThreadInv(t)'
  BY <1>0, <1>1, <1>6, <1>7 DEF ThreadInv, AskedFor
<1>9. \A u \in Thread : u # t => ThreadInv(u)'
  BY <1>2, <1>5, OthersKept
<1>10. ThreadsInv'
  BY <1>8, <1>9 DEF ThreadsInv
<1>11. txLock[h] = t
  BY <1>0, <1>1 DEF LockInv
<1>12. LockInv'
  BY <1>0, <1>1, <1>5, <1>6, <1>11, Homes DEF LockInv, Handling, OnlyMoves
<1>13. \A s \in Request : AskedFor(s) /\ s # call[t] => AskedFor(s)' /\ s.by # t
  BY <1>5, StaysAsked
<1>14. InboxInv'
  <2>1. inbox' = inbox
    BY <1>1
  <2>2. QED
    BY <2>1, <1>0, <1>2, <1>6, <1>13 DEF InboxInv, AskedFor
<1>15. AnswerInv'
  <2>1. ASSUME NEW d \in Core, NEW i \in 1..Len(answers'[d])
        PROVE  /\ HomeOf(answers'[d][i].to.by) = d /\ answers'[d][i].to.ack
               /\ AskedFor(answers[d][i].to)'
               /\ serving'[answers'[d][i].to.to] # answers'[d][i].to
               /\ \A j \in 1..Len(inbox'[answers'[d][i].to.to]) :
                    inbox'[answers'[d][i].to.to][j] # answers'[d][i].to
    <3>1. d # h /\ answers'[d] = answers[d]
      BY <1>4
    <3>2. PICK s \in Request : s = answers[d][i].to
      BY <3>1, <1>0
    <3>3. /\ HomeOf(s.by) = d /\ s.ack /\ AskedFor(s) /\ serving[s.to] # s
          /\ \A j \in 1..Len(inbox[s.to]) : inbox[s.to][j] # s
      <4>1. i \in 1..Len(answers[d]) /\ AnswerInv
        BY <3>1, <1>0
      <4>2. AnswerFor(s, d)
        BY <3>2, <4>1, AnswerOf
      <4> QED BY <4>2 DEF AnswerFor
    <3>4. s # call[t]
      BY <3>1, <3>3, <1>0, <1>1 DEF ThreadInv
    <3>5. AskedFor(s)' /\ serving' = serving /\ inbox' = inbox
      BY <3>3, <3>4, <1>1, <1>13
    <3>6. QED
      BY <3>1, <3>2, <3>3, <3>5 DEF AskedFor
  <2>2. \A d \in Core : Len(answers'[d]) <= 1
    <3>1. ASSUME NEW d \in Core PROVE Len(answers'[d]) <= 1
      <4>1. CASE d = h
        BY <1>4, <4>1
      <4>2. CASE d # h
        BY <1>0, <1>4, <4>2 DEF AnswerInv
      <4> QED BY <4>1, <4>2
    <3> QED BY <3>1
  <2>3. QED
    BY <2>1, <2>2 DEF AnswerInv, AskedFor
<1>16. QED
  BY <1>5, <1>10, <1>12, <1>14, <1>15 DEF IInv

(* A receive task answers the request it served.                           *)
LEMMA SendAnswerIInv ==
  ASSUME NEW c \in Core, IInv, SendAnswer(c)
  PROVE  IInv'
<1>0. /\ doing \in [Thread -> {"IDLE", "TX_LOCK", "SEND", "ANSWER", "RX_LOCK", "RUN", "END",
                               "DONE", "FAILED"}]
      /\ call \in [Thread -> Request \cup {Nothing}] /\ serving \in [Thread -> Request \cup {Nothing}]
      /\ c \in Thread /\ HomeOf(c) = c
      /\ ThreadInv(c) /\ LockInv /\ InboxInv /\ AnswerInv
      /\ \A e \in Core : \A i \in 1..Len(inbox[e]) : inbox[e][i] \in Request
      /\ \A e \in Core : \A i \in 1..Len(answers[e]) : answers[e][i].to \in Request
  BY Homes DEF IInv, Types, ThreadsInv
<1>a. PICK r \in Request : r = serving[c] /\ r.to = c
  BY <1>0 DEF SendAnswer, ThreadInv
<1> DEFINE d == HomeOf(r.by)
           a == [to |-> r, ok |-> doing[c] = "DONE"]
<1>1. /\ doing[c] \in {"DONE", "FAILED"}
      /\ doing' = [doing EXCEPT ![c] = "IDLE"] /\ serving' = [serving EXCEPT ![c] = Nothing]
      /\ UNCHANGED <<services, txLock, rxLock, inbox, call, calls>>
      /\ \/ answers' = answers
         \/ r.ack /\ answers' = [answers EXCEPT ![d] = Append(answers[d], a)]
  BY <1>a DEF SendAnswer, Wanted
<1>2. r \in Request /\ r.to = c /\ d \in Core /\ r.by \in Thread /\ a \in Answer /\ a.to = r
  BY <1>a, Homes DEF Answer
<1>3. /\ doing' \in [Thread -> {"IDLE", "TX_LOCK", "SEND", "ANSWER", "RX_LOCK", "RUN", "END",
                                "DONE", "FAILED"}]
      /\ serving' \in [Thread -> Request \cup {Nothing}]
  BY <1>0, <1>1
<1>4. answers' \in [Core -> Seq(Answer)] /\ OnlyMoves(c)
  <2>1. answers \in [Core -> Seq(Answer)] /\ answers[d] \in Seq(Answer)
    BY <1>2 DEF IInv, Types
  <2>2. Append(answers[d], a) \in Seq(Answer)
    BY <2>1, <1>2, Appended
  <2>3. OnlyMoves(c)
    BY <1>0, <1>1 DEF OnlyMoves
  <2>4. QED
    BY <2>1, <2>2, <2>3, <1>1, <1>2
<1>5. Types'
  BY <1>1, <1>3, <1>4 DEF IInv, Types
<1>6. /\ doing'[c] = "IDLE" /\ serving'[c] = Nothing /\ call'[c] = call[c]
      /\ \A e \in Core : e # c => serving'[e] = serving[e]
  BY <1>0, <1>1, Homes
<1>7. ThreadInv(c)'
  BY <1>0, <1>1, <1>6, Homes DEF ThreadInv, AskedFor
<1>8. LockInv'
  BY <1>0, <1>1, <1>4, <1>6 DEF LockInv, Handling, OnlyMoves
<1>9. CASE answers' = answers
  BY <1>0, <1>1, <1>4, <1>5, <1>6, <1>7, <1>8, <1>9, StepKeeps
<1>10. CASE r.ack /\ answers' = [answers EXCEPT ![d] = Append(answers[d], a)]
  <2>1. AskedFor(r)
    BY <1>a, <1>0, <1>10, Homes DEF ThreadInv, AskedFor
  <2>2. answers[d] \in Seq(Answer) /\ Len(answers[d]) \in Nat /\ answers \in [Core -> Seq(Answer)]
    BY <1>2, Appended DEF IInv, Types
  <2>3. Len(answers[d]) = 0
    <3>1. SUFFICES ASSUME Len(answers[d]) # 0 PROVE FALSE
      OBVIOUS
    <3>2. 1 \in 1..Len(answers[d])
      BY <2>2, <3>1
    <3>3. PICK s \in Request : s = answers[d][1].to
      BY <3>2, <1>0, <1>2
    <3>4. HomeOf(s.by) = d /\ AskedFor(s) /\ serving[s.to] # s /\ s.by \in Thread
      <4>1. /\ HomeOf(answers[d][1].to.by) = d /\ AskedFor(answers[d][1].to)
            /\ serving[answers[d][1].to.to] # answers[d][1].to
        BY <3>2, <1>0, <1>2 DEF AnswerInv
      <4>2. QED
        BY <4>1, <3>3, Homes DEF AskedFor
    <3>5. s.by = r.by
      BY <3>4, <2>1, <1>0, <1>2 DEF LockInv, AskedFor
    <3>6. s = r
      BY <3>4, <3>5, <2>1 DEF AskedFor
    <3>7. QED
      BY <3>4, <3>6, <1>a
  <2>4. /\ Len(answers'[d]) = 1 /\ answers'[d][1] = a
        /\ \A e \in Core : e # d => answers'[e] = answers[e]
    BY <2>2, <2>3, <1>2, <1>10, Appended
  <2>5. \A s \in Request : AskedFor(s) => AskedFor(s)'
    BY <1>0, <1>1, <1>4, StaysAsked
  <2>6. \A e \in Core : serving'[e] = serving[e] \/ serving'[e] = Nothing
    BY <1>6
  <2>7. InboxInv'
    <3>1. inbox' = inbox
      BY <1>1
    <3>2. QED
      BY <3>1, <2>5, <2>6, <1>0, Homes DEF InboxInv, AskedFor
  <2>8. \A j \in 1..Len(inbox[c]) : inbox[c][j] # r
    BY <1>a, <1>0, <1>10 DEF InboxInv
  <2>9. AnswerInv'
    <3>1. ASSUME NEW e \in Core, NEW i \in 1..Len(answers'[e])
          PROVE  /\ HomeOf(answers'[e][i].to.by) = e /\ answers'[e][i].to.ack
                 /\ AskedFor(answers[e][i].to)'
                 /\ serving'[answers'[e][i].to.to] # answers'[e][i].to
                 /\ \A j \in 1..Len(inbox'[answers'[e][i].to.to]) :
                      inbox'[answers'[e][i].to.to][j] # answers'[e][i].to
      <4>1. CASE e = d
        <5>1. answers'[e][i].to = r
          BY <4>1, <2>4, <1>2
        <5>2. AskedFor(r)' /\ serving'[r.to] # r /\ inbox' = inbox
          BY <2>1, <2>5, <1>1, <1>2, <1>6, Homes
        <5>3. QED
          BY <5>1, <5>2, <4>1, <2>8, <1>2, <1>10 DEF AskedFor
      <4>2. CASE e # d
        <5>1. answers'[e] = answers[e]
          BY <4>2, <2>4
        <5>2. PICK s \in Request : s = answers[e][i].to
          BY <5>1, <1>0
        <5>3. /\ HomeOf(s.by) = e /\ s.ack /\ AskedFor(s) /\ serving[s.to] # s /\ s.to \in Core
              /\ \A j \in 1..Len(inbox[s.to]) : inbox[s.to][j] # s
          <6>1. i \in 1..Len(answers[e]) /\ s.to \in Core /\ AnswerInv
            BY <5>1, <1>0, Homes
          <6>2. AnswerFor(s, e)
            BY <5>2, <6>1, AnswerOf
          <6> QED BY <6>1, <6>2 DEF AnswerFor
        <5>4. AskedFor(s)' /\ inbox' = inbox /\ serving'[s.to] # s
          BY <5>3, <1>1, <2>5, <2>6, Homes
        <5>5. QED
          BY <5>1, <5>2, <5>3, <5>4 DEF AskedFor
      <4>3. QED
        BY <4>1, <4>2
    <3>2. \A e \in Core : Len(answers'[e]) <= 1
      <4>1. AnswerInv
        BY <1>0
      <4>2. \A e \in Core : Len(answers[e]) <= 1
        BY <4>1 DEF AnswerInv
      <4>3. ASSUME NEW e \in Core, e # d PROVE Len(answers'[e]) <= 1
        BY <4>2, <4>3, <2>4
      <4>4. Len(answers'[d]) <= 1
        BY <2>4
      <4>5. QED
        BY <4>3, <4>4
    <3>3. QED
      BY <3>1, <3>2 DEF AnswerInv, AskedFor
  <2>10. \A u \in Thread : u # c => ThreadInv(u)'
    BY <1>0, <1>1, <1>4, OthersKept
  <2>11. ThreadsInv'
    BY <1>7, <2>10 DEF ThreadsInv
  <2>12. QED
    BY <1>5, <1>8, <2>7, <2>9, <2>11 DEF IInv
<1>11. QED
  BY <1>1, <1>9, <1>10

-----------------------------------------------------------------------------
(* Every step keeps the locks, the calls and the queues in order.          *)
LEMMA NextIInv == ASSUME NoSelfRelay, IInv, [Next]_vars PROVE IInv'
<1>1. CASE UNCHANGED vars
  BY <1>1 DEF vars, IInv, Types, ThreadsInv, ThreadInv, LockInv, InboxInv, AnswerInv, AskedFor, Handling
<1>2. ASSUME NEW t \in Thread, Works(t)
      PROVE  IInv'
  BY <1>2, PendTxIInv, SendIInv, RecvAnswerIInv, PendRxIInv, HandleIInv, PostRxIInv, RecvRequestIInv,
     SendAnswerIInv DEF Works
<1>3. QED
  BY <1>1, <1>2, RunTaskIInv, RegisterIInv DEF Next

(* Handlers run one at a time and answers are expected.                    *)
LEMMA IInvServes == IInv => ServiceInv
<1> SUFFICES ASSUME IInv PROVE ServiceInv
  OBVIOUS
<1>1. TypeOK
  BY DEF IInv, Types, ThreadsInv, ThreadInv, TypeOK
<1>2. Serialized
  BY DEF IInv, LockInv, Serialized
<1>3. AnswersExpected
  <2>1. ASSUME NEW c \in Core, NEW i \in 1..Len(answers[c])
        PROVE  \E t \in Thread : HomeOf(t) = c /\ doing[t] = "ANSWER" /\ answers[c][i].to = call[t]
    <3>1. answers[c][i].to \in Request
      BY Homes DEF IInv, Types
    <3>2. HomeOf(answers[c][i].to.by) = c /\ AskedFor(answers[c][i].to)
      BY DEF IInv, AnswerInv
    <3>3. QED
      BY <3>1, <3>2, Homes DEF AskedFor
  <2>2. QED
    BY <2>1 DEF AnswersExpected
<1>4. QED
  BY <1>1, <1>2, <1>3 DEF ServiceInv

(* Handlers of a core run one after the other and to completion, and an    *)
(* answer is for the thread that waits at the endpoint, for any number of  *)
(* cores, tasks, calls and lost messages.                                  *)
THEOREM OneAtATime == NoSelfRelay /\ Spec => []ServiceInv
<1> SUFFICES ASSUME NoSelfRelay PROVE Spec => []ServiceInv
  OBVIOUS
<1>1. IInv /\ [Next]_vars => IInv'
  BY NextIInv
<1>2. QED
  BY InitIInv, <1>1, IInvServes, PTL DEF Spec

-----------------------------------------------------------------------------
(* A request under way has not been told about, nor has it succeeded       *)
(* before its handler ends.                                                *)
TruthAt(t) ==
  /\ serving[t] # Nothing /\ serving[t].ack =>
       /\ serving[t].num <= calls /\ (serving[t] \in succeeded <=> doing[t] = "DONE")
       /\ \A a \in returned : a.to # serving[t]
  /\ call[t] # Nothing /\ call[t].ack =>
       /\ call[t].num <= calls /\ (doing[t] \in {"TX_LOCK", "SEND"} => call[t] \notin succeeded)
       /\ \A a \in returned : a.to # call[t]

QueueTruth ==
  /\ \A c \in Core : \A i \in 1..Len(inbox[c]) : inbox[c][i].ack => inbox[c][i] \notin succeeded
  /\ \A c \in Core : \A i \in 1..Len(answers[c]) : answers[c][i].ok <=> answers[c][i].to \in succeeded

RanTruth ==
  /\ succeeded \subseteq Request /\ returned \subseteq Answer
  /\ \A r \in succeeded : r.ack => r.num <= calls
  /\ \A a \in returned : a.to.ack => a.to.num <= calls /\ (a.ok <=> a.to \in succeeded)

TruthInv == (\A t \in Thread : TruthAt(t)) /\ QueueTruth /\ RanTruth

(* Initially nothing succeeded.                                            *)
LEMMA InitTruth == Init => TruthInv
BY Homes DEF Init, TruthInv, TruthAt, QueueTruth, RanTruth

(* A request that is served is in one place.                               *)
LEMMA ServedOnce ==
  ASSUME IInv, NEW t \in Thread, serving[t] # Nothing, serving[t].ack
  PROVE  /\ \A u \in Thread : serving[u] = serving[t] => u = t
         /\ \A u \in Thread : doing[u] \in {"TX_LOCK", "SEND"} => call[u] # serving[t]
         /\ t \notin Core => \A u \in Thread : call[u] # serving[t]
         /\ \A c \in Core : \A i \in 1..Len(inbox[c]) : inbox[c][i] # serving[t]
         /\ \A c \in Core : \A i \in 1..Len(answers[c]) : answers[c][i].to # serving[t]
<1>1. PICK r \in Request : r = serving[t]
  BY DEF IInv, Types
<1>2. \A u \in Thread : ThreadInv(u)
  BY DEF IInv, ThreadsInv
<1>3. InboxInv /\ AnswerInv
  BY DEF IInv
<1>4. r.to = HomeOf(t) /\ r # Nothing /\ r.by \in Thread /\ HomeOf(t) \in Core
  BY <1>1, <1>2, Homes DEF ThreadInv
<1>5. \A u \in Thread : call[u] = r => u = r.by /\ r.to # HomeOf(u)
  BY <1>2, <1>4 DEF ThreadInv
<1>6. t \in Core => AskedFor(r) /\ r.to = t
  BY <1>1, <1>2, <1>4, Homes DEF ThreadInv, AskedFor
<1>7. t \notin Core => r.by = t /\ \A u \in Thread : call[u] # r
  BY <1>1, <1>2, <1>4, <1>5, Homes DEF ThreadInv
<1>8. t \notin Core => ~AskedFor(r)
  BY <1>4, <1>7 DEF AskedFor
<1>9. ASSUME NEW u \in Thread, serving[u] = r PROVE u = t
  <2>1. r.to = HomeOf(u) /\ (u \notin Core => r.by = u) /\ (u \in Core => AskedFor(r))
    BY <1>1, <1>2, <1>4, <1>9, Homes DEF ThreadInv, AskedFor
  <2>2. u \notin Core => call[u] # r
    BY <2>1, <1>5
  <2>3. u \in Core <=> t \in Core
    BY <2>1, <2>2, <1>6, <1>7, <1>8 DEF AskedFor
  <2>4. QED
    BY <2>1, <2>3, <1>4, <1>7, Homes
<1>10. \A u \in Thread : doing[u] \in {"TX_LOCK", "SEND"} => call[u] # r
  BY <1>5, <1>6, <1>7 DEF AskedFor
<1>11. \A c \in Core : \A i \in 1..Len(inbox[c]) : inbox[c][i] # r
  <2>1. ASSUME NEW c \in Core, NEW i \in 1..Len(inbox[c]), inbox[c][i] = r PROVE FALSE
    <3>1. r.to = c /\ AskedFor(r) /\ serving[c] # r
      BY <2>1, <1>1, <1>3 DEF InboxInv, AskedFor
    <3>2. QED
      BY <3>1, <1>1, <1>6, <1>8
  <2>2. QED
    BY <2>1
<1>12. \A c \in Core : \A i \in 1..Len(answers[c]) : answers[c][i].to # r
  <2>1. ASSUME NEW c \in Core, NEW i \in 1..Len(answers[c]), answers[c][i].to = r PROVE FALSE
    <3>1. AskedFor(r) /\ serving[r.to] # r
      BY <2>1, <1>3 DEF AnswerInv, AskedFor
    <3>2. QED
      BY <3>1, <1>1, <1>6, <1>8
  <2>2. QED
    BY <2>1
<1>13. QED
  BY <1>1, <1>7, <1>9, <1>10, <1>11, <1>12

(* A step that runs no handler to its end and tells nobody anything.       *)
LEMMA QuietTruth ==
  ASSUME IInv, IInv', TruthInv, NEW t \in Thread, OnlyMoves(t), UNCHANGED <<succeeded, returned>>,
         calls' \in {calls, calls + 1}, QueueTruth', TruthAt(t)'
  PROVE  TruthInv'
<1>1. calls \in Nat /\ calls' \in Nat /\ calls <= calls'
      /\ call \in [Thread -> Request \cup {Nothing}] /\ serving \in [Thread -> Request \cup {Nothing}]
  BY DEF IInv, Types
<1>2. \A r \in Request : r.num <= calls => r.num <= calls'
  BY <1>1, Homes
<1>3. ASSUME NEW u \in Thread, u # t PROVE TruthAt(u)'
  <2>1. TruthAt(u) /\ doing'[u] = doing[u] /\ call'[u] = call[u] /\ serving'[u] = serving[u]
    BY <1>3 DEF TruthInv, OnlyMoves
  <2>2. QED
    BY <2>1, <1>1, <1>2 DEF TruthAt
<1>4. RanTruth'
  BY <1>1, <1>2, Homes DEF TruthInv, RanTruth
<1>5. QED
  BY <1>3, <1>4 DEF TruthInv

(* Nobody has been told about a call that starts.                          *)
LEMMA FreshCall ==
  ASSUME TruthInv, NEW r \in Request, r.num = calls + 1, r.ack, calls \in Nat
  PROVE  r \notin succeeded /\ \A a \in returned : a.to # r
BY Homes DEF TruthInv, RanTruth

(* A task that starts a call has been told nothing about it.              *)
LEMMA RunTaskTruth ==
  ASSUME NEW t \in Task, NEW c \in Core, NEW s \in Service, NEW ack \in BOOLEAN,
         IInv, IInv', TruthInv, RunTask(t, c, s, ack)
  PROVE  TruthInv'
<1> DEFINE r == [by |-> t, to |-> c, service |-> s, ack |-> ack, num |-> calls + 1]
<1>0. /\ calls \in Nat /\ t \in Thread /\ TruthAt(t)
      /\ doing \in [Thread -> {"IDLE", "TX_LOCK", "SEND", "ANSWER", "RX_LOCK", "RUN", "END",
                               "DONE", "FAILED"}]
      /\ call \in [Thread -> Request \cup {Nothing}] /\ serving \in [Thread -> Request \cup {Nothing}]
  BY Homes DEF IInv, Types, TruthInv
<1>10. r \in Request /\ r.num = calls + 1 /\ r # Nothing
  <2>1. r \in Request
    BY <1>0 DEF Request
  <2>2. QED
    BY <2>1, Homes
<1>1. r.ack => r \notin succeeded /\ \A a \in returned : a.to # r
  BY <1>0, <1>10, FreshCall
<1>2. \/ /\ doing' = [doing EXCEPT ![t] = "RX_LOCK"]
         /\ serving' = [serving EXCEPT ![t] = r] /\ call' = call
      \/ /\ doing' = [doing EXCEPT ![t] = "TX_LOCK"]
         /\ call' = [call EXCEPT ![t] = r] /\ serving' = serving
  BY DEF RunTask, Run
<1>. HIDE DEF r
<1>3. /\ calls' = calls + 1 /\ doing[t] = "IDLE" /\ UNCHANGED <<succeeded, returned, inbox, answers>>
  BY DEF RunTask, Run
<1>4. /\ OnlyMoves(t) /\ doing'[t] \in {"RX_LOCK", "TX_LOCK"}
      /\ serving'[t] = r \/ serving'[t] = serving[t]
      /\ call'[t] = r \/ call'[t] = call[t]
  BY <1>0, <1>2 DEF OnlyMoves
<1>5. ThreadInv(t)
  BY <1>0 DEF IInv, ThreadsInv
<1>6. serving[t] = Nothing /\ call[t] = Nothing
  BY <1>3, <1>5 DEF ThreadInv
<1>7. TruthAt(t)'
  BY <1>0, <1>10, <1>1, <1>3, <1>4, <1>6 DEF TruthAt
<1>8. QueueTruth'
  BY <1>3 DEF TruthInv, QueueTruth
<1>9. QED
  BY <1>0, <1>3, <1>4, <1>7, <1>8, QuietTruth

(* Nor has a handler that starts one.                                      *)
LEMMA HandleTruth ==
  ASSUME NEW t \in Thread, IInv, IInv', TruthInv, NoSelfRelay, Handle(t)
  PROVE  TruthInv'
<1>0. /\ calls \in Nat
      /\ doing \in [Thread -> {"IDLE", "TX_LOCK", "SEND", "ANSWER", "RX_LOCK", "RUN", "END",
                               "DONE", "FAILED"}]
      /\ call \in [Thread -> Request \cup {Nothing}] /\ serving \in [Thread -> Request \cup {Nothing}]
      /\ TruthAt(t) /\ ThreadInv(t)
  BY DEF IInv, Types, TruthInv, ThreadsInv
<1> DEFINE nested == Relay[<<HomeOf(t), serving[t].service>>]
           r == [by |-> t, to |-> nested[1], service |-> nested[2], ack |-> TRUE, num |-> calls + 1]
<1>1. serving[t] \in Request /\ HomeOf(t) \in Core /\ serving[t].service \in Service
  BY <1>0, Homes DEF Handle, ThreadInv
<1>2. nested # Nothing => nested[1] \in Core /\ nested[2] \in Service /\ nested[1] # HomeOf(t)
  BY <1>1, ServiceAssumption DEF NoSelfRelay
<1>. HIDE DEF nested
<1>3. nested # Nothing => r \in Request /\ r.num = calls + 1 /\ r.ack
  BY <1>0, <1>2 DEF Request
<1>4. nested # Nothing => r \notin succeeded /\ \A a \in returned : a.to # r
  BY <1>0, <1>3, FreshCall
<1>5. \/ /\ doing' = [doing EXCEPT ![t] = "END"] /\ UNCHANGED <<call, serving, calls>>
      \/ /\ nested # Nothing /\ doing' = [doing EXCEPT ![t] = "TX_LOCK"]
         /\ call' = [call EXCEPT ![t] = r] /\ calls' = calls + 1 /\ serving' = serving
  BY <1>2 DEF Handle, Run, nested
<1>. HIDE DEF r
<1>6. doing[t] = "RUN" /\ UNCHANGED <<inbox, answers, succeeded, returned>> /\ calls' \in {calls, calls + 1}
  BY <1>5 DEF Handle
<1>7. /\ OnlyMoves(t) /\ doing'[t] \in {"END", "TX_LOCK"} /\ serving' = serving
      /\ call'[t] = call[t] \/ (call'[t] = r /\ nested # Nothing /\ calls' = calls + 1)
  BY <1>0, <1>5 DEF OnlyMoves
<1>8. call[t] = Nothing
  BY <1>0, <1>6 DEF ThreadInv
<1>9. \A q \in Request : q.num <= calls => q.num <= calls'
  BY <1>0, <1>6, Homes
<1>10. TruthAt(t)'
  BY <1>0, <1>1, <1>3, <1>4, <1>6, <1>7, <1>8, <1>9 DEF TruthAt
<1>11. QueueTruth'
  BY <1>6 DEF TruthInv, QueueTruth
<1>12. QED
  BY <1>6, <1>7, <1>10, <1>11, QuietTruth

(* Taking a lock, or a request from the inbox, tells nobody anything.      *)
LEMMA PendTxTruth ==
  ASSUME NEW t \in Thread, IInv, IInv', TruthInv, PendTx(t)
  PROVE  TruthInv'
<1>0. /\ doing \in [Thread -> {"IDLE", "TX_LOCK", "SEND", "ANSWER", "RX_LOCK", "RUN", "END",
                               "DONE", "FAILED"}]
      /\ TruthAt(t)
  BY DEF IInv, Types, TruthInv
<1>1. /\ doing[t] = "TX_LOCK" /\ doing' = [doing EXCEPT ![t] = "SEND"]
      /\ UNCHANGED <<inbox, answers, call, serving, calls, succeeded, returned>>
  BY DEF PendTx, Goes
<1>2. OnlyMoves(t) /\ doing'[t] = "SEND"
  BY <1>0, <1>1 DEF OnlyMoves
<1>3. TruthAt(t)'
  BY <1>0, <1>1, <1>2 DEF TruthAt
<1>4. QueueTruth'
  BY <1>1 DEF TruthInv, QueueTruth
<1>5. QED
  BY <1>1, <1>2, <1>3, <1>4, QuietTruth

(* A request in the inbox was not run.                                     *)
LEMMA RecvRequestTruth ==
  ASSUME NEW c \in Core, IInv, IInv', TruthInv, RecvRequest(c)
  PROVE  TruthInv'
<1> DEFINE q == inbox[c]
<1>0. /\ doing \in [Thread -> {"IDLE", "TX_LOCK", "SEND", "ANSWER", "RX_LOCK", "RUN", "END",
                               "DONE", "FAILED"}]
      /\ inbox \in [Core -> Seq(Request)] /\ q \in Seq(Request)
      /\ serving \in [Thread -> Request \cup {Nothing}] /\ c \in Thread /\ TruthAt(c) /\ QueueTruth
  BY Homes DEF IInv, Types, TruthInv
<1>1. /\ doing[c] = "IDLE" /\ doing' = [doing EXCEPT ![c] = "RX_LOCK"] /\ q # <<>>
      /\ serving' = [serving EXCEPT ![c] = Head(q)] /\ inbox' = [inbox EXCEPT ![c] = Tail(q)]
      /\ UNCHANGED <<answers, call, calls, succeeded, returned>>
  BY DEF RecvRequest, Goes
<1>2. /\ Len(q) \in Nat /\ Len(q) >= 1 /\ Len(Tail(q)) = Len(q) - 1
      /\ Head(q) = q[1] /\ q[1] \in Request
      /\ \A i \in 1..Len(Tail(q)) : Tail(q)[i] = q[i + 1] /\ i + 1 \in 1..Len(q)
  BY <1>0, <1>1, Taken
<1>3. PICK r \in Request : r = q[1]
  BY <1>2
<1>4. r.ack => AskedFor(r) /\ r \notin succeeded
  BY <1>0, <1>2, <1>3 DEF IInv, InboxInv, QueueTruth, AskedFor
<1>5. r.ack => TruthAt(r.by) /\ call[r.by] = r /\ r # Nothing
  BY <1>4, Homes DEF TruthInv, AskedFor
<1>6. r.ack => r.num <= calls /\ \A a \in returned : a.to # r
  BY <1>5 DEF TruthAt
<1>7. /\ OnlyMoves(c) /\ doing'[c] = "RX_LOCK" /\ serving'[c] = r
      /\ inbox'[c] = Tail(q) /\ \A d \in Core : d # c => inbox'[d] = inbox[d]
  BY <1>0, <1>1, <1>2, <1>3 DEF OnlyMoves
<1>8. TruthAt(c)'
  BY <1>0, <1>1, <1>4, <1>6, <1>7 DEF TruthAt
<1>9. QueueTruth'
  <2>1. ASSUME NEW d \in Core, NEW i \in 1..Len(inbox'[d]), inbox'[d][i].ack
        PROVE  inbox'[d][i] \notin succeeded
    <3>1. CASE d = c
      BY <2>1, <3>1, <1>0, <1>2, <1>7 DEF QueueTruth
    <3>2. CASE d # c
      BY <2>1, <3>2, <1>0, <1>7 DEF QueueTruth
    <3>3. QED
      BY <3>1, <3>2
  <2>2. QED
    BY <2>1, <1>0, <1>1 DEF QueueTruth
<1>10. QED
  BY <1>0, <1>1, <1>7, <1>8, <1>9, QuietTruth

(* Registering a service tells nobody anything.                            *)
LEMMA RegisterTruth ==
  ASSUME NEW c \in Core, NEW s \in Service, TruthInv, Register(c, s) \/ UnRegister(c, s)
  PROVE  TruthInv'
<1>1. UNCHANGED <<inbox, answers, doing, call, serving, calls, succeeded, returned>>
  BY DEF Register, UnRegister
<1>2. QED
  BY <1>1 DEF TruthInv, TruthAt, QueueTruth, RanTruth

(* Telling a caller the truth about a call it makes no more.               *)
LEMMA TellTruth ==
  ASSUME IInv, TruthInv, NEW t \in Thread, OnlyMoves(t), NEW a \in Answer,
         returned' = returned \cup {a}, UNCHANGED <<succeeded, calls>>,
         a.to.ack => /\ a.to.num <= calls /\ (a.ok <=> a.to \in succeeded)
                     /\ \A u \in Thread : serving'[u] # a.to /\ call'[u] # a.to,
         call'[t] = Nothing,
         serving'[t] = Nothing \/ (serving'[t] = serving[t] /\ doing[t] # "DONE" /\ doing'[t] # "DONE"),
         QueueTruth'
  PROVE  TruthInv'
<1>1. \A u \in Thread : TruthAt(u)
  BY DEF TruthInv
<1>2. RanTruth'
  BY Homes DEF TruthInv, RanTruth
<1>3. ASSUME NEW u \in Thread, u # t PROVE TruthAt(u)'
  <2>1. TruthAt(u) /\ doing'[u] = doing[u] /\ call'[u] = call[u] /\ serving'[u] = serving[u]
    BY <1>1, <1>3 DEF OnlyMoves
  <2>2. QED
    BY <2>1 DEF TruthAt
<1>4. TruthAt(t)'
  BY <1>1 DEF TruthAt
<1>5. QED
  BY <1>2, <1>3, <1>4 DEF TruthInv

(* A call that is being sent, or was not answered, was not run.            *)
LEMMA SendTruth ==
  ASSUME NEW t \in Thread, IInv, IInv', TruthInv, Send(t)
  PROVE  TruthInv'
<1> DEFINE r == call[t]
           back == IF serving[t] = Nothing THEN "IDLE" ELSE "END"
           sent == [inbox EXCEPT ![r.to] = Append(inbox[r.to], r)]
<1>0. /\ doing \in [Thread -> {"IDLE", "TX_LOCK", "SEND", "ANSWER", "RX_LOCK", "RUN", "END",
                               "DONE", "FAILED"}]
      /\ call \in [Thread -> Request \cup {Nothing}] /\ serving \in [Thread -> Request \cup {Nothing}]
      /\ \A u \in Thread : ThreadInv(u) /\ TruthAt(u)
      /\ QueueTruth /\ RanTruth
  BY DEF IInv, Types, ThreadsInv, TruthInv
<1>1. doing[t] = "SEND" /\ UNCHANGED <<answers, serving, calls, succeeded>>
  BY DEF Send
<1>2. r \in Request /\ r # Nothing /\ r.by = t /\ r.to \in Core /\ r.to # HomeOf(t)
  BY <1>0, <1>1, Homes DEF ThreadInv
<1>3. PICK q \in Request : q = r
  BY <1>2
<1>4. q.ack => q.num <= calls /\ q \notin succeeded /\ \A a \in returned : a.to # q
  BY <1>0, <1>1, <1>2, <1>3 DEF TruthAt
<1>5. sent[q.to] = Append(inbox[q.to], q) /\ inbox \in [Core -> Seq(Request)]
      /\ \A c \in Core : c # q.to => sent[c] = inbox[c]
  <2>1. inbox \in [Core -> Seq(Request)]
    BY DEF IInv, Types
  <2>2. QED
    BY <2>1, <1>2, <1>3
<1>6. \/ /\ inbox' = sent /\ q.ack /\ doing' = [doing EXCEPT ![t] = "ANSWER"]
         /\ UNCHANGED <<call, returned>>
      \/ /\ inbox' = sent /\ ~q.ack
         /\ returned' = returned \cup {[to |-> q, ok |-> TRUE]}
         /\ call' = [call EXCEPT ![t] = Nothing] /\ doing' = [doing EXCEPT ![t] = back]
      \/ /\ inbox' = inbox
         /\ returned' = returned \cup {[to |-> q, ok |-> FALSE]}
         /\ call' = [call EXCEPT ![t] = Nothing] /\ doing' = [doing EXCEPT ![t] = back]
  BY <1>3 DEF Send, PostTx, Return
<1>. HIDE DEF sent
<1>7. QueueTruth'
  <2>1. ASSUME NEW c \in Core, NEW i \in 1..Len(sent[c]), sent[c][i].ack
        PROVE  sent[c][i] \notin succeeded
    <3>1. CASE c # q.to
      BY <2>1, <3>1, <1>0, <1>5 DEF QueueTruth
    <3>2. CASE c = q.to
      <4>1. inbox[c] \in Seq(Request) /\ sent[c] = Append(inbox[c], q)
        BY <1>5, <3>2
      <4>2. /\ Len(inbox[c]) \in Nat /\ Len(sent[c]) = Len(inbox[c]) + 1
            /\ \A j \in 1..Len(inbox[c]) : sent[c][j] = inbox[c][j]
            /\ sent[c][Len(inbox[c]) + 1] = q
        BY <4>1, Appended
      <4>3. i \in 1..Len(inbox[c]) \/ i = Len(inbox[c]) + 1
        BY <4>2
      <4>4. QED
        BY <4>2, <4>3, <2>1, <1>0, <1>4 DEF QueueTruth
    <3>3. QED
      BY <3>1, <3>2
  <2>2. \A c \in Core : \A i \in 1..Len(inbox'[c]) : inbox'[c][i].ack => inbox'[c][i] \notin succeeded'
    <3>1. inbox' = inbox \/ inbox' = sent
      BY <1>6
    <3>2. CASE inbox' = inbox
      BY <3>2, <1>0, <1>1 DEF QueueTruth
    <3>3. CASE inbox' = sent
      BY <3>3, <2>1, <1>1
    <3>4. QED
      BY <3>1, <3>2, <3>3
  <2>3. \A c \in Core : \A i \in 1..Len(answers'[c]) :
          answers'[c][i].ok <=> answers'[c][i].to \in succeeded'
    BY <1>0, <1>1 DEF QueueTruth
  <2>4. QED
    BY <2>2, <2>3 DEF QueueTruth
<1>8. OnlyMoves(t) /\ serving' = serving
      /\ \/ doing'[t] = "ANSWER" /\ call'[t] = q /\ returned' = returned
         \/ /\ call'[t] = Nothing /\ doing'[t] = back
            /\ \E ok \in BOOLEAN : /\ ok => ~q.ack
                                 /\ returned' = returned \cup {[to |-> q, ok |-> ok]}
  BY <1>0, <1>1, <1>3, <1>6 DEF OnlyMoves
<1>9. CASE doing'[t] = "ANSWER" /\ call'[t] = q /\ returned' = returned
  <2>1. TruthAt(t)'
    BY <1>0, <1>1, <1>2, <1>3, <1>4, <1>8, <1>9 DEF TruthAt
  <2>2. QED
    BY <2>1, <1>1, <1>7, <1>8, <1>9, QuietTruth
<1>10. ASSUME NEW ok \in BOOLEAN, ok => ~q.ack, returned' = returned \cup {[to |-> q, ok |-> ok]},
              call'[t] = Nothing, doing'[t] = back
       PROVE  TruthInv'
  <2> DEFINE a == [to |-> q, ok |-> ok]
  <2>1. a \in Answer /\ a.to = q /\ a.ok = ok
    BY <1>10 DEF Answer
  <2>2. \A u \in Thread : serving[u] # q \/ ~q.ack
    <3>1. ASSUME NEW u \in Thread, serving[u] = q, q.ack PROVE FALSE
      <4>1. q.to = HomeOf(u) /\ (u \in Core => AskedFor(q)) /\ (u \notin Core => q.by = u)
        BY <3>1, <1>0, <1>2, <1>3, Homes DEF ThreadInv, AskedFor
      <4>2. u \in Core
        BY <4>1, <1>2, <1>3
      <4>3. QED
        BY <4>1, <4>2, <1>1, <1>2, <1>3 DEF AskedFor
    <3>2. QED
      BY <3>1
  <2>3. \A u \in Thread : call'[u] # q
    <3>1. \A u \in Thread : u # t => call'[u] = call[u]
      BY <1>8 DEF OnlyMoves
    <3>2. \A u \in Thread : call[u] = q => u = t
      BY <1>0, <1>2, <1>3 DEF ThreadInv
    <3>3. QED
      BY <3>1, <3>2, <1>2, <1>3, <1>10
  <2>4. doing'[t] # "DONE" /\ doing[t] # "DONE"
    BY <1>1, <1>10
  <2>. HIDE DEF a
  <2>5. returned' = returned \cup {a}
    BY <1>10 DEF a
  <2>6. QED
    BY <2>1, <2>2, <2>3, <2>4, <2>5, <1>1, <1>4, <1>7, <1>8, <1>10, TellTruth
<1>11. QED
  BY <1>8, <1>9, <1>10

(* An answer says what the handler returned.                               *)
LEMMA RecvAnswerTruth ==
  ASSUME NEW t \in Thread, IInv, IInv', TruthInv, RecvAnswer(t)
  PROVE  TruthInv'
<1> DEFINE h == HomeOf(t)
           q == answers[h]
           back == IF serving[t] = Nothing THEN "IDLE" ELSE "END"
           a == [to |-> call[t], ok |-> q[1].ok]
<1>0. /\ doing \in [Thread -> {"IDLE", "TX_LOCK", "SEND", "ANSWER", "RX_LOCK", "RUN", "END",
                               "DONE", "FAILED"}]
      /\ call \in [Thread -> Request \cup {Nothing}] /\ serving \in [Thread -> Request \cup {Nothing}]
      /\ \A u \in Thread : ThreadInv(u) /\ TruthAt(u)
      /\ QueueTruth /\ RanTruth /\ AnswerInv
  BY DEF IInv, Types, ThreadsInv, TruthInv
<1>1. /\ doing[t] = "ANSWER" /\ q # <<>> /\ answers' = [answers EXCEPT ![h] = Tail(q)]
      /\ returned' = returned \cup {[to |-> call[t], ok |-> Head(q).to.to = call[t].to => Head(q).ok]}
      /\ call' = [call EXCEPT ![t] = Nothing] /\ doing' = [doing EXCEPT ![t] = back]
      /\ UNCHANGED <<inbox, serving, calls, succeeded>>
  BY DEF RecvAnswer, PostTx, Return
<1>2. /\ h \in Core /\ Len(q) = 1 /\ call[t] \in Request /\ q[1] \in Answer
      /\ Head(q) = q[1] /\ q[1].to = call[t] /\ \A c \in Core : serving[c] # call[t]
  BY <1>1, AnswerIsMine
<1>3. PICK r \in Request : r = call[t]
  BY <1>2
<1>4. r.ack /\ r.by = t /\ r.to # h /\ r # Nothing
  <2>1. 1 \in 1..Len(q)
    BY <1>2
  <2>2. q[1].to.ack
    BY <2>1, <1>0, <1>2 DEF AnswerInv
  <2>3. QED
    BY <2>2, <1>0, <1>1, <1>2, <1>3, Homes DEF ThreadInv
<1>5. q[1].ok <=> r \in succeeded
  <2>1. 1 \in 1..Len(q)
    BY <1>2
  <2>2. QED
    BY <2>1, <1>0, <1>2, <1>3 DEF QueueTruth
<1>6. a \in Answer /\ a.to = r /\ a.ok = q[1].ok
  BY <1>2, <1>3, Homes DEF Answer
<1>7. returned' = returned \cup {a}
  <2>1. q[1].ok \in BOOLEAN /\ Head(q).ok = q[1].ok /\ Head(q).to.to = call[t].to
    BY <1>2, Homes
  <2>2. (Head(q).to.to = call[t].to => Head(q).ok) = q[1].ok
    BY <2>1, Zenon
  <2>3. QED
    BY <1>1, <2>2, Zenon
<1>. HIDE DEF a
<1>8. OnlyMoves(t) /\ serving' = serving /\ call'[t] = Nothing /\ doing'[t] = back
  BY <1>0, <1>1 DEF OnlyMoves
<1>9. r.num <= calls
  BY <1>0, <1>3, <1>4 DEF TruthAt
<1>10. \A u \in Thread : serving'[u] # r
  <2>1. ASSUME NEW u \in Thread, serving[u] = r PROVE FALSE
    <3>1. u \notin Core /\ r.to = HomeOf(u) /\ r.by = u
      BY <2>1, <1>0, <1>2, <1>3, <1>4, Homes DEF ThreadInv
    <3>2. QED
      BY <3>1, <1>4
  <2>2. QED
    BY <2>1, <1>8
<1>11. \A u \in Thread : call'[u] # r
  <2>1. \A u \in Thread : call[u] = r => u = t
    BY <1>0, <1>4 DEF ThreadInv
  <2>2. QED
    BY <2>1, <1>4, <1>8 DEF OnlyMoves
<1>12. QueueTruth'
  <2>1. Len(answers'[h]) = 0 /\ \A c \in Core : c # h => answers'[c] = answers[c]
    <3>1. answers \in [Core -> Seq(Answer)] /\ q \in Seq(Answer)
      BY <1>2 DEF IInv, Types
    <3>2. Len(Tail(q)) = 0
      BY <3>1, <1>1, <1>2, Taken
    <3>3. QED
      BY <3>1, <3>2, <1>1, <1>2
  <2>2. \A c \in Core : \A i \in 1..Len(answers'[c]) : c # h
    BY <2>1
  <2>3. \A c \in Core : \A i \in 1..Len(answers'[c]) :
          answers'[c][i].ok <=> answers'[c][i].to \in succeeded'
    <3>1. ASSUME NEW c \in Core, NEW i \in 1..Len(answers'[c])
          PROVE  answers'[c][i].ok <=> answers'[c][i].to \in succeeded'
      <4>1. answers'[c] = answers[c] /\ succeeded' = succeeded
        BY <2>1, <2>2, <1>1
      <4>2. QED
        BY <4>1, <1>0 DEF QueueTruth
    <3>2. QED
      BY <3>1
  <2>4. \A c \in Core : \A i \in 1..Len(inbox'[c]) : inbox'[c][i].ack => inbox'[c][i] \notin succeeded'
    BY <1>0, <1>1 DEF QueueTruth
  <2>5. QED
    BY <2>3, <2>4 DEF QueueTruth
<1>13. QED
  BY <1>0, <1>1, <1>4, <1>5, <1>6, <1>7, <1>8, <1>9, <1>10, <1>11, <1>12, TellTruth

(* A service that is not there is not run.                                 *)
LEMMA PendRxTruth ==
  ASSUME NEW t \in Thread, IInv, IInv', TruthInv, PendRx(t)
  PROVE  TruthInv'
<1>0. /\ doing \in [Thread -> {"IDLE", "TX_LOCK", "SEND", "ANSWER", "RX_LOCK", "RUN", "END",
                               "DONE", "FAILED"}]
      /\ serving \in [Thread -> Request \cup {Nothing}] /\ calls \in Nat
      /\ ThreadInv(t) /\ TruthAt(t) /\ QueueTruth
  BY DEF IInv, Types, ThreadsInv, TruthInv
<1>1. doing[t] = "RX_LOCK" /\ UNCHANGED <<inbox, answers, call, calls, succeeded>>
  BY DEF PendRx
<1>2. /\ serving[t] \in Request /\ serving[t] # Nothing /\ call[t] = Nothing
      /\ t \notin Core => serving[t].by = t
  BY <1>0, <1>1, Homes DEF ThreadInv
<1>3. PICK r \in Request : r = serving[t]
  BY <1>2
<1>4. \/ /\ \E w \in {"RUN", "FAILED"} : doing' = [doing EXCEPT ![t] = w]
         /\ UNCHANGED <<serving, returned>>
      \/ /\ t \notin Core /\ doing' = [doing EXCEPT ![t] = "IDLE"]
         /\ serving' = [serving EXCEPT ![t] = Nothing]
         /\ returned' = returned \cup {[to |-> r, ok |-> FALSE]}
  BY <1>3 DEF PendRx, Leave
<1>5. OnlyMoves(t) /\ call' = call
      /\ \/ doing'[t] \in {"RUN", "FAILED"} /\ UNCHANGED <<serving, returned>>
         \/ t \notin Core /\ serving'[t] = Nothing /\ returned' = returned \cup {[to |-> r, ok |-> FALSE]}
  BY <1>0, <1>1, <1>4 DEF OnlyMoves
<1>6. QueueTruth'
  BY <1>0, <1>1 DEF QueueTruth
<1>7. CASE doing'[t] \in {"RUN", "FAILED"} /\ UNCHANGED <<serving, returned>>
  <2>1. TruthAt(t)'
    BY <1>0, <1>1, <1>2, <1>7 DEF TruthAt
  <2>2. QED
    BY <2>1, <1>1, <1>5, <1>6, <1>7, QuietTruth
<1>8. CASE t \notin Core /\ serving'[t] = Nothing /\ returned' = returned \cup {[to |-> r, ok |-> FALSE]}
  <2> DEFINE a == [to |-> r, ok |-> FALSE]
  <2>1. a \in Answer /\ a.to = r /\ a.ok = FALSE
    BY DEF Answer
  <2>2. r.ack => r.num <= calls /\ r \notin succeeded
    BY <1>0, <1>1, <1>2, <1>3 DEF TruthAt
  <2>3. r.ack => \A u \in Thread : serving'[u] # r /\ call'[u] # r
    <3>1. r.ack => \A u \in Thread : (serving[u] = r => u = t) /\ call[u] # r
      BY <1>2, <1>3, <1>8, ServedOnce
    <3>2. QED
      BY <3>1, <1>2, <1>3, <1>5, <1>8 DEF OnlyMoves
  <2>4. returned' = returned \cup {a}
    BY <1>8
  <2>. HIDE DEF a
  <2>5. QED
    BY <2>1, <2>2, <2>3, <2>4, <1>1, <1>2, <1>5, <1>6, <1>8, TellTruth
<1>9. QED
  BY <1>5, <1>7, <1>8

(* A handler that ends has a status, and its caller hears of it: now, or   *)
(* when the answer arrives.                                                *)
LEMMA PostRxTruth ==
  ASSUME NEW t \in Thread, IInv, IInv', TruthInv, PostRx(t)
  PROVE  TruthInv'
<1>0. /\ doing \in [Thread -> {"IDLE", "TX_LOCK", "SEND", "ANSWER", "RX_LOCK", "RUN", "END",
                               "DONE", "FAILED"}]
      /\ call \in [Thread -> Request \cup {Nothing}] /\ serving \in [Thread -> Request \cup {Nothing}]
      /\ \A u \in Thread : ThreadInv(u) /\ TruthAt(u)
      /\ QueueTruth /\ RanTruth
  BY DEF IInv, Types, ThreadsInv, TruthInv
<1>1. /\ doing[t] = "END"
      /\ UNCHANGED <<inbox, answers, call, calls>>
  BY DEF PostRx
<1>2. serving[t] \in Request /\ serving[t] # Nothing /\ call[t] = Nothing
  BY <1>0, <1>1, Homes DEF ThreadInv
<1>3. PICK r \in Request : r = serving[t]
  BY <1>2
<1>4. PICK ok \in BOOLEAN :
        /\ succeeded' = IF ok THEN succeeded \cup {r} ELSE succeeded
        /\ \/ /\ doing' = [doing EXCEPT ![t] = IF ok THEN "DONE" ELSE "FAILED"]
              /\ UNCHANGED <<serving, returned>>
           \/ /\ t \notin Core /\ doing' = [doing EXCEPT ![t] = "IDLE"]
              /\ serving' = [serving EXCEPT ![t] = Nothing]
              /\ returned' = returned \cup {[to |-> r, ok |-> ok]}
  BY <1>3 DEF PostRx, Leave
<1>5. /\ OnlyMoves(t) /\ call'[t] = Nothing
      /\ succeeded' = IF ok THEN succeeded \cup {r} ELSE succeeded
      /\ \/ /\ (ok <=> doing'[t] = "DONE") /\ serving'[t] = r
            /\ returned' = returned
         \/ /\ t \notin Core /\ serving'[t] = Nothing
            /\ returned' = returned \cup {[to |-> r, ok |-> ok]}
  BY <1>0, <1>1, <1>2, <1>3, <1>4 DEF OnlyMoves
<1>6. r.ack => /\ \A u \in Thread : serving[u] = r => u = t
               /\ \A u \in Thread : doing[u] \in {"TX_LOCK", "SEND"} => call[u] # r
               /\ t \notin Core => \A u \in Thread : call[u] # r
               /\ \A c \in Core : \A i \in 1..Len(inbox[c]) : inbox[c][i] # r
               /\ \A c \in Core : \A i \in 1..Len(answers[c]) : answers[c][i].to # r
  BY <1>2, <1>3, ServedOnce
<1>7. r.ack => r.num <= calls /\ r \notin succeeded /\ \A a \in returned : a.to # r
  BY <1>0, <1>1, <1>2, <1>3 DEF TruthAt
<1>8. \A x : x \in succeeded' <=> x \in succeeded \/ (ok /\ x = r)
  BY <1>5
<1>9. \A x \in returned' : x \in returned \/ (x.to = r /\ x.ok = ok /\ t \notin Core /\ x \in Answer)
  <2> DEFINE a == [to |-> r, ok |-> ok]
  <2>1. a \in Answer /\ a.to = r /\ a.ok = ok
    BY DEF Answer
  <2>2. returned' = returned \/ (t \notin Core /\ returned' = returned \cup {a})
    BY <1>5
  <2>. HIDE DEF a
  <2>3. QED
    BY <2>1, <2>2
<1>10. ASSUME NEW u \in Thread, u # t PROVE TruthAt(u)'
  <2>1. TruthAt(u) /\ doing'[u] = doing[u] /\ call'[u] = call[u] /\ serving'[u] = serving[u]
        /\ calls' = calls
    BY <1>0, <1>1, <1>5, <1>10 DEF OnlyMoves
  <2>2. ASSUME serving[u] # Nothing, serving[u].ack
        PROVE  /\ serving[u].num <= calls /\ (serving[u] \in succeeded' <=> doing[u] = "DONE")
               /\ \A a \in returned' : a.to # serving[u]
    <3>1. serving[u] # r
      BY <2>2, <1>6, <1>10
    <3>2. QED
      BY <3>1, <2>1, <2>2, <1>8, <1>9 DEF TruthAt
  <2>3. ASSUME call[u] # Nothing, call[u].ack
        PROVE  /\ call[u].num <= calls /\ (doing[u] \in {"TX_LOCK", "SEND"} => call[u] \notin succeeded')
               /\ \A a \in returned' : a.to # call[u]
    <3>1. doing[u] \in {"TX_LOCK", "SEND"} \/ t \notin Core => call[u] # r
      BY <2>3, <1>6
    <3>2. QED
      BY <3>1, <2>1, <2>3, <1>8, <1>9 DEF TruthAt
  <2>4. QED
    BY <2>1, <2>2, <2>3 DEF TruthAt
<1>11. TruthAt(t)'
  <2>1. CASE /\ (ok <=> doing'[t] = "DONE") /\ serving'[t] = r
             /\ returned' = returned
    BY <2>1, <1>1, <1>5, <1>7, <1>8 DEF TruthAt
  <2>2. CASE serving'[t] = Nothing
    BY <2>2, <1>5 DEF TruthAt
  <2>3. QED
    BY <1>5, <2>1, <2>2
<1>12. QueueTruth'
  <2>1. \A c \in Core : \A i \in 1..Len(inbox[c]) : inbox[c][i].ack => inbox[c][i] \notin succeeded'
    BY <1>0, <1>6, <1>8 DEF QueueTruth
  <2>2. \A c \in Core : \A i \in 1..Len(answers[c]) : answers[c][i].to # r
    <3>1. \A c \in Core : \A i \in 1..Len(answers[c]) : answers[c][i].to.ack
      BY DEF IInv, AnswerInv
    <3>2. QED
      BY <3>1, <1>6
  <2>3. \A c \in Core : \A i \in 1..Len(answers[c]) : answers[c][i].ok <=> answers[c][i].to \in succeeded'
    BY <2>2, <1>0, <1>8 DEF QueueTruth
  <2>4. QED
    BY <2>1, <2>3, <1>1 DEF QueueTruth
<1>13. RanTruth'
  <2>1. succeeded' \subseteq Request /\ returned' \subseteq Answer
    BY <1>0, <1>5, <1>9 DEF RanTruth
  <2>2. \A x \in succeeded' : x.ack => x.num <= calls
    BY <1>0, <1>7, <1>8 DEF RanTruth
  <2>3. ASSUME NEW x \in returned', x.to.ack
        PROVE  x.to.num <= calls /\ (x.ok <=> x.to \in succeeded')
    BY <2>3, <1>0, <1>7, <1>8, <1>9 DEF RanTruth
  <2>4. QED
    BY <2>1, <2>2, <2>3, <1>1 DEF RanTruth
<1>14. QED
  BY <1>10, <1>11, <1>12, <1>13 DEF TruthInv

(* The answer says what the handler returned.                              *)
LEMMA SendAnswerTruth ==
  ASSUME NEW c \in Core, IInv, IInv', TruthInv, SendAnswer(c)
  PROVE  TruthInv'
<1>0. /\ doing \in [Thread -> {"IDLE", "TX_LOCK", "SEND", "ANSWER", "RX_LOCK", "RUN", "END",
                               "DONE", "FAILED"}]
      /\ serving \in [Thread -> Request \cup {Nothing}] /\ calls \in Nat /\ c \in Thread
      /\ ThreadInv(c) /\ TruthAt(c) /\ QueueTruth
  BY Homes DEF IInv, Types, ThreadsInv, TruthInv
<1>1. /\ doing[c] \in {"DONE", "FAILED"} /\ doing' = [doing EXCEPT ![c] = "IDLE"]
      /\ serving' = [serving EXCEPT ![c] = Nothing]
      /\ UNCHANGED <<inbox, call, calls, succeeded, returned>>
  BY DEF SendAnswer
<1>2. PICK r \in Request : r = serving[c] /\ r # Nothing
  BY <1>0, <1>1, Homes DEF ThreadInv
<1> DEFINE d == HomeOf(r.by)
           a == [to |-> r, ok |-> doing[c] = "DONE"]
<1>3. answers' = answers \/ (r.ack /\ answers' = [answers EXCEPT ![d] = Append(answers[d], a)])
  BY <1>2 DEF SendAnswer, Wanted
<1>4. a \in Answer /\ a.to = r /\ (a.ok <=> doing[c] = "DONE") /\ d \in Core
  BY <1>2, Homes DEF Answer
<1>. HIDE DEF a
<1>5. OnlyMoves(c) /\ serving'[c] = Nothing /\ call'[c] = call[c] /\ doing'[c] = "IDLE"
  BY <1>0, <1>1 DEF OnlyMoves
<1>6. TruthAt(c)'
  BY <1>0, <1>1, <1>5 DEF TruthAt
<1>7. \A e \in Core : \A i \in 1..Len(answers'[e]) : answers'[e][i].ok <=> answers'[e][i].to \in succeeded
  <2>1. CASE answers' = answers
    BY <2>1, <1>0 DEF QueueTruth
  <2>2. CASE r.ack /\ answers' = [answers EXCEPT ![d] = Append(answers[d], a)]
    <3>1. answers \in [Core -> Seq(Answer)] /\ answers[d] \in Seq(Answer)
      BY <1>4 DEF IInv, Types
    <3>2. answers'[d] = Append(answers[d], a) /\ \A e \in Core : e # d => answers'[e] = answers[e]
      BY <2>2, <3>1, <1>4
    <3>3. /\ Len(answers[d]) \in Nat /\ Len(answers'[d]) = Len(answers[d]) + 1
          /\ \A i \in 1..Len(answers[d]) : answers'[d][i] = answers[d][i]
          /\ answers'[d][Len(answers[d]) + 1] = a
      BY <3>1, <3>2, <1>4, Appended
    <3>4. a.ok <=> a.to \in succeeded
      BY <2>2, <1>0, <1>2, <1>4 DEF TruthAt
    <3>5. ASSUME NEW e \in Core, NEW i \in 1..Len(answers'[e])
          PROVE  answers'[e][i].ok <=> answers'[e][i].to \in succeeded
      <4>1. CASE e # d
        BY <3>2, <3>5, <4>1, <1>0 DEF QueueTruth
      <4>2. CASE e = d
        <5>1. i \in 1..Len(answers[d]) \/ i = Len(answers[d]) + 1
          BY <3>3, <3>5, <4>2
        <5>2. \A j \in 1..Len(answers[d]) : answers[d][j].ok <=> answers[d][j].to \in succeeded
          BY <1>0, <1>4 DEF QueueTruth
        <5>3. QED
          BY <5>1, <5>2, <3>3, <3>4, <4>2
      <4>3. QED
        BY <4>1, <4>2
    <3>6. QED
      BY <3>5
  <2>3. QED
    BY <1>3, <2>1, <2>2
<1>8. QueueTruth'
  <2>1. \A e \in Core : \A i \in 1..Len(inbox'[e]) : inbox'[e][i].ack => inbox'[e][i] \notin succeeded'
    BY <1>0, <1>1 DEF QueueTruth
  <2>2. \A e \in Core : \A i \in 1..Len(answers'[e]) :
          answers'[e][i].ok <=> answers'[e][i].to \in succeeded'
    BY <1>1, <1>7
  <2>3. QED
    BY <2>1, <2>2 DEF QueueTruth
<1>9. QED
  BY <1>0, <1>1, <1>5, <1>6, <1>8, QuietTruth

(* No step tells a lie.                                                    *)
LEMMA NextTruth == ASSUME NoSelfRelay, IInv, TruthInv, [Next]_vars PROVE TruthInv'
<1>1. CASE UNCHANGED vars
  BY <1>1 DEF vars, TruthInv, TruthAt, QueueTruth, RanTruth
<1>2. IInv'
  BY NextIInv
<1>3. ASSUME NEW t \in Thread, Works(t)
      PROVE  TruthInv'
  BY <1>2, <1>3, PendTxTruth, SendTruth, RecvAnswerTruth, PendRxTruth, HandleTruth, PostRxTruth,
     RecvRequestTruth, SendAnswerTruth DEF Works
<1>4. QED
  BY <1>1, <1>2, <1>3, RunTaskTruth, RegisterTruth DEF Next

(* A call that wants an answer returns success exactly if its handler ran  *)
(* and returned success, however many answers and requests are lost and    *)
(* whatever the other tasks and handlers call meanwhile.                   *)
THEOREM Truthful == NoSelfRelay /\ Spec => []ToldTruth
<1> SUFFICES ASSUME NoSelfRelay PROVE Spec => []ToldTruth
  OBVIOUS
<1>1. Init => IInv /\ TruthInv
  BY InitIInv, InitTruth
<1>2. IInv /\ TruthInv /\ [Next]_vars => (IInv /\ TruthInv)'
  BY NextIInv, NextTruth
<1>3. TruthInv => ToldTruth
  BY DEF TruthInv, RanTruth, ToldTruth
<1>4. QED
  BY <1>1, <1>2, <1>3, PTL DEF Spec

-----------------------------------------------------------------------------
(* From here on: the log ring, the other way the cores are connected       *)
(* beside the proxy, of any size, for any messages and restarts.           *)

(* Bytes from place a to place b, going round the ring.                    *)
Distance(a, b) == IF a <= b THEN b - a ELSE (Size - a) + b

(* What the writer is at work on is a message, and within its bounds.      *)
WriterInv ==
  /\ accepted \in Seq(Text) /\ at \in Nat \ {0}
  /\ writing \in {"COPY", "PUBLISH"} => text \in Text /\ Len(accepted) < MaxMsg

(* Nobody prints or reads before the ring is marked valid, and then both   *)
(* indices are in the ring.                                                *)
Started ==
  /\ valid => wr \in Place
  /\ ~valid => /\ writing \in {"OFF", "INIT"} /\ reading \in {"OFF", "IDLE"}
               /\ reading = "IDLE" => rd = 0
  /\ writing = "INIT" => wr = 0 /\ ~valid
  /\ reading = "COPY" => left # 0

(* Unless a message filled the ring, the message the writer is at work on  *)
(* fits before the reader's index, and what the reader has taken and is to *)
(* take ends before the writer's.  A reader that has not started will      *)
(* begin at 0, and the writer has not passed what its index says.          *)
RoomKept ==
  valid /\ ~brimful =>
    /\ reading = "OFF" => Wrapped(rd) = 0 \/ wr < Wrapped(rd)
    /\ writing \in {"COPY", "PUBLISH"} => Len(text) + 1 <= Size - Distance(Wrapped(rd), wr)
    /\ reading = "COPY" =>
         Distance(Wrapped(rd), Wrapped(next)) + left <= Distance(Wrapped(rd), wr)
    /\ reading = "PRINT" => Distance(Wrapped(rd), Wrapped(next)) <= Distance(Wrapped(rd), wr)

(* What makes NoByteShared inductive.                                      *)
RingInv == RingTypeOK /\ WriterInv /\ Started /\ RoomKept

(* A place counted on from another one, once round the ring at most.       *)
LEMMA Around ==
  ASSUME NEW x \in 0..(2 * Size - 1)
  PROVE  x % Size = IF x < Size THEN x ELSE x - Size
BY LogAssumption

(* An index past the end is at the beginning.                              *)
LEMMA WrappedPlace ==
  ASSUME NEW i \in Index
  PROVE  Wrapped(i) \in Place /\ (i \in Place => Wrapped(i) = i)
BY LogAssumption DEF Index, Wrapped, Place

(* A message has a length and is not empty.                                *)
LEMMA TextLength ==
  ASSUME NEW t \in Text
  PROVE  Len(t) \in Nat \ {0}
<1>1. t \in Seq({"char", "eol"}) /\ t # <<>>
  BY LogAssumption
<1> QED BY <1>1

(* The writer finds the ring valid, or clears its index.                   *)
LEMMA WrInitStep ==
  ASSUME RingInv, WrInit PROVE RingInv'
<1>1. RingTypeOK'
  BY LogAssumption DEF RingInv, RingTypeOK, WrInit, readerVars, Index
<1>2. WriterInv' /\ Started'
  BY DEF RingInv, WriterInv, Started, RingTypeOK, WrInit, readerVars
<1>3. RoomKept'
  BY DEF RingInv, Started, RoomKept, WrInit, readerVars, Wrapped, Distance
<1> QED BY <1>1, <1>2, <1>3 DEF RingInv

(* The ring becomes valid with the writer at its beginning.                *)
LEMMA MarkValidStep ==
  ASSUME RingInv, MarkValid PROVE RingInv'
<1>1. RingTypeOK'
  BY LogAssumption DEF RingInv, RingTypeOK, MarkValid, readerVars, Index
<1>2. WriterInv' /\ Started'
  BY LogAssumption DEF RingInv, WriterInv, Started, RingTypeOK, MarkValid, readerVars, Place
<1>3. RoomKept'
  <2>1. wr = 0 /\ reading \in {"OFF", "IDLE"} /\ rd \in Index
    BY DEF RingInv, Started, RingTypeOK, MarkValid
  <2>2. Wrapped(rd) = 0 \/ 0 < Wrapped(rd)
    BY <2>1, WrappedPlace DEF Place
  <2> QED BY <2>1, <2>2 DEF RoomKept, MarkValid, readerVars, Wrapped, Distance
<1> QED BY <1>1, <1>2, <1>3 DEF RingInv

(* A message is begun only where it fits.                                  *)
LEMMA PutStringStep ==
  ASSUME RingInv, NEW t \in Text, PutString(t) PROVE RingInv'
<1>1. RingTypeOK'
  BY DEF RingInv, RingTypeOK, PutString, readerVars
<1>2. WriterInv' /\ Started'
  BY DEF RingInv, WriterInv, Started, RingTypeOK, PutString, readerVars
<1>3. valid /\ wr \in Place /\ rd \in Index
  BY DEF RingInv, Started, RingTypeOK, PutString
<1>4. Wrapped(rd) \in Place /\ Wrapped(wr) = wr
  <2>1. wr \in Index
    BY <1>3, LogAssumption DEF Place, Index
  <2> QED BY <1>3, <2>1, WrappedPlace
<1>5. Len(t) + 1 <= Size - Distance(Wrapped(rd), wr)
  BY <1>3, <1>4, TextLength, LogAssumption DEF PutString, Fits, RoomLeft, Distance, Place
<1>6. RoomKept'
  BY <1>5 DEF RingInv, RoomKept, PutString, readerVars, Wrapped, Distance
<1> QED BY <1>1, <1>2, <1>6 DEF RingInv

(* A byte of the message or the NUL is written.                            *)
LEMMA CopyByteStep ==
  ASSUME RingInv, CopyByte PROVE RingInv'
<1>1. PICK b \in Byte \cup {Nul, Old} : mem' = [mem EXCEPT ![(wr + at - 1) % Size] = b]
  <2>1. CASE at <= Len(text)
    <3>1. Len(accepted) + 1 \in 1..MaxMsg /\ at \in Nat \ {0}
      BY LogAssumption DEF RingInv, WriterInv, CopyByte
    <3>2. [msg |-> Len(accepted) + 1, at |-> at, eol |-> text[at] = "eol"] \in Byte
      BY <3>1 DEF Byte
    <3> QED BY <2>1, <3>2 DEF CopyByte, Put
  <2>2. CASE ~(at <= Len(text))
    BY <2>2 DEF CopyByte, Put
  <2> QED BY <2>1, <2>2
<1>2. writing' \in {"COPY", "PUBLISH"} /\ writing = "COPY" /\ at' = at + 1
  BY DEF CopyByte
<1>3. mem' \in [Place -> Byte \cup {Nul, Old}]
  BY <1>1 DEF RingInv, RingTypeOK
<1>4. RingTypeOK'
  BY <1>2, <1>3 DEF RingInv, RingTypeOK, CopyByte, readerVars
<1>5. WriterInv' /\ Started'
  BY <1>2 DEF RingInv, WriterInv, Started, RingTypeOK, CopyByte, readerVars
<1>6. RoomKept'
  BY <1>2 DEF RingInv, RoomKept, CopyByte, readerVars, Wrapped, Distance
<1> QED BY <1>4, <1>5, <1>6 DEF RingInv

(* The index moves over the message: the reader has that much more to      *)
(* take, unless the index meets the reader's.                              *)
LEMMA PublishStep ==
  ASSUME RingInv, Publish PROVE RingInv'
<1> DEFINE n == Len(text) + 1
           r == Wrapped(rd)
<1>1. /\ text \in Text /\ n \in Nat /\ valid /\ wr \in Place /\ rd \in Index /\ r \in Place
      /\ Len(accepted) < MaxMsg
  BY TextLength, WrappedPlace DEF RingInv, WriterInv, Started, RingTypeOK, Publish
<1>2. /\ wr' = (wr + n) % Size /\ writing' = "IDLE"
      /\ brimful' = (brimful \/ wr' = r)
      /\ UNCHANGED <<rd, valid, reading, next, left, mem, restarts, at, text>>
  BY <1>1 DEF Publish, Published, readerVars, Place, RingTypeOK, RingInv
<1>3. wr' \in Place
  <2> HIDE DEF n
  <2>1. PICK x \in Nat : x = wr + n
    BY <1>1 DEF Place
  <2>2. wr' = x % Size
    BY <1>2, <2>1
  <2> QED BY <2>2, LogAssumption DEF Place
<1>4. RingTypeOK'
  BY <1>2, <1>3, LogAssumption DEF RingInv, RingTypeOK, Index, Place
<1>5. WriterInv' /\ Started'
  BY <1>1, <1>2, <1>3 DEF RingInv, WriterInv, Started, Publish
<1>6. ASSUME ~brimful'
      PROVE  /\ Distance(r, wr') = Distance(r, wr) + n
             /\ wr < r => wr' < r
  <2>1. n <= Size - Distance(r, wr)
    BY <1>1, <1>2, <1>6 DEF RingInv, RoomKept, Publish
  <2>2. wr + n \in 0..(2 * Size - 1)
    BY <1>1, <2>1, LogAssumption DEF Distance, Place
  <2>3. wr' = IF wr + n < Size THEN wr + n ELSE wr + n - Size
    <3>1. PICK x \in 0..(2 * Size - 1) : x = wr + n
      BY <2>2
    <3>2. wr' = x % Size
      BY <1>2, <3>1
    <3>3. x % Size = IF x < Size THEN x ELSE x - Size
      BY Around
    <3> QED BY <1>1, <3>1, <3>2, <3>3, LogAssumption DEF Place
  <2>4. wr' # r
    BY <1>2, <1>6
  <2> HIDE DEF n, r
  <2> QED BY <1>1, <2>1, <2>3, <2>4, LogAssumption DEF Distance, Place
<1>7. RoomKept'
  <2>1. /\ Wrapped(rd)' = r /\ Wrapped(next)' = Wrapped(next)
    BY <1>2 DEF Wrapped
  <2>2. SUFFICES ASSUME ~brimful'
                 PROVE  /\ reading = "OFF" => r = 0 \/ wr' < r
                        /\ reading = "COPY" => Distance(r, Wrapped(next)) + left <= Distance(r, wr')
                        /\ reading = "PRINT" => Distance(r, Wrapped(next)) <= Distance(r, wr')
    BY <1>2, <2>1 DEF RoomKept, Distance
  <2>3. /\ reading = "OFF" => r = 0 \/ wr < r
        /\ reading = "COPY" => Distance(r, Wrapped(next)) + left <= Distance(r, wr)
        /\ reading = "PRINT" => Distance(r, Wrapped(next)) <= Distance(r, wr)
    BY <1>1, <1>2, <2>2 DEF RingInv, RoomKept
  <2>4. Wrapped(next) \in Place /\ left \in Nat
    BY WrappedPlace DEF RingInv, RingTypeOK, Index
  <2>5. Distance(r, Wrapped(next)) \in Nat /\ Distance(r, wr) \in Nat
    BY <1>1, <2>4, LogAssumption DEF Distance, Place
  <2> HIDE DEF n, r
  <2> QED BY <1>1, <1>6, <2>2, <2>3, <2>4, <2>5
<1> QED BY <1>4, <1>5, <1>7 DEF RingInv

(* A writer that starts again leaves its index where it was.               *)
LEMMA RestartStep ==
  ASSUME RingInv, RestartWriter PROVE RingInv'
<1>1. RingTypeOK'
  BY LogAssumption DEF RingInv, RingTypeOK, RestartWriter, readerVars
<1>2. WriterInv' /\ Started'
  BY DEF RingInv, WriterInv, Started, RingTypeOK, RestartWriter, readerVars
<1>3. RoomKept'
  BY DEF RingInv, RoomKept, RestartWriter, readerVars, Wrapped, Distance
<1> QED BY <1>1, <1>2, <1>3 DEF RingInv

(* The reader begins at 0, where the writer has begun too.                 *)
LEMMA RdInitStep ==
  ASSUME RingInv, RdInit PROVE RingInv'
<1>1. RingTypeOK'
  BY LogAssumption DEF RingInv, RingTypeOK, RdInit, writerVars, Index
<1>2. WriterInv' /\ Started'
  BY DEF RingInv, WriterInv, Started, RingTypeOK, RdInit, writerVars
<1>3. RoomKept'
  <2>1. SUFFICES ASSUME valid, ~brimful, writing \in {"COPY", "PUBLISH"}
                 PROVE  Len(text) + 1 <= Size - wr
    <3>1. Wrapped(0) = 0
      BY LogAssumption DEF Wrapped
    <3>2. valid => Distance(0, wr) = wr
      BY DEF Distance, RingInv, Started, Place
    <3> QED BY <2>1, <3>1, <3>2 DEF RoomKept, RdInit, writerVars, Wrapped, Distance
  <2>2. /\ Wrapped(rd) = 0 \/ wr < Wrapped(rd)
        /\ Len(text) + 1 <= Size - Distance(Wrapped(rd), wr)
    BY <2>1 DEF RingInv, RoomKept, RdInit
  <2>3. wr \in Place /\ Wrapped(rd) \in Place /\ Len(text) \in Nat
    BY <2>1, TextLength, WrappedPlace DEF RingInv, WriterInv, Started, RingTypeOK
  <2> QED BY <2>2, <2>3, LogAssumption DEF Distance, Place
<1> QED BY <1>1, <1>2, <1>3 DEF RingInv

(* The reader is to take what lies between the indices.                    *)
LEMMA PollStep ==
  ASSUME RingInv, Poll PROVE RingInv'
<1>1. /\ valid /\ wr \in Place /\ rd \in Index /\ Wrapped(rd) \in Place
  BY WrappedPlace DEF RingInv, Started, RingTypeOK, Poll
<1>2. Unread(wr, rd) = Distance(Wrapped(rd), wr) /\ Unread(wr, rd) \in Index
  BY <1>1, LogAssumption DEF Unread, Distance, Wrapped, Place, Index
<1>3. RingTypeOK'
  BY <1>1, <1>2 DEF RingInv, RingTypeOK, Poll, writerVars
<1>4. WriterInv' /\ Started'
  BY <1>2 DEF RingInv, WriterInv, Started, RingTypeOK, Poll, writerVars, Index
<1>5. RoomKept'
  <2>1. Distance(Wrapped(rd), Wrapped(rd)) + left' <= Distance(Wrapped(rd), wr)
    <3>1. left' = Distance(Wrapped(rd), wr) /\ left' \in Nat
      BY <1>2 DEF Poll, Index
    <3>2. Distance(Wrapped(rd), Wrapped(rd)) = 0
      BY <1>1 DEF Distance, Place
    <3> QED BY <3>1, <3>2
  <2> QED BY <2>1 DEF RingInv, RoomKept, Poll, writerVars, Wrapped, Distance
<1> QED BY <1>3, <1>4, <1>5 DEF RingInv

(* One byte less to take.                                                  *)
LEMMA TakeByteStep ==
  ASSUME RingInv, TakeByte PROVE RingInv'
<1> DEFINE r == Wrapped(rd)
           n == Wrapped(next)
<1>1. /\ valid /\ wr \in Place /\ rd \in Index /\ r \in Place /\ n \in Place
      /\ left \in Index /\ left # 0
  BY WrappedPlace DEF RingInv, Started, RingTypeOK, TakeByte
<1>2. /\ next' = n + 1 /\ left' = left - 1
      /\ reading' \in {"COPY", "PRINT"} /\ (left = 1 => reading' = "PRINT")
      /\ UNCHANGED <<mem, wr, rd, valid, brimful, writing, text, at, accepted, restarts>>
  BY DEF TakeByte, writerVars
<1>3. next' \in Index /\ left' \in Index
  BY <1>1, <1>2, LogAssumption DEF Index, Place
<1>4. RingTypeOK'
  BY <1>2, <1>3 DEF RingInv, RingTypeOK
<1>5. WriterInv' /\ Started'
  BY <1>1, <1>2 DEF RingInv, WriterInv, Started, Index
<1>6. RoomKept'
  <2>1. Wrapped(rd)' = r
    BY <1>2 DEF Wrapped
  <2>2. ASSUME ~brimful PROVE Distance(r, Wrapped(next)') + left' <= Distance(r, wr)
    <3>1. Distance(r, n) + left <= Distance(r, wr)
      BY <1>1, <2>2 DEF RingInv, RoomKept, TakeByte
    <3>2. Wrapped(next)' = IF n + 1 = Size THEN 0 ELSE n + 1
      BY <1>1, <1>2, LogAssumption DEF Wrapped, Place
    <3> HIDE DEF r, n
    <3> QED BY <1>1, <1>2, <3>1, <3>2, LogAssumption DEF Distance, Place, Index
  <2>3. ASSUME ~brimful
        PROVE  Distance(r, Wrapped(next)') <= Distance(r, wr)
    <3>1. Wrapped(next)' \in Place /\ left' \in Nat
      BY <1>2, <1>3, LogAssumption DEF Wrapped, Place, Index
    <3> QED BY <1>1, <2>2, <2>3, <3>1, LogAssumption DEF Distance, Place
  <2> HIDE DEF r, n
  <2> QED BY <1>2, <2>1, <2>2, <2>3 DEF RingInv, RoomKept, Distance, r
<1> QED BY <1>4, <1>5, <1>6 DEF RingInv

(* What the reader has taken becomes room.                                 *)
LEMMA PrintLineStep ==
  ASSUME RingInv, PrintLine PROVE RingInv'
<1> DEFINE r == Wrapped(rd)
           n == Wrapped(next)
<1>1. /\ valid /\ wr \in Place /\ rd \in Index /\ r \in Place /\ n \in Place /\ next \in Index
  BY WrappedPlace DEF RingInv, Started, RingTypeOK, PrintLine
<1>2. RingTypeOK'
  BY DEF RingInv, RingTypeOK, PrintLine, writerVars
<1>3. WriterInv' /\ Started'
  BY <1>1 DEF RingInv, WriterInv, Started, PrintLine, writerVars
<1>4. RoomKept'
  <2>1. Wrapped(rd)' = n
    BY DEF PrintLine, Wrapped
  <2>2. SUFFICES ASSUME ~brimful, writing \in {"COPY", "PUBLISH"}
                 PROVE  Len(text) + 1 <= Size - Distance(n, wr)
    BY <2>1 DEF RoomKept, PrintLine, writerVars, Distance
  <2>3. /\ Len(text) + 1 <= Size - Distance(r, wr)
        /\ Distance(r, n) <= Distance(r, wr)
    BY <1>1, <2>2 DEF RingInv, RoomKept, PrintLine
  <2>4. Len(text) \in Nat
    BY <2>2, TextLength DEF RingInv, WriterInv
  <2> HIDE DEF r, n
  <2> QED BY <1>1, <2>3, <2>4, LogAssumption DEF Distance, Place
<1> QED BY <1>2, <1>3, <1>4 DEF RingInv

(* The writer's bytes are the room, the reader's lie before the index.     *)
LEMMA BytesApart ==
  ASSUME RingInv PROVE LogInv
<1> DEFINE r == Wrapped(rd)
           n == Wrapped(next)
<1>1. SUFFICES ASSUME ~brimful, writing = "COPY", reading = "COPY",
                      NEW k \in at..(Len(text) + 1), NEW j \in 0..(left - 1),
                      (wr + k - 1) % Size = (next + j) % Size
               PROVE  FALSE
  BY DEF RingInv, LogInv, NoByteShared, ToWrite, ToRead
<1>2. /\ valid /\ wr \in Place /\ r \in Place /\ n \in Place /\ next \in Index
      /\ left \in Index /\ left # 0 /\ at \in Nat \ {0} /\ Len(text) \in Nat
  BY <1>1, TextLength, WrappedPlace DEF RingInv, WriterInv, Started, RingTypeOK
<1>3. /\ Len(text) + 1 <= Size - Distance(r, wr)
      /\ Distance(r, n) + left <= Distance(r, wr)
  BY <1>1, <1>2 DEF RingInv, RoomKept
<1>4. PICK a \in Place : a = (wr + k - 1) % Size
  BY <1>2, LogAssumption DEF Place
<1>5. Distance(r, a) = Distance(r, wr) + k - 1
  <2>1. k \in 1..Size
    BY <1>1, <1>2, <1>3, LogAssumption DEF Distance, Place
  <2>2. wr + k - 1 \in 0..(2 * Size - 1)
    BY <1>2, <2>1, LogAssumption DEF Place
  <2>3. a = IF wr + k - 1 < Size THEN wr + k - 1 ELSE wr + k - 1 - Size
    <3>1. PICK x \in 0..(2 * Size - 1) : x = wr + k - 1
      BY <2>2
    <3>2. a = x % Size
      BY <1>4, <3>1
    <3>3. x % Size = IF x < Size THEN x ELSE x - Size
      BY Around
    <3> QED BY <1>2, <2>1, <3>1, <3>2, <3>3, LogAssumption DEF Place
  <2>4. k <= Size - Distance(r, wr)
    BY <1>1, <1>2, <1>3, LogAssumption DEF Distance, Place
  <2> HIDE DEF r, n
  <2> QED BY <1>2, <2>1, <2>3, <2>4, LogAssumption DEF Distance, Place
<1>6. Distance(r, a) = Distance(r, n) + j
  <2>1. next + j \in 0..(2 * Size - 1)
    BY <1>1, <1>2, LogAssumption DEF Index, Place
  <2>2. a = IF next + j < Size THEN next + j ELSE next + j - Size
    <3>1. PICK x \in 0..(2 * Size - 1) : x = next + j
      BY <2>1
    <3>2. a = x % Size
      BY <1>1, <1>4, <3>1
    <3>3. x % Size = IF x < Size THEN x ELSE x - Size
      BY Around
    <3> QED BY <1>1, <1>2, <3>1, <3>2, <3>3, LogAssumption DEF Index
  <2>3. n = IF next = Size THEN 0 ELSE next
    BY <1>2, LogAssumption DEF Wrapped, Index
  <2> HIDE DEF r, n
  <2>4. a = IF n + j < Size THEN n + j ELSE n + j - Size
    BY <1>1, <1>2, <2>1, <2>2, <2>3, LogAssumption DEF Index, Place
  <2> QED BY <1>1, <1>2, <1>3, <2>4, LogAssumption DEF Distance, Place, Index
<1> HIDE DEF r, n
<1>7. Distance(r, wr) \in Nat /\ Distance(r, n) \in Nat
  BY <1>2, LogAssumption DEF Distance, Place
<1> QED BY <1>1, <1>2, <1>3, <1>5, <1>6, <1>7 DEF Index

(* A step that changes nothing.                                            *)
LEMMA StutterStep ==
  ASSUME RingInv, UNCHANGED ringVars PROVE RingInv'
<1>1. RingTypeOK'
  BY DEF RingInv, RingTypeOK, ringVars
<1>2. WriterInv' /\ Started'
  BY DEF RingInv, WriterInv, Started, ringVars
<1>3. RoomKept'
  BY DEF RingInv, RoomKept, ringVars, Wrapped, Distance
<1> QED BY <1>1, <1>2, <1>3 DEF RingInv

(* The indices and what each core is at work on fit at first.              *)
LEMMA InitRing ==
  RingInit => RingInv
<1> SUFFICES ASSUME RingInit PROVE RingInv
  OBVIOUS
<1>1. RingTypeOK
  <2>1. mem \in [Place -> Byte \cup {Nul, Old}]
    BY DEF RingInit
  <2>2. next \in Index /\ left \in Index /\ restarts \in 0..MaxRestart
    BY LogAssumption DEF RingInit, Index
  <2> QED BY <2>1, <2>2 DEF RingInit, RingTypeOK
<1>2. WriterInv /\ Started /\ RoomKept
  BY DEF RingInit, WriterInv, Started, RoomKept
<1> QED BY <1>1, <1>2 DEF RingInv

(* And they go on to fit.                                                  *)
LEMMA NextRing ==
  RingInv /\ [RingNext]_ringVars => RingInv'
BY WrInitStep, MarkValidStep, PutStringStep, CopyByteStep, PublishStep, RestartStep, RdInitStep,
   PollStep, TakeByteStep, PrintLineStep, StutterStep DEF RingNext, Writer, Reader

(* Unless a message fills the ring to its last byte, the core that prints  *)
(* (appLogWrPutString) and the one with the console (appLogRdGetString)    *)
(* never touch one byte, though they share no lock: whatever memory held   *)
(* at first, wherever the ring wraps and whenever the writer restarts.     *)
THEOREM BytesKeptApart == RingSpec => []LogInv
<1>1. RingInv => LogInv
  BY BytesApart
<1> QED BY <1>1, InitRing, NextRing, PTL DEF RingSpec

-----------------------------------------------------------------------------
(* A place in the log: a byte of an accepted message or the NUL after it,  *)
(* and the place one comes to after the last.                              *)
Places == {p \in (1..Len(accepted)) \X (Nat \ {0}) : p[2] <= Len(accepted[p[1]]) + 1}
EndOfLog == <<Len(accepted) + 1, 1>>
Following(p) == IF p[2] <= Len(accepted[p[1]]) THEN <<p[1], p[2] + 1>> ELSE <<p[1] + 1, 1>>
IsChar(p) == p[2] <= Len(accepted[p[1]]) /\ accepted[p[1]][p[2]] = "char"
ByteAt(p) ==
  IF p[2] <= Len(accepted[p[1]])
  THEN [msg |-> p[1], at |-> p[2], eol |-> accepted[p[1]][p[2]] = "eol"]
  ELSE Nul
LineBegins(p) == p[2] = 1 \/ accepted[p[1]][p[2] - 1] = "eol"

(* Where the reader is or will begin, how much it has yet to print, and    *)
(* how much of it it has taken.                                            *)
Start == IF reading = "OFF" THEN 0 ELSE Wrapped(rd)
Unseen == Distance(Start, wr)
Passed == Distance(Start, Wrapped(next))

(* f says for every byte between the indices which place of the log it is: *)
(* one follows the other, and the last is the end of a message.            *)
IsStream(f) ==
  /\ f \in [0..Unseen -> Places \cup {EndOfLog}]
  /\ f[Unseen] = EndOfLog
  /\ \A k \in 0..(Unseen - 1) :
       /\ f[k] \in Places
       /\ f[k + 1] = Following(f[k])
       /\ mem[(Start + k) % Size] = ByteAt(f[k])

(* The line the reader is at begins where it has begun to read, has been   *)
(* taken as far as the reader has come, and is not finished while bytes    *)
(* are left to take, the last of which is a NUL.                           *)
LineSoFar(f) ==
  /\ f[Len(line)] = <<f[0][1], f[0][2] + Len(line)>>
  /\ \A k \in 1..Len(line) :
       LET p == <<f[0][1], f[0][2] + k - 1>>
       IN  IsChar(p) /\ line[k] = ByteAt(p)
IsReading(f) ==
  /\ reading = "COPY" =>
       /\ Passed = Len(line) /\ LineSoFar(f)
       /\ LET p == f[Passed + left - 1] IN p[2] = Len(accepted[p[1]]) + 1
  /\ reading = "PRINT" =>
       /\ Passed = Len(line) + 1 /\ LineSoFar(f)
       /\ ~IsChar(f[Len(line)])

(* The printed lines are those that begin before q.                        *)
PrintedUpTo(q) ==
  /\ \A i \in DOMAIN printed :
       Len(printed[i]) # 0 /\ \E p \in Begins : IsLineAt(printed[i], p) /\ Before(p, q)
  /\ \A i, j \in DOMAIN printed : \A p, r \in Begins :
       i < j /\ IsLineAt(printed[i], p) /\ IsLineAt(printed[j], r) => Before(p, r)
  /\ \A p \in Begins : Before(p, q) => \E i \in DOMAIN printed : IsLineAt(printed[i], p)

(* The message the writer is at work on, as far as it is written.          *)
Written ==
  writing \in {"COPY", "PUBLISH"} =>
    \A k \in 1..(at - 1) :
      mem[(wr + k - 1) % Size] =
        IF k <= Len(text) THEN [msg |-> Len(accepted) + 1, at |-> k, eol |-> text[k] = "eol"]
                          ELSE Nul
Short == \A m \in 1..Len(accepted) : Len(accepted[m]) < Size

StreamTypes ==
  /\ Len(accepted) <= MaxMsg
  /\ line \in Seq(Byte \cup {Nul, Old})
  /\ printed \in Seq(Seq(Byte \cup {Nul, Old}))
  /\ ~valid => accepted = <<>> /\ printed = <<>>
  /\ writing = "COPY" => at <= Len(text) + 1
  /\ writing = "PUBLISH" => at = Len(text) + 2

Streamed == \E f : IsStream(f) /\ LineBegins(f[0]) /\ IsReading(f) /\ PrintedUpTo(f[0])

StreamInv == StreamTypes /\ (valid /\ ~brimful => Short /\ Written /\ Streamed)

(* Counting on from a place, once round at most.                           *)
LEMMA CountOn ==
  ASSUME NEW s \in Place, NEW k \in 0..Size
  PROVE  /\ (s + k) % Size = IF s + k < Size THEN s + k ELSE s + k - Size
         /\ (s + k) % Size \in Place
<1>1. PICK x \in 0..(2 * Size - 1) : x = s + k
  BY LogAssumption DEF Place
<1>2. x % Size = IF x < Size THEN x ELSE x - Size
  BY Around
<1>3. x % Size \in Place
  BY <1>1, <1>2, LogAssumption DEF Place
<1>4. (s + k) % Size = x % Size
  BY <1>1
<1> QED BY <1>1, <1>2, <1>3, <1>4, LogAssumption DEF Place

(* Counting on twice.                                                      *)
LEMMA CountTwice ==
  ASSUME NEW s \in Place, NEW j \in Nat, NEW k \in Nat, j + k <= Size,
         NEW t \in Place, t = (s + j) % Size
  PROVE  (t + k) % Size = (s + (j + k)) % Size
<1>1. j \in 0..Size /\ k \in 0..Size /\ j + k \in 0..Size
  BY LogAssumption
<1>2. t = IF s + j < Size THEN s + j ELSE s + j - Size
  BY <1>1, CountOn
<1>3. (t + k) % Size = IF t + k < Size THEN t + k ELSE t + k - Size
  BY <1>1, CountOn
<1>4. PICK m \in 0..Size : m = j + k
  BY <1>1
<1>5. (s + m) % Size = IF s + m < Size THEN s + m ELSE s + m - Size
  BY CountOn
<1>6. (s + (j + k)) % Size = IF s + (j + k) < Size THEN s + (j + k) ELSE s + (j + k) - Size
  BY <1>4, <1>5
<1> QED BY <1>2, <1>3, <1>6, LogAssumption DEF Place

(* Different distances lead to different places.                           *)
LEMMA CountApart ==
  ASSUME NEW s \in Place, NEW j \in Place, NEW k \in Place, j # k
  PROVE  (s + j) % Size # (s + k) % Size
<1>1. j \in 0..Size /\ k \in 0..Size
  BY LogAssumption DEF Place
<1>2. /\ (s + j) % Size = IF s + j < Size THEN s + j ELSE s + j - Size
      /\ (s + k) % Size = IF s + k < Size THEN s + k ELSE s + k - Size
  BY <1>1, CountOn
<1> QED BY <1>2, LogAssumption DEF Place

(* A place is the other end of a distance.                                 *)
LEMMA DistanceLeads ==
  ASSUME NEW a \in Place, NEW b \in Place
  PROVE  Distance(a, b) \in Place /\ b = (a + Distance(a, b)) % Size
<1>1. Distance(a, b) \in Place
  BY LogAssumption DEF Distance, Place
<1>2. PICK k \in 0..Size : k = Distance(a, b)
  BY <1>1, LogAssumption DEF Place
<1>3. (a + k) % Size = IF a + k < Size THEN a + k ELSE a + k - Size
  BY CountOn
<1>4. b = IF a + k < Size THEN a + k ELSE a + k - Size
  BY <1>2, LogAssumption DEF Distance, Place
<1> QED BY <1>1, <1>2, <1>3, <1>4

(* Where the reader is, and what there is to print.                        *)
LEMMA StreamBounds ==
  ASSUME RingInv, valid, ~brimful
  PROVE  /\ Start \in Place /\ wr \in Place /\ Unseen \in Place
         /\ wr = (Start + Unseen) % Size
         /\ writing \in {"COPY", "PUBLISH"} => Len(text) \in Nat /\ Len(text) + 1 <= Size - Unseen
         /\ reading = "COPY" => left \in Nat \ {0} /\ Passed \in Nat /\ Passed + left <= Unseen
         /\ reading = "PRINT" => Passed \in Nat /\ Passed <= Unseen
<1>1. wr \in Place /\ rd \in Index /\ next \in Index /\ left \in Index
  BY DEF RingInv, RingTypeOK, Started
<1>2. Wrapped(rd) \in Place /\ Wrapped(next) \in Place /\ 0 \in Place
  BY <1>1, WrappedPlace, LogAssumption DEF Place
<1>3. Start \in Place
  BY <1>2 DEF Start
<1>4. Unseen \in Place /\ wr = (Start + Unseen) % Size
  BY <1>1, <1>3, DistanceLeads DEF Unseen
<1>5. ASSUME writing \in {"COPY", "PUBLISH"}
      PROVE  Len(text) \in Nat /\ Len(text) + 1 <= Size - Unseen
  <2>1. Len(text) \in Nat /\ Len(text) + 1 <= Size - Distance(Wrapped(rd), wr)
    BY <1>5, TextLength DEF RingInv, WriterInv, RoomKept
  <2>2. reading = "OFF" => Wrapped(rd) = 0 \/ wr < Wrapped(rd)
    BY DEF RingInv, RoomKept
  <2>3. CASE reading = "OFF"
    <3>1. Unseen = wr
      BY <1>1, <2>3, LogAssumption DEF Unseen, Start, Distance, Place
    <3> QED BY <1>1, <1>2, <2>1, <2>2, <2>3, <3>1, LogAssumption DEF Distance, Place
  <2>4. CASE reading # "OFF"
    BY <2>1, <2>4 DEF Unseen, Start
  <2> QED BY <2>3, <2>4
<1>6. ASSUME reading = "COPY"
      PROVE  left \in Nat \ {0} /\ Passed \in Nat /\ Passed + left <= Unseen
  <2>1. Start = Wrapped(rd)
    BY <1>6 DEF Start
  <2>2. Passed \in Place
    BY <1>2, <1>3, DistanceLeads DEF Passed
  <2> QED BY <1>1, <1>6, <2>1, <2>2 DEF RingInv, RoomKept, Started, Passed, Unseen, Index, Place
<1>7. ASSUME reading = "PRINT"
      PROVE  Passed \in Nat /\ Passed <= Unseen
  <2>1. Start = Wrapped(rd)
    BY <1>7 DEF Start
  <2>2. Passed \in Place
    BY <1>2, <1>3, DistanceLeads DEF Passed
  <2> QED BY <1>7, <2>1, <2>2 DEF RingInv, RoomKept, Passed, Unseen, Place
<1> QED BY <1>1, <1>3, <1>4, <1>5, <1>6, <1>7

(* Places are pairs of numbers.                                            *)
LEMMA PlaceNumbers ==
  ASSUME RingInv, NEW p \in Places \cup {EndOfLog}
  PROVE  /\ p = <<p[1], p[2]>> /\ p[1] \in Nat \ {0} /\ p[2] \in Nat \ {0}
         /\ Len(accepted) \in Nat
         /\ p \in Places => /\ p[1] \in 1..Len(accepted) /\ accepted[p[1]] \in Seq({"char", "eol"})
                            /\ p[2] <= Len(accepted[p[1]]) + 1
<1>1. accepted \in Seq(Text)
  BY DEF RingInv, WriterInv
<1>2. \A m \in 1..Len(accepted) : accepted[m] \in Seq({"char", "eol"})
  BY <1>1, LogAssumption
<1> QED BY <1>1, <1>2 DEF Places, EndOfLog

(* What was printed depends on the messages and the lines only.            *)
LEMMA PrintedStays ==
  ASSUME UNCHANGED <<accepted, printed>>, NEW q, PrintedUpTo(q)
  PROVE  PrintedUpTo(q)'
<1>1. Begins' = Begins
  BY DEF Begins
<1>2. \A l, p : IsLineAt(l, p)' <=> IsLineAt(l, p)
  BY DEF IsLineAt
<1>3. \A l, p : Before(l, p)' <=> Before(l, p)
  BY DEF Before
<1> QED BY <1>1, <1>2, <1>3 DEF PrintedUpTo

(* Steps the log does not see.                                             *)
LEMMA StreamStays ==
  ASSUME StreamInv, StreamTypes', valid /\ ~brimful => Written',
         UNCHANGED <<mem, wr, rd, valid, accepted, brimful, reading, next, left, line, printed>>
  PROVE  StreamInv'
<1>1. SUFFICES ASSUME valid, ~brimful PROVE Short' /\ Streamed'
  BY DEF StreamInv
<1>2. Short'
  BY <1>1 DEF StreamInv, Short
<1>3. PICK f : IsStream(f) /\ LineBegins(f[0]) /\ IsReading(f) /\ PrintedUpTo(f[0])
  BY <1>1 DEF StreamInv, Streamed
<1>4. IsStream(f)'
  BY <1>3 DEF IsStream, Places, EndOfLog, Following, ByteAt, Unseen, Start, Distance, Wrapped
<1>5. LineBegins(f[0])'
  BY <1>3 DEF LineBegins
<1>6. IsReading(f)'
  BY <1>3 DEF IsReading, LineSoFar, Passed, Start, Distance, Wrapped, IsChar, ByteAt
<1>7. PrintedUpTo(f[0])'
  BY <1>3, PrintedStays
<1> QED BY <1>2, <1>4, <1>5, <1>6, <1>7 DEF Streamed

(* A step that changes nothing.                                            *)
LEMMA StutterStream ==
  ASSUME StreamInv, UNCHANGED ringVars PROVE StreamInv'
<1>1. StreamTypes'
  BY DEF StreamInv, StreamTypes, ringVars
<1>2. valid /\ ~brimful => Written'
  BY DEF StreamInv, Written, ringVars
<1> QED BY <1>1, <1>2, StreamStays DEF ringVars

(* A writer that starts again leaves the log as it is.                     *)
LEMMA RestartStream ==
  ASSUME StreamInv, RestartWriter PROVE StreamInv'
<1>1. StreamTypes' /\ Written'
  BY DEF StreamInv, StreamTypes, Written, RestartWriter, readerVars
<1> QED BY <1>1, StreamStays DEF RestartWriter, readerVars

(* A message begun is not yet in the log.                                  *)
LEMMA PutStringStream ==
  ASSUME RingInv, StreamInv, NEW t \in Text, PutString(t) PROVE StreamInv'
<1>1. StreamTypes'
  BY TextLength DEF StreamInv, StreamTypes, PutString, readerVars
<1>2. Written'
  BY DEF Written, PutString
<1> QED BY <1>1, <1>2, StreamStays DEF PutString, readerVars

(* The writer finds the log as it left it, or there is none yet.           *)
LEMMA WrInitStream ==
  ASSUME StreamInv, WrInit PROVE StreamInv'
<1>1. StreamTypes'
  BY DEF StreamInv, StreamTypes, WrInit, readerVars
<1>2. Written'
  BY DEF Written, WrInit
<1>3. CASE valid
  BY <1>1, <1>2, <1>3, StreamStays DEF WrInit, readerVars
<1>4. CASE ~valid
  BY <1>1, <1>4 DEF StreamInv, WrInit
<1> QED BY <1>3, <1>4

(* An empty log.                                                           *)
LEMMA MarkValidStream ==
  ASSUME RingInv, StreamInv, MarkValid PROVE StreamInv'
<1>1. ~valid /\ wr = 0 /\ reading \in {"OFF", "IDLE"} /\ (reading = "IDLE" => rd = 0)
  BY DEF RingInv, Started, MarkValid
<1>2. accepted = <<>> /\ printed = <<>> /\ accepted' = <<>> /\ printed' = <<>>
  BY <1>1 DEF StreamInv, StreamTypes, MarkValid, readerVars
<1>3. StreamTypes' /\ Written' /\ Short'
  BY <1>2 DEF StreamInv, StreamTypes, Written, Short, MarkValid, readerVars
<1>4. Streamed'
  <2> DEFINE f == [k \in 0..0 |-> <<1, 1>>]
  <2>1. Start' = 0 /\ Unseen' = 0
    BY <1>1, LogAssumption DEF Start, Unseen, Distance, Wrapped, MarkValid, readerVars
  <2>2. EndOfLog' = <<1, 1>> /\ f[0] = <<1, 1>> /\ 0..(0 - 1) = {}
    BY <1>2 DEF EndOfLog
  <2>3. IsStream(f)'
    BY <2>1, <2>2 DEF IsStream
  <2>4. LineBegins(f[0])'
    BY <2>2 DEF LineBegins
  <2>5. IsReading(f)'
    BY <1>1 DEF IsReading, MarkValid, readerVars
  <2>6. PrintedUpTo(f[0])'
    <3>1. Begins' = {} /\ DOMAIN printed' = {}
      BY <1>2 DEF Begins
    <3> QED BY <3>1 DEF PrintedUpTo
  <2> QED BY <2>3, <2>4, <2>5, <2>6 DEF Streamed
<1> QED BY <1>3, <1>4 DEF StreamInv

(* The writer writes beside what is to be printed.                         *)
LEMMA CopyByteStream ==
  ASSUME RingInv, StreamInv, CopyByte PROVE StreamInv'
<1> DEFINE new == IF at <= Len(text)
                  THEN [msg |-> Len(accepted) + 1, at |-> at, eol |-> text[at] = "eol"]
                  ELSE Nul
<1>1. /\ writing = "COPY" /\ writing' \in {"COPY", "PUBLISH"} /\ at' = at + 1
      /\ mem' = [mem EXCEPT ![(wr + at - 1) % Size] = new]
      /\ at <= Len(text) => writing' = "COPY"
      /\ ~(at <= Len(text)) => writing' = "PUBLISH"
      /\ UNCHANGED <<wr, rd, valid, text, accepted, brimful, reading, next, left, line, printed>>
  BY DEF CopyByte, Put, readerVars
<1>2. Len(text) \in Nat /\ at \in Nat \ {0} /\ at <= Len(text) + 1
  BY <1>1, TextLength DEF RingInv, WriterInv, StreamInv, StreamTypes
<1>3. StreamTypes'
  BY <1>1, <1>2 DEF StreamInv, StreamTypes
<1>4. SUFFICES ASSUME valid, ~brimful PROVE Short' /\ Written' /\ Streamed'
  BY <1>1, <1>3 DEF StreamInv
<1>5. Short'
  BY <1>1, <1>4 DEF StreamInv, Short
<1>6. /\ Start \in Place /\ wr \in Place /\ Unseen \in Place /\ wr = (Start + Unseen) % Size
      /\ Len(text) + 1 <= Size - Unseen
  BY <1>1, <1>4, StreamBounds
<1>7. mem \in [Place -> Byte \cup {Nul, Old}]
  BY DEF RingInv, RingTypeOK
<1>8. Written'
  <2>1. SUFFICES ASSUME NEW k \in 1..at
                 PROVE  mem'[(wr + k - 1) % Size] =
                          IF k <= Len(text)
                          THEN [msg |-> Len(accepted) + 1, at |-> k, eol |-> text[k] = "eol"]
                          ELSE Nul
    BY <1>1, <1>2 DEF Written
  <2>2. at - 1 \in Place /\ k - 1 \in Place /\ at - 1 \in 0..Size /\ k - 1 \in 0..Size
    BY <1>2, <1>6, LogAssumption DEF Place
  <2>3. wr + k - 1 = wr + (k - 1) /\ wr + at - 1 = wr + (at - 1)
    BY <1>2, <1>6 DEF Place
  <2>4. (wr + (at - 1)) % Size \in Place /\ (wr + (k - 1)) % Size \in Place
    BY <1>6, <2>2, CountOn
  <2>5. CASE k = at
    BY <1>1, <1>7, <2>3, <2>4, <2>5
  <2>6. CASE k # at
    <3>1. at - 1 # k - 1 /\ k \in 1..(at - 1)
      BY <1>2, <2>6
    <3>2. (wr + (at - 1)) % Size # (wr + (k - 1)) % Size
      BY <1>6, <2>2, <3>1, CountApart
    <3>3. mem'[(wr + k - 1) % Size] = mem[(wr + k - 1) % Size]
      BY <1>1, <1>7, <2>3, <2>4, <3>2
    <3> QED BY <1>1, <1>4, <3>1, <3>3 DEF StreamInv, Written
  <2> QED BY <2>5, <2>6
<1>9. Streamed'
  <2>1. PICK f : IsStream(f) /\ LineBegins(f[0]) /\ IsReading(f) /\ PrintedUpTo(f[0])
    BY <1>4 DEF StreamInv, Streamed
  <2>2. ASSUME NEW k \in 0..(Unseen - 1) PROVE mem'[(Start + k) % Size] = mem[(Start + k) % Size]
    <3>1. k \in Place /\ k \in 0..Size /\ at - 1 \in Nat /\ Unseen + (at - 1) <= Size
          /\ Unseen + (at - 1) \in Place /\ k # Unseen + (at - 1) /\ Unseen \in Nat
      BY <1>2, <1>6, <2>2, LogAssumption DEF Place
    <3>2. wr + at - 1 = wr + (at - 1)
      BY <1>2, <1>6 DEF Place
    <3>3. (wr + (at - 1)) % Size = (Start + (Unseen + (at - 1))) % Size
      <4>1. PICK m \in Nat : m = at - 1
        BY <3>1
      <4>2. PICK s \in Place : s = Start
        BY <1>6
      <4>3. (wr + m) % Size = (s + (Unseen + m)) % Size
        <5>1. wr = (s + Unseen) % Size /\ wr \in Place /\ Unseen + m <= Size /\ Unseen \in Nat
          BY <1>6, <3>1, <4>1, <4>2
        <5> QED BY <5>1, CountTwice
      <4> QED BY <4>1, <4>2, <4>3
    <3>4. (Start + k) % Size # (Start + (Unseen + (at - 1))) % Size
      BY <1>6, <3>1, CountApart
    <3>5. (Start + k) % Size \in Place
      BY <1>6, <3>1, CountOn
    <3> QED BY <1>1, <1>7, <3>2, <3>3, <3>4, <3>5
  <2>3. Start' = Start /\ Unseen' = Unseen
    BY <1>1 DEF Start, Unseen, Distance, Wrapped
  <2>4. IsStream(f)'
    BY <1>1, <2>1, <2>2, <2>3 DEF IsStream, Places, EndOfLog, Following, ByteAt
  <2>5. LineBegins(f[0])'
    BY <1>1, <2>1 DEF LineBegins
  <2>6. IsReading(f)'
    BY <1>1, <2>1 DEF IsReading, LineSoFar, Passed, Start, Distance, Wrapped, IsChar, ByteAt
  <2>7. PrintedUpTo(f[0])'
    BY <1>1, <2>1, PrintedStays
  <2> QED BY <2>4, <2>5, <2>6, <2>7 DEF Streamed
<1> QED BY <1>5, <1>8, <1>9

(* The reader begins where the log begins.                                 *)
LEMMA RdInitStream ==
  ASSUME RingInv, StreamInv, RdInit PROVE StreamInv'
<1>1. /\ reading = "OFF" /\ reading' = "IDLE" /\ rd' = 0
      /\ UNCHANGED <<mem, wr, valid, brimful, next, left, line, printed, writing, text, at, accepted>>
  BY DEF RdInit, writerVars
<1>2. StreamTypes'
  BY <1>1 DEF StreamInv, StreamTypes
<1>3. SUFFICES ASSUME valid, ~brimful PROVE Short' /\ Written' /\ Streamed'
  BY <1>1, <1>2 DEF StreamInv
<1>4. Short' /\ Written'
  BY <1>1, <1>3 DEF StreamInv, Short, Written
<1>5. PICK f : IsStream(f) /\ LineBegins(f[0]) /\ IsReading(f) /\ PrintedUpTo(f[0])
  BY <1>3 DEF StreamInv, Streamed
<1>6. Start' = Start /\ Unseen' = Unseen
  BY <1>1, LogAssumption DEF Start, Unseen, Distance, Wrapped
<1>7. IsStream(f)'
  BY <1>1, <1>5, <1>6 DEF IsStream, Places, EndOfLog, Following, ByteAt
<1>8. LineBegins(f[0])' /\ IsReading(f)'
  BY <1>1, <1>5 DEF LineBegins, IsReading
<1>9. PrintedUpTo(f[0])'
  BY <1>1, <1>5, PrintedStays
<1> QED BY <1>4, <1>7, <1>8, <1>9 DEF Streamed

(* The place before the end of the log is a NUL.                           *)
LEMMA LastIsNul ==
  ASSUME RingInv, NEW p \in Places, Following(p) = EndOfLog
  PROVE  p[2] = Len(accepted[p[1]]) + 1
<1>1. /\ p[1] \in Nat \ {0} /\ p[2] \in Nat \ {0} /\ Len(accepted[p[1]]) \in Nat
      /\ p[2] <= Len(accepted[p[1]]) + 1
  BY PlaceNumbers
<1>2. CASE p[2] <= Len(accepted[p[1]])
  <2>1. p[2] + 1 = 1
    BY <1>2 DEF Following, EndOfLog
  <2> QED BY <1>1, <2>1
<1>3. CASE ~(p[2] <= Len(accepted[p[1]]))
  BY <1>1, <1>3
<1> QED BY <1>2, <1>3

(* The reader is to take up to the last NUL.                               *)
LEMMA PollStream ==
  ASSUME RingInv, StreamInv, Poll PROVE StreamInv'
<1>1. /\ reading = "IDLE" /\ valid /\ reading' = "COPY" /\ next' = rd /\ line' = <<>>
      /\ left' = Unread(wr, rd) /\ Unread(wr, rd) > 0
      /\ UNCHANGED <<mem, wr, rd, valid, brimful, printed, writing, text, at, accepted>>
  BY DEF Poll, writerVars
<1>2. StreamTypes'
  BY <1>1 DEF StreamInv, StreamTypes
<1>3. SUFFICES ASSUME ~brimful PROVE Short' /\ Written' /\ Streamed'
  BY <1>1, <1>2 DEF StreamInv
<1>4. Short' /\ Written'
  BY <1>1, <1>3 DEF StreamInv, Short, Written
<1>5. PICK f : IsStream(f) /\ LineBegins(f[0]) /\ IsReading(f) /\ PrintedUpTo(f[0])
  BY <1>1, <1>3 DEF StreamInv, Streamed
<1>6. Start' = Start /\ Unseen' = Unseen
  BY <1>1 DEF Start, Unseen, Distance, Wrapped
<1>7. Unread(wr, rd) = Unseen /\ Unseen \in Nat
  <2>1. wr \in Place /\ rd \in Index
    BY <1>1 DEF RingInv, RingTypeOK, Started
  <2> QED BY <1>1, <2>1, LogAssumption DEF Unseen, Start, Unread, Distance, Wrapped, Place, Index
<1>8. IsStream(f)'
  BY <1>1, <1>5, <1>6 DEF IsStream, Places, EndOfLog, Following, ByteAt
<1>9. LineBegins(f[0])'
  BY <1>1, <1>5 DEF LineBegins
<1>10. IsReading(f)'
  <2>1. Passed' = 0
    <3>1. rd \in Index
      BY DEF RingInv, RingTypeOK
    <3>2. Wrapped(rd) \in Place
      BY <3>1, WrappedPlace
    <3>3. Passed' = Distance(Wrapped(rd), Wrapped(rd))
      BY <1>1 DEF Passed, Start, Distance, Wrapped
    <3> QED BY <3>2, <3>3 DEF Distance, Place
  <2>2. Len(line') = 0
    BY <1>1
  <2>3. f[0] = <<f[0][1], f[0][2] + 0>>
    <3>1. f[0] \in Places \cup {EndOfLog}
      BY <1>5, <1>7 DEF IsStream
    <3> QED BY <3>1, PlaceNumbers
  <2>4. LineSoFar(f)'
    BY <2>2, <2>3 DEF LineSoFar
  <2>5. f[Unseen - 1][2] = Len(accepted[f[Unseen - 1][1]]) + 1
    <3>1. Unseen - 1 \in 0..(Unseen - 1) /\ (Unseen - 1) + 1 = Unseen
      BY <1>1, <1>7
    <3>2. f[Unseen - 1] \in Places /\ f[(Unseen - 1) + 1] = Following(f[Unseen - 1]) /\ f[Unseen] = EndOfLog
      BY <1>5, <3>1 DEF IsStream
    <3> QED BY <3>1, <3>2, LastIsNul
  <2>6. Passed' + left' - 1 = Unseen - 1
    BY <1>1, <1>7, <2>1
  <2> QED BY <1>1, <2>1, <2>2, <2>4, <2>5, <2>6 DEF IsReading
<1>11. PrintedUpTo(f[0])'
  BY <1>1, <1>5, PrintedStays
<1> QED BY <1>4, <1>8, <1>9, <1>10, <1>11 DEF Streamed

(* What a place holds ends the line, or goes on with it.                   *)
LEMMA EndsAt ==
  ASSUME RingInv, StreamTypes, NEW p \in Places
  PROVE  /\ Ends(ByteAt(p)) <=> ~IsChar(p)
         /\ ~IsChar(p) /\ p[2] <= Len(accepted[p[1]]) => accepted[p[1]][p[2]] = "eol"
         /\ ByteAt(p) \in Byte \cup {Nul}
<1>1. /\ p[1] \in 1..Len(accepted) /\ Len(accepted) \in Nat /\ p[2] \in Nat \ {0}
      /\ accepted[p[1]] \in Seq({"char", "eol"})
      /\ p[2] <= Len(accepted[p[1]]) => accepted[p[1]][p[2]] \in {"char", "eol"}
  BY PlaceNumbers
<1>2. p[1] \in 1..MaxMsg
  BY <1>1, LogAssumption DEF StreamTypes
<1>3. CASE p[2] <= Len(accepted[p[1]])
  <2>1. ByteAt(p) = [msg |-> p[1], at |-> p[2], eol |-> accepted[p[1]][p[2]] = "eol"]
    BY <1>3 DEF ByteAt
  <2>2. ByteAt(p) \in Byte /\ ByteAt(p).eol = (accepted[p[1]][p[2]] = "eol")
    BY <1>1, <1>2, <2>1 DEF Byte
  <2>3. ByteAt(p) # Nul /\ ByteAt(p) # Old
    BY <2>2, LogAssumption
  <2> QED BY <1>1, <1>3, <2>2, <2>3 DEF Ends, IsChar
<1>4. CASE ~(p[2] <= Len(accepted[p[1]]))
  BY <1>4 DEF ByteAt, Ends, IsChar
<1> QED BY <1>3, <1>4

(* A byte goes to the line, or ends it.                                    *)
LEMMA TakeByteStream ==
  ASSUME RingInv, StreamInv, TakeByte PROVE StreamInv'
<1> DEFINE b == mem[Wrapped(next)]
<1>1. /\ reading = "COPY" /\ valid
      /\ line' = IF Ends(b) THEN line ELSE Append(line, b)
      /\ reading' = IF Ends(b) \/ left = 1 THEN "PRINT" ELSE "COPY"
      /\ next' = Wrapped(next) + 1 /\ left' = left - 1
      /\ UNCHANGED <<mem, wr, rd, valid, brimful, printed, writing, text, at, accepted>>
  BY DEF TakeByte, writerVars, RingInv, Started
<1>2. Wrapped(next) \in Place /\ mem \in [Place -> Byte \cup {Nul, Old}]
  BY WrappedPlace DEF RingInv, RingTypeOK
<1>3. StreamTypes'
  BY <1>1, <1>2 DEF StreamInv, StreamTypes
<1>4. SUFFICES ASSUME ~brimful PROVE Short' /\ Written' /\ Streamed'
  BY <1>1, <1>3 DEF StreamInv
<1>5. Short' /\ Written'
  BY <1>1, <1>4 DEF StreamInv, Short, Written
<1>6. PICK f : IsStream(f) /\ LineBegins(f[0]) /\ IsReading(f) /\ PrintedUpTo(f[0])
  BY <1>1, <1>4 DEF StreamInv, Streamed
<1>7. Start' = Start /\ Unseen' = Unseen
  BY <1>1 DEF Start, Unseen, Distance, Wrapped
<1>8. /\ Start \in Place /\ Unseen \in Place
      /\ left \in Nat \ {0} /\ Passed \in Nat /\ Passed + left <= Unseen
  BY <1>1, <1>4, StreamBounds
<1>9. Passed' = Passed + 1
  <2>1. Passed = Distance(Start, Wrapped(next)) /\ Passed' = Distance(Start, Wrapped(next)')
    BY <1>7 DEF Passed, Distance
  <2>2. Wrapped(next)' = IF Wrapped(next) + 1 = Size THEN 0 ELSE Wrapped(next) + 1
    <3>1. PICK n \in Place : n = Wrapped(next)
      BY <1>2
    <3>2. Wrapped(next)' = IF n + 1 >= Size THEN 0 ELSE n + 1
      BY <1>1, <3>1 DEF Wrapped
    <3> QED BY <3>1, <3>2, LogAssumption DEF Place
  <2>3. Passed + 1 < Size
    BY <1>8, LogAssumption DEF Place
  <2>4. PICK n \in Place, m \in Place, s \in Place :
           /\ n = Wrapped(next) /\ m = Wrapped(next)' /\ s = Start
           /\ m = IF n + 1 = Size THEN 0 ELSE n + 1
    BY <1>2, <1>8, <2>2, LogAssumption DEF Place
  <2>5. Distance(s, n) + 1 < Size
    BY <2>1, <2>3, <2>4
  <2>6. Distance(s, m) = Distance(s, n) + 1
    BY <2>4, <2>5, LogAssumption DEF Distance, Place
  <2> QED BY <2>1, <2>4, <2>6
<1> DEFINE q == f[0]
           e == f[Passed]
<1>10. /\ Passed = Len(line) /\ e \in Places /\ f[Passed + 1] = Following(e) /\ b = ByteAt(e)
       /\ e = <<q[1], q[2] + Len(line)>>
  <2>1. Passed \in 0..(Unseen - 1)
    BY <1>8 DEF Place
  <2>2. Wrapped(next) = (Start + Passed) % Size
    BY <1>2, <1>8, DistanceLeads DEF Passed
  <2> QED BY <1>1, <1>6, <2>1, <2>2 DEF IsStream, IsReading, LineSoFar
<1>11. IsStream(f)'
  BY <1>1, <1>6, <1>7 DEF IsStream, Places, EndOfLog, Following, ByteAt
<1>12. LineBegins(f[0])'
  BY <1>1, <1>6 DEF LineBegins
<1>13. PrintedUpTo(f[0])'
  BY <1>1, <1>6, PrintedStays
<1>14. Ends(b) <=> ~IsChar(e)
  BY <1>10, EndsAt DEF StreamInv
<1>15. \A p : (IsChar(p)' <=> IsChar(p)) /\ ByteAt(p)' = ByteAt(p)
  BY <1>1 DEF IsChar, ByteAt
<1>16. line \in Seq(Byte \cup {Nul, Old}) /\ q[1] \in Nat /\ q[2] \in Nat
  <2>1. f[0] \in Places \cup {EndOfLog}
    BY <1>6, <1>8 DEF IsStream, Place
  <2> QED BY <2>1, PlaceNumbers DEF StreamInv, StreamTypes
<1>17. IsReading(f)'
  <2>1. CASE Ends(b)
    <3>1. line' = line /\ reading' = "PRINT"
      BY <1>1, <2>1
    <3>2. LineSoFar(f)'
      BY <1>1, <1>6, <1>15, <3>1 DEF IsReading, LineSoFar
    <3> QED BY <1>9, <1>10, <1>14, <1>15, <2>1, <3>1, <3>2 DEF IsReading
  <2>2. CASE ~Ends(b)
    <3>1. left # 1
      <4>1. SUFFICES ASSUME left = 1 PROVE FALSE
        OBVIOUS
      <4>2. Passed + left - 1 = Passed
        BY <1>8, <4>1
      <4>3. e[2] = Len(accepted[e[1]]) + 1
        BY <1>1, <1>6, <4>2 DEF IsReading
      <4>4. IsChar(e) /\ Len(accepted[e[1]]) \in Nat
        BY <1>10, <1>14, <2>2, PlaceNumbers
      <4> QED BY <4>3, <4>4 DEF IsChar
    <3>2. reading' = "COPY" /\ line' = Append(line, b)
      BY <1>1, <2>2, <3>1
    <3>3. Len(line') = Len(line) + 1 /\ Len(line) \in Nat
          /\ line'[Len(line) + 1] = b /\ \A k \in 1..Len(line) : line'[k] = line[k]
      BY <1>2, <1>16, <3>2
    <3>4. IsChar(e)
      BY <1>14, <2>2
    <3>5. f[Len(line')] = <<q[1], q[2] + Len(line')>>
      <4>1. Following(e) = <<e[1], e[2] + 1>>
        BY <3>4 DEF Following, IsChar
      <4>2. PICK m \in Nat : m = Len(line)
        BY <3>3
      <4>3. e[1] = q[1] /\ e[2] = q[2] + m
        BY <1>10, <4>2
      <4>4. f[m + 1] = <<q[1], q[2] + m + 1>>
        BY <1>10, <4>1, <4>2, <4>3
      <4>5. q[2] + m + 1 = q[2] + (m + 1)
        BY <1>16, <4>2
      <4> QED BY <3>3, <4>2, <4>4, <4>5
    <3>6. ASSUME NEW k \in 1..Len(line')
          PROVE  IsChar(<<q[1], q[2] + k - 1>>) /\ line'[k] = ByteAt(<<q[1], q[2] + k - 1>>)
      <4>1. CASE k = Len(line) + 1
        <5>1. <<q[1], q[2] + k - 1>> = e
          BY <1>10, <1>16, <3>3, <4>1
        <5> QED BY <1>10, <3>3, <3>4, <4>1, <5>1
      <4>2. CASE k # Len(line) + 1
        <5>1. k \in 1..Len(line)
          BY <3>3, <4>2
        <5> QED BY <1>1, <1>6, <3>3, <5>1 DEF IsReading, LineSoFar
      <4> QED BY <4>1, <4>2
    <3>7. LineSoFar(f)'
      BY <1>15, <3>5, <3>6 DEF LineSoFar
    <3>8. Passed' + left' - 1 = Passed + left - 1
      BY <1>1, <1>8, <1>9
    <3>9. f[Passed + left - 1][2] = Len(accepted[f[Passed + left - 1][1]]) + 1
      BY <1>1, <1>6 DEF IsReading
    <3> QED BY <1>1, <1>9, <1>10, <3>2, <3>3, <3>7, <3>8, <3>9 DEF IsReading
  <2> QED BY <2>1, <2>2
<1> QED BY <1>5, <1>11, <1>12, <1>13, <1>17 DEF Streamed

(* The distance to a place counted on to.                                  *)
LEMMA DistanceBack ==
  ASSUME NEW s \in Place, NEW m \in Place, NEW t, t = (s + m) % Size
  PROVE  Distance(s, t) = m
<1>1. m \in 0..Size
  BY LogAssumption DEF Place
<1>2. t = IF s + m < Size THEN s + m ELSE s + m - Size
  BY <1>1, CountOn
<1> QED BY <1>2, LogAssumption DEF Distance, Place

(* One message more, at the end: what is accepted stays as it is.          *)
LEMMA OneMore ==
  ASSUME RingInv, text \in Text, accepted' = Append(accepted, text)
  PROVE  /\ Len(accepted) \in Nat /\ Len(accepted') = Len(accepted) + 1
         /\ accepted'[Len(accepted) + 1] = text
         /\ \A m \in 1..Len(accepted) : accepted'[m] = accepted[m]
BY DEF RingInv, WriterInv

(* What is in the log stays where it is when a message is added.           *)
LEMMA PlacesStay ==
  ASSUME RingInv, text \in Text, accepted' = Append(accepted, text), NEW p \in Places
  PROVE  /\ p \in Places'
         /\ Following(p)' = Following(p) /\ ByteAt(p)' = ByteAt(p)
         /\ IsChar(p)' <=> IsChar(p)
         /\ LineBegins(p)' <=> LineBegins(p)
<1>1. p[1] \in 1..Len(accepted) /\ p = <<p[1], p[2]>> /\ p[2] \in Nat \ {0}
      /\ p[2] <= Len(accepted[p[1]]) + 1
  BY PlaceNumbers
<1>2. Len(accepted) \in Nat /\ Len(accepted') = Len(accepted) + 1 /\ accepted'[p[1]] = accepted[p[1]]
  BY <1>1, OneMore
<1>3. p \in Places'
  <2>1. p[1] \in 1..Len(accepted')
    BY <1>1, <1>2
  <2> QED BY <1>1, <1>2, <2>1 DEF Places
<1> QED BY <1>2, <1>3 DEF Following, ByteAt, IsChar, LineBegins

(* The first byte of a line tells where the line begins.                   *)
LEMMA FirstByte ==
  ASSUME NEW l, Len(l) \in Nat, Len(l) # 0, NEW p, p[2] \in Nat,
         \A k \in 1..Len(l) : l[k] = [msg |-> p[1], at |-> p[2] + k - 1, eol |-> FALSE]
  PROVE  l[1].msg = p[1] /\ l[1].at = p[2]
<1>1. 1 \in 1..Len(l)
  OBVIOUS
<1>2. l[1] = [msg |-> p[1], at |-> p[2] + 1 - 1, eol |-> FALSE]
  BY <1>1
<1> QED BY <1>2

(* The lines of the new message come after those already printed.          *)
LEMMA PrintedOneMore ==
  ASSUME RingInv, StreamTypes, text \in Text, accepted' = Append(accepted, text), printed' = printed,
         NEW q \in Places \cup {EndOfLog}, PrintedUpTo(q)
  PROVE  PrintedUpTo(q)'
<1>1. /\ Len(accepted) \in Nat /\ Len(accepted') = Len(accepted) + 1
      /\ \A m \in 1..Len(accepted) : accepted'[m] = accepted[m]
  BY OneMore
<1>2. /\ q[1] \in Nat /\ q[2] \in Nat \ {0} /\ q[1] <= Len(accepted) + 1
      /\ q[1] = Len(accepted) + 1 => q[2] = 1
  BY <1>1, PlaceNumbers DEF EndOfLog
<1>3. ASSUME NEW p \in Begins
      PROVE  /\ p \in Begins'
             /\ \A l : IsLineAt(l, p)' <=> IsLineAt(l, p)
  <2>1. p \in (1..Len(accepted)) \X (1..Size) /\ p[1] \in 1..Len(accepted) /\ p[1] \in 1..Len(accepted')
        /\ p \in (1..Len(accepted')) \X (1..Size)
    BY <1>1 DEF Begins
  <2>2. accepted'[p[1]] = accepted[p[1]]
    BY <1>1, <2>1
  <2>3. p \in Begins'
    BY <2>1, <2>2 DEF Begins
  <2> QED BY <2>2, <2>3 DEF IsLineAt
<1>4. ASSUME NEW p \in Begins', p[1] \in 1..Len(accepted)
      PROVE  p \in Begins
  BY <1>1, <1>4 DEF Begins
<1>5. ASSUME NEW i \in DOMAIN printed, NEW p \in Begins', IsLineAt(printed[i], p)'
      PROVE  p \in Begins
  <2>1. PICK r \in Begins : IsLineAt(printed[i], r) /\ Len(printed[i]) # 0
    BY DEF PrintedUpTo
  <2>2. Len(printed[i]) \in Nat
    BY DEF StreamTypes
  <2>3. r[1] \in 1..Len(accepted) /\ r[2] \in Nat /\ p[2] \in Nat
    BY DEF Begins
  <2>4. printed[i][1].msg = r[1]
    BY <2>1, <2>2, <2>3, FirstByte DEF IsLineAt
  <2>5. \A k \in 1..Len(printed[i]) :
               printed[i][k] = [msg |-> p[1], at |-> p[2] + k - 1, eol |-> FALSE]
    BY <1>5 DEF IsLineAt
  <2>6. printed[i][1].msg = p[1]
    BY <2>1, <2>2, <2>3, <2>5, FirstByte
  <2> QED BY <1>4, <2>3, <2>4, <2>6
<1>6. ASSUME NEW p \in Begins', Before(p, q)
      PROVE  p \in Begins
  <2>1. p[1] \in 1..Len(accepted') /\ p[2] \in Nat \ {0}
    BY LogAssumption DEF Begins
  <2>2. p[1] \in 1..Len(accepted)
    BY <1>1, <1>2, <1>6, <2>1 DEF Before
  <2> QED BY <1>4, <2>2
<1>7. \A p, r : Before(p, r)' <=> Before(p, r)
  BY DEF Before
<1>8. ASSUME NEW i \in DOMAIN printed
      PROVE  Len(printed[i]) # 0 /\ \E p \in Begins' : IsLineAt(printed[i], p)' /\ Before(p, q)
  BY <1>3 DEF PrintedUpTo
<1>9. ASSUME NEW i \in DOMAIN printed, NEW j \in DOMAIN printed, NEW p \in Begins', NEW r \in Begins',
             i < j, IsLineAt(printed[i], p)', IsLineAt(printed[j], r)'
      PROVE  Before(p, r)
  <2>1. p \in Begins /\ r \in Begins
    BY <1>5, <1>9
  <2>2. IsLineAt(printed[i], p) /\ IsLineAt(printed[j], r)
    BY <1>3, <1>9, <2>1
  <2> QED BY <1>9, <2>1, <2>2 DEF PrintedUpTo
<1>10. ASSUME NEW p \in Begins', Before(p, q)
       PROVE  \E i \in DOMAIN printed : IsLineAt(printed[i], p)'
  <2>1. p \in Begins
    BY <1>6, <1>10
  <2> QED BY <1>3, <1>10, <2>1 DEF PrintedUpTo
<1> QED BY <1>7, <1>8, <1>9, <1>10 DEF PrintedUpTo

(* The new message follows what was to be printed.                         *)
LEMMA PublishStream ==
  ASSUME RingInv, StreamInv, Publish PROVE StreamInv'
<1>0. PICK N \in Nat, n \in Nat, U \in Nat : N = Len(accepted) /\ n = Len(text) + 1 /\ U = Unseen
  <2>1. Len(accepted) \in Nat /\ Len(text) \in Nat /\ valid /\ wr \in Place /\ rd \in Index
    BY TextLength DEF RingInv, WriterInv, Started, RingTypeOK, Publish
  <2>2. Start \in Place
    BY <2>1, WrappedPlace, LogAssumption DEF Start, Place
  <2>3. Unseen \in Place
    BY <2>1, <2>2, DistanceLeads DEF Unseen
  <2> QED BY <2>1, <2>3 DEF Place
<1>1. /\ text \in Text /\ Len(text) \in Nat \ {0} /\ valid /\ N < MaxMsg /\ at = n + 1
      /\ text \in Seq({"char", "eol"})
  BY <1>0, TextLength, LogAssumption DEF RingInv, WriterInv, Started, StreamInv, StreamTypes, Publish
<1>2. /\ writing = "PUBLISH" /\ wr' = (wr + n) % Size /\ writing' = "IDLE"
      /\ accepted' = Append(accepted, text)
      /\ brimful' = (brimful \/ wr' = Wrapped(rd))
      /\ UNCHANGED <<rd, valid, reading, next, left, line, printed, mem, at, text>>
  <2>1. wr + Len(text) + 1 = wr + n
    BY <1>0, <1>1 DEF RingInv, RingTypeOK, Index
  <2> QED BY <2>1 DEF Publish, Published, readerVars
<1>3. /\ N \in Nat /\ Len(accepted') = N + 1 /\ accepted'[N + 1] = text
      /\ \A m \in 1..N : accepted'[m] = accepted[m]
  BY <1>0, <1>1, <1>2, OneMore
<1>4. StreamTypes'
  BY <1>0, <1>1, <1>2, <1>3, LogAssumption DEF StreamInv, StreamTypes
<1>5. SUFFICES ASSUME ~brimful' PROVE Short' /\ Written' /\ Streamed'
  BY <1>4 DEF StreamInv
<1>6. ~brimful /\ wr' # Wrapped(rd)
  BY <1>2, <1>5
<1>7. /\ Start \in Place /\ wr \in Place /\ Unseen \in Place
      /\ wr = (Start + Unseen) % Size /\ n <= Size - U /\ U \in Place
      /\ reading = "COPY" => left \in Nat \ {0} /\ Passed \in Nat /\ Passed + left <= Unseen
      /\ reading = "PRINT" => Passed \in Nat /\ Passed <= Unseen
  BY <1>0, <1>1, <1>2, <1>6, StreamBounds
<1>8. Written'
  BY <1>2 DEF Written
<1>9. Short'
  <2>1. Len(text) < Size
    BY <1>0, <1>1, <1>7, LogAssumption DEF Place
  <2>2. ASSUME NEW m \in 1..N PROVE Len(accepted'[m]) < Size
    BY <1>0, <1>1, <1>3, <1>6 DEF StreamInv, Short
  <2> QED BY <1>3, <2>1, <2>2 DEF Short
<1>10. Start' = Start /\ U + n \in Place /\ wr' = (Start + (U + n)) % Size /\ Unseen' = U + n
  <2>1. Start' = Start
    BY <1>2 DEF Start, Wrapped
  <2>2. U \in Nat /\ n \in Nat /\ U + n <= Size
    BY <1>0, <1>1, <1>7, LogAssumption DEF Place
  <2>3. wr' = (Start + (U + n)) % Size
    <3>1. PICK s \in Place, u \in Nat, k \in Nat : s = Start /\ u = U /\ k = n
      BY <1>7, <2>2
    <3>2. (wr + k) % Size = (s + (u + k)) % Size
      <4>1. wr \in Place /\ wr = (s + u) % Size /\ u + k <= Size
        BY <1>0, <1>7, <2>2, <3>1
      <4> QED BY <4>1, CountTwice
    <3> QED BY <1>2, <3>1, <3>2
  <2>4. U + n # Size
    <3>1. SUFFICES ASSUME U + n = Size PROVE FALSE
      OBVIOUS
    <3>2. wr' = Start
      <4>1. PICK s \in Place, k \in 0..Size : s = Start /\ k = Size
        BY <1>7, LogAssumption
      <4>2. (s + k) % Size = IF s + k < Size THEN s + k ELSE s + k - Size
        BY CountOn
      <4>3. wr' = (s + k) % Size
        BY <2>3, <3>1, <4>1
      <4> QED BY <4>1, <4>2, <4>3, LogAssumption DEF Place
    <3>3. CASE reading # "OFF"
      BY <1>6, <3>2, <3>3 DEF Start
    <3>4. CASE reading = "OFF"
      <4>1. Wrapped(rd) \in Place /\ Start = 0
        BY <3>4, WrappedPlace DEF RingInv, RingTypeOK, Start
      <4>2. U = wr
        BY <1>0, <1>7, <4>1, LogAssumption DEF Unseen, Distance, Place
      <4>3. Wrapped(rd) = 0 \/ wr < Wrapped(rd)
        BY <1>1, <1>6, <3>4 DEF RingInv, RoomKept
      <4>4. n <= Size - Distance(Wrapped(rd), wr)
        BY <1>0, <1>1, <1>2, <1>6 DEF RingInv, RoomKept
      <4> QED BY <1>6, <1>7, <2>2, <3>1, <3>2, <4>1, <4>2, <4>3, <4>4, LogAssumption DEF Distance, Place
    <3> QED BY <3>3, <3>4
  <2>5. U + n \in Place
    BY <2>2, <2>4, LogAssumption DEF Place
  <2>6. Unseen' = U + n
    <3>1. Unseen' = Distance(Start, wr')
      BY <2>1 DEF Unseen, Distance
    <3> QED BY <1>7, <2>3, <2>5, <3>1, DistanceBack
  <2> QED BY <2>1, <2>3, <2>5, <2>6
<1>11. PICK f : IsStream(f) /\ LineBegins(f[0]) /\ IsReading(f) /\ PrintedUpTo(f[0])
  BY <1>1, <1>6 DEF StreamInv, Streamed
<1>12. /\ U \in Nat /\ n \in Nat \ {0, 1} /\ f[U] = <<N + 1, 1>> /\ EndOfLog = <<N + 1, 1>>
       /\ \A k \in 0..U : f[k] \in Places \cup {EndOfLog}
       /\ \A k \in 0..(U - 1) : /\ f[k] \in Places /\ f[k + 1] = Following(f[k])
                               /\ mem[(Start + k) % Size] = ByteAt(f[k])
  BY <1>0, <1>1, <1>7, <1>11 DEF IsStream, EndOfLog, Place
<1>13. ASSUME NEW j \in 1..n
       PROVE  /\ <<N + 1, j>> \in Places'
              /\ Following(<<N + 1, j>>)' = IF j < n THEN <<N + 1, j + 1>> ELSE <<N + 2, 1>>
              /\ mem[(Start + (U + (j - 1))) % Size] = ByteAt(<<N + 1, j>>)'
  <2>1. <<N + 1, j>> \in Places'
    <3>1. N + 1 \in 1..Len(accepted') /\ j \in Nat \ {0} /\ j <= Len(accepted'[N + 1]) + 1
      BY <1>0, <1>1, <1>3
    <3> QED BY <3>1 DEF Places
  <2>2. Following(<<N + 1, j>>)' = IF j < n THEN <<N + 1, j + 1>> ELSE <<N + 2, 1>>
    BY <1>0, <1>1, <1>3 DEF Following
  <2>3. (wr + j - 1) % Size = (Start + (U + (j - 1))) % Size
    <3>1. PICK s \in Place, u \in Nat, k \in Nat : s = Start /\ u = U /\ k = j - 1
      BY <1>7, <1>12
    <3>2. wr \in Place /\ wr = (s + u) % Size /\ u + k <= Size
      BY <1>0, <1>1, <1>7, <1>12, <3>1, LogAssumption DEF Place
    <3>3. (wr + k) % Size = (s + (u + k)) % Size
      BY <3>2, CountTwice
    <3>4. wr + j - 1 = wr + k
      BY <1>7, <3>1 DEF Place
    <3> QED BY <3>1, <3>3, <3>4
  <2>4. j \in 1..(at - 1)
    BY <1>1, <1>12
  <2>5. mem[(wr + j - 1) % Size] = IF j <= Len(text)
                                   THEN [msg |-> N + 1, at |-> j, eol |-> text[j] = "eol"] ELSE Nul
    BY <1>0, <1>1, <1>2, <1>6, <2>4 DEF StreamInv, Written
  <2>6. ByteAt(<<N + 1, j>>)' = IF j <= Len(text)
                                THEN [msg |-> N + 1, at |-> j, eol |-> text[j] = "eol"] ELSE Nul
    BY <1>3, <2>1 DEF ByteAt
  <2> QED BY <2>1, <2>2, <2>3, <2>5, <2>6
<1> DEFINE g == [k \in 0..(U + n) |-> IF k <= U THEN f[k] ELSE
                                      IF k < U + n THEN <<N + 1, k - U + 1>> ELSE <<N + 2, 1>>]
<1>14. /\ \A k \in 0..U : g[k] = f[k]
       /\ \A j \in 1..n : g[U + (j - 1)] = <<N + 1, j>>
       /\ g[U + n] = <<N + 2, 1>>
  <2>1. \A k \in 0..U : k \in 0..(U + n) /\ k <= U
    BY <1>12
  <2>2. ASSUME NEW j \in 1..n PROVE g[U + (j - 1)] = <<N + 1, j>>
    <3>1. U + (j - 1) \in 0..(U + n) /\ U + (j - 1) < U + n /\ (U + (j - 1)) - U + 1 = j
          /\ (U + (j - 1) <= U => j = 1 /\ U + (j - 1) = U)
      BY <1>12
    <3> QED BY <1>12, <3>1
  <2>3. U + n \in 0..(U + n) /\ ~(U + n <= U) /\ ~(U + n < U + n)
    BY <1>12
  <2> QED BY <2>1, <2>2, <2>3
<1>15. IsStream(g)'
  <2>1. EndOfLog' = <<N + 2, 1>>
    BY <1>3 DEF EndOfLog
  <2>2. ASSUME NEW k \in 0..(U - 1)
        PROVE  /\ g[k] \in Places' /\ g[k + 1] = Following(g[k])'
               /\ mem[(Start + k) % Size] = ByteAt(g[k])'
    <3>1. k \in 0..U /\ k + 1 \in 0..U
      BY <1>12
    <3>2. f[k] \in Places
      BY <1>12
    <3>3. f[k] \in Places' /\ Following(f[k])' = Following(f[k]) /\ ByteAt(f[k])' = ByteAt(f[k])
      BY <1>1, <1>2, <3>2, PlacesStay
    <3> QED BY <1>12, <1>14, <3>1, <3>3
  <2>3. ASSUME NEW j \in 1..n
        PROVE  /\ g[U + (j - 1)] \in Places' /\ g[U + (j - 1) + 1] = Following(g[U + (j - 1)])'
               /\ mem[(Start + (U + (j - 1))) % Size] = ByteAt(g[U + (j - 1)])'
    <3>1. g[U + (j - 1)] = <<N + 1, j>>
      BY <1>14
    <3>2. CASE j < n
      <4>1. j + 1 \in 1..n /\ U + (j - 1) + 1 = U + ((j + 1) - 1)
        BY <1>12, <3>2
      <4>2. g[U + ((j + 1) - 1)] = <<N + 1, j + 1>>
        BY <1>14, <4>1
      <4> QED BY <1>13, <3>1, <3>2, <4>1, <4>2
    <3>3. CASE ~(j < n)
      <4>1. U + (j - 1) + 1 = U + n
        BY <1>12, <3>3
      <4> QED BY <1>13, <1>14, <3>1, <3>3, <4>1
    <3> QED BY <3>2, <3>3
  <2>4. ASSUME NEW k \in 0..(U + n - 1)
        PROVE  /\ g[k] \in Places' /\ g[k + 1] = Following(g[k])'
               /\ mem[(Start + k) % Size] = ByteAt(g[k])'
    <3>1. CASE k \in 0..(U - 1)
      BY <2>2, <3>1
    <3>2. CASE k \notin 0..(U - 1)
      <4>1. PICK j \in 1..n : k = U + (j - 1)
        <5>1. k - U + 1 \in 1..n /\ k = U + ((k - U + 1) - 1)
          BY <1>12, <3>2
        <5> QED BY <5>1
      <4> QED BY <2>3, <4>1
    <3> QED BY <3>1, <3>2
  <2>5. g \in [0..(U + n) -> Places' \cup {EndOfLog'}]
    <3>1. ASSUME NEW k \in 0..(U + n) PROVE g[k] \in Places' \cup {EndOfLog'}
      <4>1. k = U + n \/ k \in 0..(U + n - 1)
        BY <1>12
      <4> QED BY <1>14, <2>1, <2>4, <4>1
    <3> QED BY <3>1
  <2> HIDE DEF g
  <2> QED BY <1>2, <1>10, <1>14, <2>1, <2>4, <2>5 DEF IsStream
<1>16. g[0] = f[0] /\ f[0] \in Places \cup {EndOfLog}
  BY <1>12, <1>14
<1>17. LineBegins(g[0])'
  <2>1. CASE f[0] \in Places
    <3>1. LineBegins(f[0])' <=> LineBegins(f[0])
      BY <1>1, <1>2, <2>1, PlacesStay
    <3> HIDE DEF g
    <3> QED BY <1>11, <1>16, <3>1
  <2>2. CASE f[0] = EndOfLog
    <3>1. f[0][2] = 1
      BY <2>2 DEF EndOfLog
    <3> HIDE DEF g
    <3> QED BY <1>16, <3>1 DEF LineBegins
  <2> QED BY <1>16, <2>1, <2>2
<1>18. PrintedUpTo(g[0])'
  BY <1>1, <1>2, <1>11, <1>16, PrintedOneMore DEF StreamInv
<1>19. IsReading(g)'
  <2>1. Passed' = Passed
    BY <1>2, <1>10 DEF Passed, Distance, Wrapped
  <2>2. ASSUME reading \in {"COPY", "PRINT"}
        PROVE  /\ f[0] \in Places /\ Len(line) \in 0..U
               /\ LineSoFar(f)
    <3>1. LineSoFar(f) /\ Len(line) \in Nat
      BY <1>11, <2>2 DEF IsReading, StreamInv, StreamTypes
    <3>2. Len(line) <= U /\ U # 0
      <4>1. reading = "COPY" => left \in Nat \ {0} /\ Passed = Len(line) /\ Passed + left <= U
        BY <1>0, <1>7, <1>11 DEF IsReading
      <4>2. reading = "PRINT" => Passed = Len(line) + 1 /\ Passed <= U
        BY <1>0, <1>7, <1>11 DEF IsReading
      <4> QED BY <2>2, <3>1, <4>1, <4>2
    <3>3. 0 \in 0..(U - 1)
      BY <3>2
    <3> QED BY <1>12, <3>1, <3>2, <3>3
  <2>3. ASSUME reading \in {"COPY", "PRINT"}
        PROVE  LineSoFar(g)'
    <3>1. f[0][1] \in 1..N
      BY <1>0, <2>2, <2>3, PlaceNumbers
    <3>2. \A i : /\ IsChar(<<f[0][1], i>>)' <=> IsChar(<<f[0][1], i>>)
                 /\ ByteAt(<<f[0][1], i>>)' = ByteAt(<<f[0][1], i>>)
      BY <1>3, <3>1 DEF IsChar, ByteAt
    <3>3. g[Len(line)] = f[Len(line)]
      BY <1>14, <2>2, <2>3
    <3> HIDE DEF g
    <3> QED BY <1>2, <1>16, <2>2, <2>3, <3>2, <3>3 DEF LineSoFar
  <2>4. ASSUME reading = "COPY"
        PROVE  g[Passed + left - 1][2] = Len(accepted'[g[Passed + left - 1][1]]) + 1
    <3>1. Passed + left - 1 \in 0..(U - 1) /\ Passed + left - 1 \in 0..U
      <4>1. left \in Nat \ {0} /\ Passed \in Nat /\ Passed + left <= U
        BY <1>0, <1>7, <2>4
      <4> QED BY <4>1
    <3>2. PICK p \in Places : p = f[Passed + left - 1] /\ p = g[Passed + left - 1]
      BY <1>12, <1>14, <3>1
    <3>3. p[2] = Len(accepted[p[1]]) + 1
      BY <1>11, <2>4, <3>2 DEF IsReading
    <3>4. p[1] \in 1..N
      BY <1>0, PlaceNumbers
    <3> QED BY <1>3, <3>2, <3>3, <3>4
  <2>5. ASSUME reading = "PRINT"
        PROVE  ~IsChar(g[Len(line)])'
    <3>1. Len(line) \in 0..(U - 1) /\ Len(line) \in 0..U
      BY <1>0, <1>7, <1>11, <1>12, <2>5 DEF IsReading, StreamInv, StreamTypes
    <3>2. f[Len(line)] \in Places /\ g[Len(line)] = f[Len(line)]
      BY <1>12, <1>14, <3>1
    <3>3. ~IsChar(f[Len(line)])
      BY <1>11, <2>5 DEF IsReading
    <3> HIDE DEF g
    <3> QED BY <1>1, <1>2, <3>2, <3>3, PlacesStay
  <2> HIDE DEF g
  <2> QED BY <1>2, <1>11, <2>1, <2>3, <2>4, <2>5 DEF IsReading
<1> QED BY <1>8, <1>9, <1>15, <1>17, <1>18, <1>19 DEF Streamed

(* Every place after q and before what follows the line begun at q.        *)
LEMMA LineCovers ==
  ASSUME RingInv, StreamTypes, Short, NEW q, NEW L \in Nat, q[1] \in Nat, q[2] \in Nat \ {0},
         q = <<q[1], q[2]>>, LineBegins(q),
         NEW e \in Places, e = <<q[1], q[2] + L>>, ~IsChar(e),
         \A k \in 1..L : IsChar(<<q[1], q[2] + k - 1>>)
  PROVE  /\ LineBegins(Following(e))
         /\ L = 0 => q \notin Begins
         /\ L # 0 => q \in Begins
         /\ Before(q, Following(e))
         /\ \A p : p[1] \in Nat /\ p[2] \in Nat /\ Before(p, q) => Before(p, Following(e))
         /\ \A p \in Begins : Before(p, Following(e)) => Before(p, q) \/ p = q
<1>1. /\ e[1] = q[1] /\ e[2] = q[2] + L /\ e[1] \in 1..Len(accepted) /\ e[2] <= Len(accepted[e[1]]) + 1
      /\ Len(accepted[e[1]]) \in Nat
  BY PlaceNumbers
<1>2. e[2] <= Len(accepted[e[1]]) => accepted[e[1]][e[2]] = "eol"
  BY EndsAt
<1>3. Following(e) = IF e[2] <= Len(accepted[e[1]]) THEN <<e[1], e[2] + 1>> ELSE <<e[1] + 1, 1>>
  BY DEF Following
<1>4. LineBegins(Following(e))
  <2>1. CASE e[2] <= Len(accepted[e[1]])
    <3>1. Following(e)[1] = e[1] /\ Following(e)[2] = e[2] + 1 /\ e[2] + 1 - 1 = e[2]
      BY <1>1, <1>3, <2>1
    <3> QED BY <1>2, <2>1, <3>1 DEF LineBegins
  <2>2. CASE ~(e[2] <= Len(accepted[e[1]]))
    BY <1>3, <2>2 DEF LineBegins
  <2> QED BY <2>1, <2>2
<1>5. ASSUME L = 0 PROVE q \notin Begins
  <2>1. e[1] = q[1] /\ e[2] = q[2]
    BY <1>1, <1>5
  <2> QED BY <2>1 DEF Begins, IsChar
<1>6. ASSUME L # 0 PROVE q \in Begins
  <2>1. 1 \in 1..L /\ q[2] + 1 - 1 = q[2]
    BY <1>6
  <2>2. IsChar(<<q[1], q[2]>>)
    BY <2>1
  <2>3. q[2] <= Len(accepted[q[1]]) /\ accepted[q[1]][q[2]] = "char"
    BY <2>2 DEF IsChar
  <2>4. Len(accepted[q[1]]) < Size
    BY <1>1 DEF Short
  <2>5. q \in (1..Len(accepted)) \X (1..Size)
    <3>1. q[1] \in 1..Len(accepted) /\ q[2] \in 1..Size
      BY <1>1, <2>3, <2>4, LogAssumption
    <3>2. q = <<q[1], q[2]>>
      OBVIOUS
    <3> QED BY <3>1, <3>2
  <2> QED BY <2>3, <2>5 DEF Begins, LineBegins
<1>7. ASSUME NEW p, p[1] \in Nat, p[2] \in Nat, Before(p, q)
      PROVE  Before(p, Following(e))
  <2>1. CASE e[2] <= Len(accepted[e[1]])
    <3>1. Following(e)[1] = q[1] /\ Following(e)[2] = e[2] + 1
      BY <1>1, <1>3, <2>1
    <3> QED BY <1>1, <1>7, <3>1 DEF Before
  <2>2. CASE ~(e[2] <= Len(accepted[e[1]]))
    <3>1. Following(e)[1] = q[1] + 1
      BY <1>1, <1>3, <2>2
    <3> QED BY <1>7, <3>1 DEF Before
  <2> QED BY <2>1, <2>2
<1>8. ASSUME NEW p \in Begins, Before(p, Following(e))
      PROVE  Before(p, q) \/ p = q
  <2>1. /\ p = <<p[1], p[2]>> /\ p[1] \in 1..Len(accepted) /\ p[2] \in Nat \ {0}
        /\ p[2] <= Len(accepted[p[1]]) /\ accepted[p[1]][p[2]] = "char"
        /\ p[2] = 1 \/ accepted[p[1]][p[2] - 1] = "eol"
    BY LogAssumption DEF Begins
  <2>2. SUFFICES ASSUME p[1] = q[1], p[2] > q[2] PROVE FALSE
    <3>1. p[1] < q[1] \/ p[1] = q[1]
      <4>1. CASE e[2] <= Len(accepted[e[1]])
        <5>1. Following(e)[1] = q[1]
          BY <1>1, <1>3, <4>1
        <5> QED BY <1>8, <5>1 DEF Before
      <4>2. CASE ~(e[2] <= Len(accepted[e[1]]))
        <5>1. Following(e)[1] = q[1] + 1 /\ Following(e)[2] = 1
          BY <1>1, <1>3, <4>2
        <5>2. p[1] < q[1] + 1
          BY <1>8, <2>1, <5>1 DEF Before
        <5> QED BY <2>1, <5>2
      <4> QED BY <4>1, <4>2
    <3>2. p[1] = q[1] /\ p[2] = q[2] => p = q
      <4>1. p = <<p[1], p[2]>> /\ q = <<q[1], q[2]>>
        BY <2>1
      <4> QED BY <4>1
    <3> QED BY <2>1, <3>1, <3>2 DEF Before
  <2>3. p[2] <= e[2]
    <3>1. p[1] = e[1]
      BY <1>1, <2>2
    <3>2. CASE e[2] <= Len(accepted[e[1]])
      <4>1. Following(e)[1] = e[1] /\ Following(e)[2] = e[2] + 1
        BY <1>3, <3>2
      <4> QED BY <1>1, <1>8, <2>1, <3>1, <4>1 DEF Before
    <3>3. CASE ~(e[2] <= Len(accepted[e[1]]))
      <4>1. p[2] <= Len(accepted[e[1]])
        BY <2>1, <3>1
      <4>2. e[2] \in Nat
        BY <1>1
      <4> QED BY <1>1, <2>1, <3>3, <4>1, <4>2
    <3> QED BY <3>2, <3>3
  <2>4. p[2] # e[2]
    BY <1>1, <2>1, <2>2 DEF IsChar
  <2>5. PICK k \in 1..L : p[2] - 1 = q[2] + k - 1
    <3>1. p[2] - q[2] \in 1..L /\ p[2] - 1 = q[2] + (p[2] - q[2]) - 1
      <4>1. PICK x \in Nat, y \in Nat : x = p[2] /\ y = q[2]
        BY <2>1
      <4>2. y < x /\ x <= y + L /\ x # y + L
        BY <1>1, <2>2, <2>3, <2>4, <4>1
      <4>3. x - y \in 1..L /\ x - 1 = y + (x - y) - 1
        BY <4>2
      <4> QED BY <4>1, <4>3
    <3> QED BY <3>1
  <2>6. accepted[q[1]][p[2] - 1] = "char"
    BY <2>5 DEF IsChar
  <2> QED BY <2>1, <2>2, <2>6
<1>9. Before(q, Following(e))
  BY <1>1, <1>3 DEF Before
<1> QED BY <1>4, <1>5, <1>6, <1>7, <1>8, <1>9

(* Where a line begins is a pair of numbers.                               *)
LEMMA BeginsNumbers ==
  ASSUME NEW p \in Begins
  PROVE  p = <<p[1], p[2]>> /\ p[1] \in Nat /\ p[2] \in Nat
BY LogAssumption DEF Begins

(* A line begins at one place.                                             *)
LEMMA OnePlace ==
  ASSUME NEW l, Len(l) \in Nat, Len(l) # 0, NEW p \in Begins, NEW r \in Begins,
         IsLineAt(l, p), IsLineAt(l, r)
  PROVE  p = r
<1>1. /\ p = <<p[1], p[2]>> /\ p[2] \in Nat
      /\ r = <<r[1], r[2]>> /\ r[2] \in Nat
  BY BeginsNumbers
<1>2. l[1].msg = p[1] /\ l[1].at = p[2]
  <2>1. \A k \in 1..Len(l) : l[k] = [msg |-> p[1], at |-> p[2] + k - 1, eol |-> FALSE]
    BY DEF IsLineAt
  <2> QED BY <1>1, <2>1, FirstByte
<1>3. l[1].msg = r[1] /\ l[1].at = r[2]
  <2>1. \A k \in 1..Len(l) : l[k] = [msg |-> r[1], at |-> r[2] + k - 1, eol |-> FALSE]
    BY DEF IsLineAt
  <2> QED BY <1>1, <2>1, FirstByte
<1> QED BY <1>1, <1>2, <1>3

(* The line goes to the console, and the log goes on after it.             *)
LEMMA PrintLineStream ==
  ASSUME RingInv, StreamInv, PrintLine PROVE StreamInv'
<1>1. /\ reading = "PRINT" /\ reading' = "IDLE" /\ valid /\ rd' = next
      /\ printed' = IF line = <<>> THEN printed ELSE Append(printed, line)
      /\ UNCHANGED <<mem, wr, valid, brimful, next, left, line, writing, text, at, accepted>>
  BY DEF PrintLine, writerVars, RingInv, Started
<1>2. line \in Seq(Byte \cup {Nul, Old}) /\ printed \in Seq(Seq(Byte \cup {Nul, Old}))
  BY DEF StreamInv, StreamTypes
<1>3. StreamTypes'
  BY <1>1, <1>2 DEF StreamInv, StreamTypes
<1>4. SUFFICES ASSUME ~brimful PROVE Short' /\ Written' /\ Streamed'
  BY <1>1, <1>3 DEF StreamInv
<1>5. Short' /\ Written'
  BY <1>1, <1>4 DEF StreamInv, Short, Written
<1>6. PICK f : IsStream(f) /\ LineBegins(f[0]) /\ IsReading(f) /\ PrintedUpTo(f[0])
  BY <1>1, <1>4 DEF StreamInv, Streamed
<1>7. /\ Start \in Place /\ wr \in Place /\ Unseen \in Place /\ Wrapped(next) \in Place
      /\ wr = (Start + Unseen) % Size
      /\ Passed \in Nat /\ Passed <= Unseen
  BY <1>1, <1>4, StreamBounds, WrappedPlace DEF RingInv, RingTypeOK
<1>8. PICK U \in Nat, T \in Nat, L \in Nat :
        /\ U = Unseen /\ T = Passed /\ L = Len(line) /\ T = L + 1 /\ T <= U
  <2>1. Len(line) \in Nat
    BY <1>2
  <2>2. Passed = Len(line) + 1
    BY <1>1, <1>6 DEF IsReading
  <2>3. Unseen \in Nat
    BY <1>7 DEF Place
  <2> QED BY <1>7, <2>1, <2>2, <2>3
<1> DEFINE q == f[0]
           e == f[L]
<1>9. /\ q \in Places /\ e \in Places /\ f[T] = Following(e)
      /\ e = <<q[1], q[2] + L>> /\ ~IsChar(e)
      /\ \A k \in 1..L : /\ IsChar(<<q[1], q[2] + k - 1>>)
                         /\ line[k] = ByteAt(<<q[1], q[2] + k - 1>>)
  <2>1. 0 \in 0..(U - 1) /\ L \in 0..(U - 1)
    BY <1>8
  <2> QED BY <1>1, <1>6, <1>8, <2>1 DEF IsStream, IsReading, LineSoFar
<1>10. q[1] \in Nat \ {0} /\ q[2] \in Nat \ {0} /\ q = <<q[1], q[2]>>
  BY <1>9, PlaceNumbers
<1>11. /\ LineBegins(f[T])
       /\ L = 0 => q \notin Begins
       /\ L # 0 => q \in Begins
       /\ Before(q, f[T])
       /\ \A p : p[1] \in Nat /\ p[2] \in Nat /\ Before(p, q) => Before(p, f[T])
       /\ \A p \in Begins : Before(p, f[T]) => Before(p, q) \/ p = q
  <2>1. StreamTypes /\ Short /\ LineBegins(q)
    BY <1>1, <1>4, <1>6 DEF StreamInv
  <2> HIDE DEF q, e
  <2> QED BY <1>9, <1>10, <2>1, LineCovers
<1>12. /\ Start' = Wrapped(next) /\ Unseen' = U - T
       /\ \A k \in 0..(U - T) : (Wrapped(next) + k) % Size = (Start + (k + T)) % Size
  <2>1. PICK s \in Place, t \in Place : s = Start /\ t = Wrapped(next)
    BY <1>7
  <2>2. t = (s + T) % Size
    BY <1>7, <1>8, <2>1, DistanceLeads DEF Passed
  <2>3. Start' = Wrapped(next)
    BY <1>1 DEF Start, Wrapped
  <2>4. ASSUME NEW k \in 0..(U - T) PROVE (t + k) % Size = (s + (k + T)) % Size
    <3>1. k \in Nat /\ T + k <= Size /\ k + T = T + k
      BY <1>7, <1>8, LogAssumption DEF Place
    <3>2. (t + k) % Size = (s + (T + k)) % Size
      BY <2>2, <3>1, CountTwice
    <3> QED BY <3>1, <3>2
  <2>5. wr = (t + (U - T)) % Size
    <3>1. U - T \in 0..(U - T) /\ (U - T) + T = U
      BY <1>8
    <3>2. (t + (U - T)) % Size = (s + ((U - T) + T)) % Size
      BY <2>4, <3>1
    <3> QED BY <1>7, <1>8, <2>1, <3>1, <3>2
  <2>6. U - T \in Place
    BY <1>7, <1>8, LogAssumption DEF Place
  <2>7. Unseen' = U - T
    <3>1. Unseen' = Distance(t, wr)
      BY <1>1, <2>1, <2>3 DEF Unseen, Distance
    <3> QED BY <2>5, <2>6, <3>1, DistanceBack
  <2> QED BY <2>1, <2>3, <2>4, <2>7
<1> DEFINE g == [k \in 0..(U - T) |-> f[k + T]]
<1>13. g[0] = f[T]
  BY <1>8
<1>14. IsStream(g)'
  <2>1. /\ f \in [0..U -> Places \cup {EndOfLog}] /\ f[U] = EndOfLog
        /\ \A k \in 0..(U - 1) : /\ f[k] \in Places /\ f[k + 1] = Following(f[k])
                                 /\ mem[(Start + k) % Size] = ByteAt(f[k])
    BY <1>6, <1>8 DEF IsStream
  <2>2. g \in [0..(U - T) -> Places \cup {EndOfLog}] /\ g[U - T] = EndOfLog
    <3>1. \A k \in 0..(U - T) : k + T \in 0..U
      BY <1>8
    <3>2. U - T \in 0..(U - T) /\ (U - T) + T = U
      BY <1>8
    <3> QED BY <2>1, <3>1, <3>2
  <2>3. ASSUME NEW k \in 0..(U - T - 1)
        PROVE  /\ g[k] \in Places /\ g[k + 1] = Following(g[k])
               /\ mem[(Wrapped(next) + k) % Size] = ByteAt(g[k])
    <3>1. /\ k + T \in 0..(U - 1) /\ (k + T) + 1 = (k + 1) + T
          /\ k \in 0..(U - T) /\ k + 1 \in 0..(U - T)
      BY <1>8
    <3> QED BY <1>12, <2>1, <3>1
  <2>4. Places' = Places /\ EndOfLog' = EndOfLog
    BY <1>1 DEF Places, EndOfLog
  <2>5. \A p : Following(p)' = Following(p) /\ ByteAt(p)' = ByteAt(p)
    BY <1>1 DEF Following, ByteAt
  <2> HIDE DEF g
  <2> QED BY <1>1, <1>12, <2>2, <2>3, <2>4, <2>5 DEF IsStream
<1>15. LineBegins(g[0])'
  BY <1>1, <1>11, <1>13 DEF LineBegins
<1>16. IsReading(g)'
  BY <1>1 DEF IsReading
<1>17. Begins' = Begins /\ (\A l, p : IsLineAt(l, p)' <=> IsLineAt(l, p))
       /\ (\A l, p : Before(l, p)' <=> Before(l, p))
  <2>1. Begins' = Begins
    BY <1>1 DEF Begins
  <2>2. \A l, p : IsLineAt(l, p)' <=> IsLineAt(l, p)
    BY <1>1 DEF IsLineAt
  <2>3. \A l, p : Before(l, p)' <=> Before(l, p)
    BY DEF Before
  <2> QED BY <2>1, <2>2, <2>3
<1>18. \A p \in Begins : p[1] \in Nat /\ p[2] \in Nat
  BY BeginsNumbers
<1>19. /\ \A i \in DOMAIN printed :
            Len(printed[i]) # 0 /\ \E p \in Begins : IsLineAt(printed[i], p) /\ Before(p, f[T])
       /\ \A p \in Begins : Before(p, q) => \E i \in DOMAIN printed : IsLineAt(printed[i], p)
       /\ \A i, j \in DOMAIN printed : \A p, r \in Begins :
            i < j /\ IsLineAt(printed[i], p) /\ IsLineAt(printed[j], r) => Before(p, r)
  BY <1>6, <1>11, <1>18 DEF PrintedUpTo
<1>20. PrintedUpTo(g[0])'
  <2>1. CASE line = <<>>
    <3>1. printed' = printed /\ L = 0
      BY <1>1, <1>8, <2>1
    <3>2. \A p \in Begins : Before(p, f[T]) => Before(p, q)
      BY <1>11, <3>1
    <3> HIDE DEF g, q, e
    <3> QED BY <1>13, <1>17, <1>19, <3>1, <3>2 DEF PrintedUpTo
  <2>2. CASE line # <<>>
    <3>1. printed' = Append(printed, line) /\ L # 0 /\ q \in Begins
      BY <1>1, <1>2, <1>8, <1>11, <2>2
    <3>2. PICK n \in Nat : /\ n = Len(printed) /\ DOMAIN printed = 1..n /\ DOMAIN printed' = 1..(n + 1)
                           /\ printed'[n + 1] = line /\ \A i \in 1..n : printed'[i] = printed[i]
      BY <1>2, <3>1
    <3>3. IsLineAt(line, q)
      <4>1. ASSUME NEW k \in 1..L
            PROVE  /\ line[k] = [msg |-> q[1], at |-> q[2] + k - 1, eol |-> FALSE]
                   /\ q[2] + k - 1 <= Len(accepted[q[1]]) /\ accepted[q[1]][q[2] + k - 1] = "char"
        BY <1>9 DEF IsChar, ByteAt
      <4>3. \A k \in 1..Len(line) : line[k] = [msg |-> q[1], at |-> q[2] + k - 1, eol |-> FALSE]
        BY <1>8, <4>1
      <4>4. ASSUME NEW i \in q[2]..(q[2] + Len(line) - 1)
            PROVE  i <= Len(accepted[q[1]]) /\ accepted[q[1]][i] = "char"
        <5>1. i - q[2] + 1 \in 1..L /\ q[2] + (i - q[2] + 1) - 1 = i
          BY <1>8, <1>10
        <5> QED BY <4>1, <5>1
      <4>5. q[2] + Len(line) <= Len(accepted[q[1]]) => accepted[q[1]][q[2] + Len(line)] = "eol"
        <5>1. e[1] = q[1] /\ e[2] = q[2] + Len(line)
          BY <1>8, <1>9
        <5>2. e[2] <= Len(accepted[e[1]]) => accepted[e[1]][e[2]] = "eol"
          BY <1>9, EndsAt DEF StreamInv
        <5> QED BY <5>1, <5>2
      <4> HIDE DEF q, e
      <4> QED BY <1>8, <1>10, <4>3, <4>4, <4>5 DEF IsLineAt
    <3>5. Len(line) # 0 /\ Len(line) \in Nat /\ \A i \in 1..n : Len(printed[i]) \in Nat /\ Len(printed[i]) # 0
      <4>1. Len(line) # 0 /\ Len(line) \in Nat
        BY <1>2, <1>8, <3>1
      <4>2. ASSUME NEW i \in 1..n PROVE Len(printed[i]) \in Nat /\ Len(printed[i]) # 0
        <5>1. printed[i] \in Seq(Byte \cup {Nul, Old})
          BY <1>2, <3>2
        <5> QED BY <1>19, <3>2, <5>1
      <4> QED BY <4>1, <4>2
    <3>6. ASSUME NEW i \in 1..(n + 1)
          PROVE  Len(printed'[i]) # 0 /\ \E p \in Begins : IsLineAt(printed'[i], p) /\ Before(p, f[T])
      <4>1. CASE i = n + 1
        BY <1>11, <3>1, <3>2, <3>3, <3>5, <4>1
      <4>2. CASE i \in 1..n
        BY <1>19, <3>2, <4>2
      <4> QED BY <4>1, <4>2
    <3>7. ASSUME NEW i \in 1..(n + 1), NEW j \in 1..(n + 1), NEW p \in Begins, NEW r \in Begins,
                 i < j, IsLineAt(printed'[i], p), IsLineAt(printed'[j], r)
          PROVE  Before(p, r)
      <4>1. i \in 1..n
        BY <3>7
      <4>2. CASE j \in 1..n
        BY <1>19, <3>2, <3>7, <4>1, <4>2
      <4>3. CASE j = n + 1
        <5>1. r = q
          BY <3>1, <3>2, <3>3, <3>5, <3>7, <4>3, OnePlace
        <5>2. PICK p2 \in Begins : IsLineAt(printed[i], p2) /\ Before(p2, q)
          BY <1>6, <3>2, <4>1 DEF PrintedUpTo
        <5>3. p = p2
          BY <3>2, <3>5, <3>7, <4>1, <5>2, OnePlace
        <5> QED BY <5>1, <5>2, <5>3
      <4> QED BY <4>2, <4>3
    <3>8. ASSUME NEW p \in Begins, Before(p, f[T])
          PROVE  \E i \in 1..(n + 1) : IsLineAt(printed'[i], p)
      <4>1. CASE Before(p, q)
        <5>1. PICK i \in 1..n : IsLineAt(printed[i], p)
          BY <1>19, <3>2, <4>1
        <5> QED BY <3>2, <5>1
      <4>2. CASE p = q
        <5>1. n + 1 \in 1..(n + 1)
          OBVIOUS
        <5> QED BY <3>2, <3>3, <4>2, <5>1
      <4> QED BY <1>11, <3>8, <4>1, <4>2
    <3> HIDE DEF g, q, e
    <3> QED BY <1>13, <1>17, <3>2, <3>6, <3>7, <3>8 DEF PrintedUpTo
  <2> QED BY <2>1, <2>2
<1> QED BY <1>5, <1>14, <1>15, <1>16, <1>20 DEF Streamed

(* The lines printed so far are the first ones.                            *)
LEMMA StreamPrinted ==
  ASSUME RingInv, StreamInv PROVE PrintedInOrder
<1>1. SUFFICES ASSUME ~brimful PROVE PrintedInOrder
  BY DEF PrintedInOrder
<1>2. CASE ~valid
  <2>1. DOMAIN printed = {}
    BY <1>2 DEF StreamInv, StreamTypes
  <2> QED BY <2>1 DEF PrintedInOrder
<1>3. CASE valid
  <2>1. PICK f : IsStream(f) /\ PrintedUpTo(f[0])
    BY <1>1, <1>3 DEF StreamInv, Streamed
  <2>2. f[0][1] \in Nat /\ f[0][2] \in Nat
    <3>1. Unseen \in Place
      BY <1>1, <1>3, StreamBounds
    <3>2. f[0] \in Places \cup {EndOfLog}
      BY <2>1, <3>1 DEF IsStream, Place
    <3> QED BY <3>2, PlaceNumbers
  <2>3. \A i \in DOMAIN printed : Len(printed[i]) \in Nat /\ Len(printed[i]) # 0
    BY <2>1 DEF PrintedUpTo, StreamInv, StreamTypes
  <2>4. ASSUME NEW i \in DOMAIN printed, NEW p \in Begins, NEW q \in Begins,
               IsLineAt(printed[i], q), Before(p, q)
        PROVE  \E j \in DOMAIN printed : IsLineAt(printed[j], p)
    <3>1. PICK r \in Begins : IsLineAt(printed[i], r) /\ Before(r, f[0])
      BY <2>1 DEF PrintedUpTo
    <3>2. r = q
      BY <2>3, <2>4, <3>1, OnePlace
    <3>3. Before(p, f[0])
      BY <2>2, <2>4, <3>1, <3>2, BeginsNumbers DEF Before
    <3> QED BY <2>1, <3>3 DEF PrintedUpTo
  <2> QED BY <2>1, <2>4 DEF PrintedUpTo, PrintedInOrder
<1> QED BY <1>2, <1>3

(* Unless a message fills the ring to its last byte, what appLogRdRun      *)
(* prints is what the other core gave to appLogWrPutString: whole lines,   *)
(* in order, none twice and none left out, whatever memory held at first,  *)
(* wherever the ring wraps and whenever the writer restarts.               *)
THEOREM LogInOrder == RingSpec => []PrintedInOrder
<1>1. RingInit => StreamInv
  <2>1. RingInit => ~valid /\ writing = "OFF" /\ accepted = <<>> /\ printed = <<>> /\ line = <<>>
    BY DEF RingInit
  <2>2. Len(<<>>) = 0 /\ 0 <= MaxMsg
    BY LogAssumption
  <2> QED BY <2>1, <2>2 DEF StreamInv, StreamTypes
<1>2. RingInv /\ StreamInv /\ [RingNext]_ringVars => StreamInv'
  BY WrInitStream, MarkValidStream, PutStringStream, CopyByteStream, PublishStream, RestartStream,
     RdInitStream, PollStream, TakeByteStream, PrintLineStream, StutterStream DEF RingNext, Writer, Reader
<1>3. RingInv /\ StreamInv => PrintedInOrder
  BY StreamPrinted
<1> QED BY <1>1, <1>2, <1>3, InitRing, NextRing, PTL DEF RingSpec
=============================================================================
