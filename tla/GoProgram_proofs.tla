-------------------------- MODULE GoProgram_proofs --------------------------
(***************************************************************************)
(* Proofs about GoProgram, for any number of calls and attempts.           *)
(*                                                                         *)
(* The client: GoInv is inductive as it stands: ids are given out once     *)
(* (FreshIds), so what is under an id belongs to the call that took it     *)
(* (ByOwner), and a call that can still be answered has its channel        *)
(* registered (Reachable).                                                 *)
(*                                                                         *)
(* The worker: an id that is given out never names another request, so     *)
(* what travels under it is of the job it was given out for, or of no job  *)
(* that still asks for it (AnswersByOwner); with what holds of the broker  *)
(* a job completes only with its own answer.                               *)
(***************************************************************************)
EXTENDS GoProgram, MessageBroker_proofs

-----------------------------------------------------------------------------
(* The calls of AddJob.                                                    *)

LEMMA GoInitEstablishes == ClientInit => GoInv
BY NoneAssumption DEF ClientInit, GoInv, GoTypeOK, FreshIds, ByOwner, OneAtATime,
  Reachable, Locked

\* The new id is larger than every id that was given out.
LEMMA TakeIdPreserves ==
  ASSUME GoInv, NEW c \in Call, TakeId(c)
  PROVE  GoInv'
<1> USE DEF GoInv, TakeId, NextMsgID
<1>1. GoTypeOK' /\ FreshIds'
  BY DEF GoTypeOK, FreshIds
<1>2. ByOwner'
  BY DEF GoTypeOK, ByOwner, Locked
<1>3. OneAtATime' /\ Reachable'
  BY DEF GoTypeOK, OneAtATime, Reachable
<1> QED
  BY <1>1, <1>2, <1>3

LEMMA RegisterPreserves ==
  ASSUME GoInv, NEW c \in Call, Register(c)
  PROVE  GoInv'
<1> USE DEF GoInv, Register, Without
<1>1. GoTypeOK' /\ FreshIds'
  BY DEF GoTypeOK, FreshIds, Request
<1>2. ByOwner'
  BY DEF GoTypeOK, ByOwner, Locked, Request
<1>3. OneAtATime'
  BY DEF GoTypeOK, OneAtATime
<1>4. Reachable'
  BY DEF GoTypeOK, FreshIds, Reachable
<1> QED
  BY <1>1, <1>2, <1>3, <1>4

\* Before its write a call has no request and no answer anywhere.
LEMMA WritePreserves ==
  ASSUME GoInv, NEW c \in Call, Write(c)
  PROVE  GoInv'
<1> USE DEF GoInv, Write
<1>1. GoTypeOK' /\ FreshIds'
  BY DEF GoTypeOK, FreshIds, Request
<1>2. ByOwner'
  BY DEF GoTypeOK, ByOwner, Locked, Request, Reply
<1>3. OneAtATime' /\ Reachable'
  BY NoneAssumption DEF GoTypeOK, OneAtATime, Reachable
<1> QED
  BY <1>1, <1>2, <1>3

LEMMA WriteErrorPreserves ==
  ASSUME GoInv, NEW c \in Call, WriteError(c)
  PROVE  GoInv'
<1> USE DEF GoInv, WriteError, AfterError
<1>1. GoTypeOK' /\ FreshIds'
  BY DEF GoTypeOK, FreshIds
<1>2. ByOwner'
  BY DEF GoTypeOK, ByOwner, Locked
<1>3. OneAtATime' /\ Reachable'
  BY NoneAssumption DEF GoTypeOK, OneAtATime, Reachable
<1> QED
  BY <1>1, <1>2, <1>3

LEMMA ServePreserves ==
  ASSUME GoInv, NEW r \in requests, NEW d \in Data, Serve(r, d)
  PROVE  GoInv'
<1> USE DEF GoInv, Serve
<1>1. GoTypeOK' /\ FreshIds'
  BY DEF GoTypeOK, FreshIds, Request, Reply
<1>2. ByOwner'
  BY DEF GoTypeOK, FreshIds, ByOwner, Locked, Request, Reply
<1>3. OneAtATime' /\ Reachable'
  BY DEF OneAtATime, Reachable
<1> QED
  BY <1>1, <1>2, <1>3

LEMMA BreakPreserves == ASSUME GoInv, Break PROVE GoInv'
BY DEF GoInv, Break, GoTypeOK, FreshIds, ByOwner, Locked, OneAtATime, Reachable

LEMMA ReadPreserves ==
  ASSUME GoInv, NEW a \in answers, Read(a)
  PROVE  GoInv'
<1> USE DEF GoInv, Read
<1>1. GoTypeOK' /\ FreshIds'
  BY DEF GoTypeOK, FreshIds
<1>2. ByOwner'
  BY DEF GoTypeOK, ByOwner, Locked
<1>3. OneAtATime' /\ Reachable'
  BY DEF OneAtATime, Reachable
<1> QED
  BY <1>1, <1>2, <1>3

\* The channel of the id is that of the call the answer is for.
LEMMA ReceivedIsOwn ==
  ASSUME GoInv, NEW c \in Call, Receive(c)
  PROVE  delivering \in Reply /\ delivering.call = c /\ added[c] = delivering.data
<1>1. delivering \in Reply
  BY DEF GoInv, GoTypeOK, Receive, Locked
<1>2. pc[c] # "idle" /\ id[c] = delivering.id
  BY DEF GoInv, ByOwner, Receive
<1>3. /\ pc[delivering.call] # "idle" /\ id[delivering.call] = delivering.id
      /\ added[delivering.call] = delivering.data /\ delivering.call \in Call
  BY <1>1 DEF GoInv, ByOwner, Receive, Locked, Reply
<1> QED
  BY <1>1, <1>2, <1>3 DEF GoInv, FreshIds

LEMMA ReceivePreserves ==
  ASSUME GoInv, NEW c \in Call, Receive(c)
  PROVE  GoInv'
<1> USE DEF GoInv, Receive, Without
<1>1. GoTypeOK' /\ FreshIds'
  BY DEF GoTypeOK, FreshIds, AddJob
<1>2. ByOwner'
  BY DEF GoTypeOK, ByOwner, Locked
<1>3. OneAtATime'
  BY NoneAssumption DEF GoTypeOK, OneAtATime
<1>4. Reachable'
  BY <1>2 DEF GoTypeOK, FreshIds, ByOwner, Reachable
<1> QED
  BY <1>1, <1>2, <1>3, <1>4

LEMMA ResponseTimeoutPreserves ==
  ASSUME GoInv, NEW c \in Call, ResponseTimeout(c)
  PROVE  GoInv'
<1> USE DEF GoInv, ResponseTimeout
<1>1. GoTypeOK' /\ FreshIds'
  BY DEF GoTypeOK, FreshIds
<1>2. ByOwner'
  BY DEF GoTypeOK, ByOwner, Locked
<1>3. OneAtATime' /\ Reachable'
  BY NoneAssumption DEF GoTypeOK, OneAtATime, Reachable
<1> QED
  BY <1>1, <1>2, <1>3

LEMMA NextPreserves == ASSUME GoInv, [ClientNext]_clientVars PROVE GoInv'
<1>1. CASE UNCHANGED clientVars
  BY <1>1 DEF clientVars, GoInv, GoTypeOK, FreshIds, ByOwner, Locked, OneAtATime, Reachable
<1>2. ASSUME NEW c \in Call, CallStep(c) PROVE GoInv'
  BY <1>2, TakeIdPreserves, RegisterPreserves, WritePreserves, WriteErrorPreserves,
    ReceivePreserves, ResponseTimeoutPreserves DEF CallStep
<1> QED
  BY <1>1, <1>2, ServePreserves, ReadPreserves, BreakPreserves DEF ClientNext

\* Nothing is returned early, and nothing that the server has still to do has
\* been reported.
NoneEarly ==
  /\ \A c \in Call : pc[c] # "returned" => outcome[c] = "none"
  /\ \A r \in requests : outcome[r.call] # "job"

LEMMA NextReports ==
  ASSUME GoInv, NoneEarly, AddedAsReported, [ClientNext]_clientVars
  PROVE  NoneEarly' /\ AddedAsReported'
<1> USE DEF GoInv, GoTypeOK, NoneEarly, AddedAsReported, Request
<1>1. CASE UNCHANGED clientVars
  BY <1>1 DEF clientVars
<1>2. ASSUME NEW c \in Call, Receive(c) PROVE NoneEarly' /\ AddedAsReported'
  <2>1. delivering.call = c /\ added[c] = delivering.data
    BY <1>2, ReceivedIsOwn
  <2>2. \A r \in requests : r.call # c
    BY <1>2, <2>1 DEF ByOwner, Receive, Locked
  <2> QED
    BY <1>2, <2>1, <2>2 DEF Receive, AddJob
<1>3. ASSUME NEW c \in Call, CallStep(c), ~Receive(c) PROVE NoneEarly' /\ AddedAsReported'
  BY <1>3 DEF CallStep, TakeId, Register, Write, WriteError, ResponseTimeout
<1>4. ASSUME NEW r \in requests, NEW d \in Data, Serve(r, d) PROVE NoneEarly' /\ AddedAsReported'
  BY <1>4 DEF Serve
<1>5. CASE Break \/ \E a \in answers : Read(a)
  BY <1>5 DEF Break, Read
<1> QED
  BY <1>1, <1>2, <1>3, <1>4, <1>5 DEF ClientNext

-----------------------------------------------------------------------------
(* The jobs of the worker.                                                 *)

USE BrokerAssumption, GoWorkerAssumption

WInv == GoWorkerInv /\ BrokerInv

LEMMA WorkerInitEstablishes == WorkerInit => WInv
<1> SUFFICES ASSUME WorkerInit PROVE WInv OBVIOUS
<1>1. BrokerInv
  BY InitEstablishes DEF WorkerInit
<1>2. WorkerTypeOK
  BY <1>1 DEF BrokerInv, WorkerInit, WorkerTypeOK, Id
<1>3. AttemptsInv /\ CompletedByOwnAnswer
  BY DEF WorkerInit, AttemptsInv, CompletedByOwnAnswer, IsLast
<1>4. AnswersByOwner
  BY DEF WorkerInit, BrokerInit, AnswersByOwner, IsLast, OfJob
<1> QED BY <1>1, <1>2, <1>3, <1>4 DEF WInv, GoWorkerInv

\* The worker uses its broker as MessageBroker says.
LEMMA WorkerBrokerStep ==
  ASSUME WInv, WorkerStep \/ \E j \in Job : Process(j)
  PROVE  [BrokerNext]_brokerVars
<1>1. ASSUME NEW j \in Job, Process(j) PROVE BrokerNext
  BY <1>1 DEF Process, BrokerNext
<1>2. ASSUME NEW a \in up, ServerMessage(a) PROVE BrokerNext
  <2>1. a.id \in Id /\ [job |-> a.job, ok |-> a.ok] \in Answer
    BY DEF WInv, GoWorkerInv, WorkerTypeOK
  <2> QED BY <1>2, <2>1 DEF ServerMessage, BrokerNext
<1>3. ASSUME NEW i \in Id, RequestTimeout(i) PROVE BrokerNext
  BY <1>3 DEF RequestTimeout, BrokerNext
<1>4. CASE ConnectionEnds
  BY <1>4 DEF ConnectionEnds, BrokerNext
<1>5. CASE \/ \E j \in Job : Settle(j)
           \/ Listen \/ ListenForResponses
           \/ \E m \in runs, ok \in BOOLEAN : Respond(m, ok)
  BY <1>5 DEF Settle, Listen, ListenForResponses, Respond, brokerVars
<1> QED BY <1>1, <1>2, <1>3, <1>4, <1>5 DEF WorkerStep

\* What holds of the promises and answers of the broker in any step of it that
\* gives out no id: outcomes and answers are kept, ids stay given out.
LEMMA OutcomesKept ==
  ASSUME WInv,
         \/ \E i \in Id, data \in Answer : ProcessMessage(1, i, data)
         \/ \E i \in Id : Timeout(1, i)
         \/ CloseBroker(1)
  PROVE  /\ messageId' = messageId
         /\ \A i \in Id : promise[1][i] = "resolved" =>
              promise'[1][i] = "resolved" /\ answer'[1][i] = answer[1][i]
<1> USE DEF WInv, BrokerInv, BrokerTypeOK
<1>1. ASSUME NEW i \in Id, NEW data \in Answer, ProcessMessage(1, i, data)
      PROVE  /\ messageId' = messageId
             /\ \A k \in Id : promise[1][k] = "resolved" =>
                  promise'[1][k] = "resolved" /\ answer'[1][k] = answer[1][k]
  BY <1>1 DEF ProcessMessage, Answered, Unheard, Outcome
<1>2. ASSUME NEW i \in Id, Timeout(1, i)
      PROVE  /\ messageId' = messageId /\ answer' = answer
             /\ \A k \in Id : promise[1][k] = "resolved" => promise'[1][k] = "resolved"
  BY <1>2 DEF Timeout, Outcome
<1>3. CASE CloseBroker(1)
  BY <1>3 DEF CloseBroker, RejectPending, Outcome
<1> QED BY <1>1, <1>2, <1>3

WorkerVarsType ==
  /\ job \in [Job -> {"waiting", "active", "completed", "failed"}]
  /\ made \in [Job -> 0 .. Attempts]
  /\ request \in [Job -> Id]

LEMMA WInvFacts ==
  ASSUME WInv
  PROVE  /\ WorkerVarsType /\ AttemptsInv /\ AnswersByOwner /\ CompletedByOwnAnswer
         /\ messageId[1] \in 0 .. MaxId
         /\ promise \in [Broker -> [Id -> {"none", "waiting", "resolved", "timeout", "closed"}]]
         /\ answer \in [Broker -> [Id -> Answer \cup {NoAnswer}]]
         /\ down \in Seq(Message) /\ runs \subseteq Message
         /\ up \subseteq [id : Id, job : Job, ok : BOOLEAN]
         /\ processed \subseteq Job /\ alive \in BOOLEAN
BY DEF WInv, GoWorkerInv, WorkerTypeOK, WorkerVarsType, BrokerInv, BrokerTypeOK

\* OfJob after a step, of ids and jobs that may be state functions.
OfJobNext(i, j) ==
  i < messageId'[1] /\ \A k \in Job : made'[k] > 0 /\ request'[k] = i => k = j

LEMMA AnswersNext ==
  ASSUME \A n \in 1 .. Len(down') : OfJobNext(down'[n].id, down'[n].job),
         \A m \in runs' \cup up' : OfJobNext(m.id, m.job) /\ m.job \in processed',
         \A i \in Id : answer'[1][i] # NoAnswer =>
           OfJobNext(i, answer'[1][i].job) /\ answer'[1][i].job \in processed',
         \A i \in Id : promise'[1][i] = "resolved" => answer'[1][i] # NoAnswer
  PROVE  AnswersByOwner'
BY DEF AnswersByOwner, OfJob, IsLast, OfJobNext

\* A new attempt has an id that nothing is under.
LEMMA ProcessFacts ==
  ASSUME WInv, NEW j \in Job, Process(j)
  PROVE  /\ messageId[1] \in Id /\ messageId' = [messageId EXCEPT ![1] = @ + 1]
         /\ job' = [job EXCEPT ![j] = "active"]
         /\ made' = [made EXCEPT ![j] = @ + 1] /\ made[j] < Attempts
         /\ request' = [request EXCEPT ![j] = messageId[1]]
         /\ down' = Append(down, [id |-> messageId[1], job |-> j])
         /\ promise' = [promise EXCEPT ![1][messageId[1]] = "waiting"]
         /\ answer' = [answer EXCEPT ![1][messageId[1]] = NoAnswer]
         /\ UNCHANGED <<alive, runs, up, processed>>
<1>1. messageId[1] < MaxId /\ messageId[1] \in 0 .. MaxId
  BY WInvFacts DEF Process, SendData
<1>2. messageId[1] \in Id
  BY <1>1 DEF Id
<1>3. made[j] < Attempts
  BY WInvFacts DEF AttemptsInv, Process
<1> QED BY <1>2, <1>3 DEF Process, SendData, NextId

LEMMA ProcessOwners ==
  ASSUME WInv, NEW j \in Job, Process(j), NEW n \in Nat, n = messageId[1]
  PROVE  /\ AttemptsInv'
         /\ \A i \in Id, k \in Job : OfJob(i, k) => OfJobNext(i, k)
         /\ OfJobNext(n, j)
<1>0. WorkerVarsType /\ AttemptsInv
  BY WInvFacts
<1>1. messageId'[1] = n + 1
  BY ProcessFacts DEF WInv, BrokerInv, BrokerTypeOK
<1>2. /\ job'[j] = "active" /\ made'[j] = made[j] + 1 /\ made[j] \in 0 .. Attempts
      /\ request'[j] = n
      /\ \A k \in Job : k # j =>
           job'[k] = job[k] /\ made'[k] = made[k] /\ request'[k] = request[k]
  <2>1. /\ job' = [job EXCEPT ![j] = "active"]
        /\ made' = [made EXCEPT ![j] = @ + 1]
        /\ request' = [request EXCEPT ![j] = n]
    BY ProcessFacts
  <2> QED BY <1>0, <2>1 DEF WorkerVarsType
<1>3. \A k \in Job : k # j => made'[k] = made[k] /\ request'[k] = request[k]
  BY <1>2
<1>4. \A k \in Job : request[k] \in Nat /\ (made[k] > 0 => request[k] < n)
  BY WInvFacts DEF AttemptsInv, WorkerVarsType, Id
<1>5. AttemptsInv'
  <2>1. \A k \in Job : IF job'[k] = "waiting" THEN made'[k] < Attempts ELSE made'[k] > 0
    BY <1>2, <1>3, WInvFacts DEF AttemptsInv
  <2>2. \A k \in Job : made'[k] > 0 => request'[k] < messageId'[1]
    BY <1>1, <1>2, <1>3, <1>4
  <2>3. \A k, l \in Job : made'[k] > 0 /\ made'[l] > 0 /\ request'[l] = request'[k] => k = l
    BY <1>2, <1>3, <1>4, WInvFacts DEF AttemptsInv, IsLast
  <2> QED BY <2>1, <2>2, <2>3 DEF AttemptsInv, IsLast
<1>6. ASSUME NEW i \in Id, NEW k \in Job, OfJob(i, k) PROVE OfJobNext(i, k)
  <2>1. i \in Nat /\ i < n
    BY <1>6 DEF OfJob, Id
  <2>2. \A l \in Job : made'[l] > 0 /\ request'[l] = i => l = k
    BY <1>2, <1>3, <1>6, <2>1 DEF OfJob, IsLast
  <2> QED BY <1>1, <2>1, <2>2 DEF OfJobNext
<1>7. OfJobNext(n, j)
  <2>1. \A l \in Job : made'[l] > 0 /\ request'[l] = n => l = j
    BY <1>3, <1>4
  <2> QED BY <1>1, <2>1 DEF OfJobNext
<1> QED BY <1>5, <1>6, <1>7

LEMMA ProcessKeeps ==
  ASSUME WInv, NEW j \in Job, Process(j), BrokerTypeOK'
  PROVE  GoWorkerInv'
<1>1. PICK n \in Id : n = messageId[1]
  BY ProcessFacts
<1>2. /\ n \in Nat
      /\ \A i \in Id : i # n => promise'[1][i] = promise[1][i] /\ answer'[1][i] = answer[1][i]
      /\ promise'[1][n] = "waiting" /\ answer'[1][n] = NoAnswer
  <2>1. /\ promise' = [promise EXCEPT ![1][n] = "waiting"]
        /\ answer' = [answer EXCEPT ![1][n] = NoAnswer]
    BY <1>1, ProcessFacts
  <2> QED BY <2>1 DEF WInv, BrokerInv, BrokerTypeOK, Id
<1>3. /\ AttemptsInv' /\ OfJobNext(n, j)
      /\ \A i \in Id, k \in Job : OfJob(i, k) => OfJobNext(i, k)
  BY <1>1, <1>2, ProcessOwners
<1>4. /\ down' = Append(down, [id |-> n, job |-> j]) /\ down \in Seq(Message)
      /\ UNCHANGED <<alive, runs, up, processed>>
  BY <1>1, ProcessFacts, WInvFacts
<1>5. /\ job' = [job EXCEPT ![j] = "active"] /\ made' = [made EXCEPT ![j] = @ + 1]
      /\ made[j] < Attempts /\ request' = [request EXCEPT ![j] = n] /\ WorkerVarsType
  BY <1>1, ProcessFacts, WInvFacts
<1>6. WorkerTypeOK'
  <2>1. WorkerVarsType'
    BY <1>5 DEF WorkerVarsType
  <2>2. [id |-> n, job |-> j] \in Message
    BY DEF Message
  <2>3. down' \in Seq(Message)
    BY <1>4, <2>2
  <2> QED BY <1>4, <2>1, <2>3, WInvFacts DEF WorkerTypeOK, WorkerVarsType
<1>7. AnswersByOwner'
  <2>1. ASSUME NEW x \in 1 .. Len(down') PROVE OfJobNext(down'[x].id, down'[x].job)
    <3>1. CASE x <= Len(down)
      <4>1. down'[x] = down[x] /\ down[x] \in Message /\ x \in 1 .. Len(down)
        BY <1>4, <2>1, <3>1
      <4>2. OfJob(down[x].id, down[x].job) /\ down[x].id \in Id /\ down[x].job \in Job
        BY <4>1, WInvFacts DEF AnswersByOwner, Message
      <4> QED BY <1>3, <4>1, <4>2
    <3>2. CASE ~(x <= Len(down))
      <4>1. x = Len(down) + 1 /\ down'[x] = [id |-> n, job |-> j]
        BY <1>4, <2>1, <3>2
      <4>2. down'[x].id = n /\ down'[x].job = j
        BY <4>1
      <4> QED BY <1>3, <4>2
    <3> QED BY <3>1, <3>2
  <2>2. ASSUME NEW m \in runs \cup up PROVE OfJobNext(m.id, m.job) /\ m.job \in processed
    <3>1. m.id \in Id /\ m.job \in Job /\ OfJob(m.id, m.job) /\ m.job \in processed
      BY WInvFacts DEF AnswersByOwner, Message
    <3> QED BY <1>3, <3>1
  <2>3. ASSUME NEW i \in Id, answer'[1][i] # NoAnswer
        PROVE  OfJobNext(i, answer'[1][i].job) /\ answer'[1][i].job \in processed
    <3>1. i # n /\ answer'[1][i] = answer[1][i]
      BY <1>2, <2>3
    <3>2. /\ OfJob(i, answer[1][i].job) /\ answer[1][i].job \in processed
          /\ answer[1][i].job \in Job
      BY <2>3, <3>1, WInvFacts DEF AnswersByOwner
    <3> QED BY <1>3, <3>1, <3>2
  <2>4. \A i \in Id : promise'[1][i] = "resolved" => answer'[1][i] # NoAnswer
    BY <1>2, WInvFacts DEF AnswersByOwner
  <2> QED BY <1>4, <2>1, <2>2, <2>3, <2>4, AnswersNext
<1>8. CompletedByOwnAnswer'
  <2> SUFFICES ASSUME NEW k \in Job, job'[k] = "completed"
               PROVE  /\ k \in processed'
                      /\ promise'[1][request'[k]] = "resolved"
                      /\ answer'[1][request'[k]] = [job |-> k, ok |-> TRUE]
    BY DEF CompletedByOwnAnswer
  <2>1. k # j /\ job[k] = "completed" /\ request'[k] = request[k]
    BY <1>5 DEF WorkerVarsType
  <2>2. request[k] \in Id /\ request[k] # n
    <3>1. made[k] > 0 /\ request[k] < n /\ request[k] \in Id
      BY <1>1, <1>5, <2>1, WInvFacts DEF AttemptsInv, WorkerVarsType
    <3> QED BY <1>2, <3>1 DEF Id
  <2> QED BY <1>2, <1>4, <2>1, <2>2, WInvFacts DEF CompletedByOwnAnswer
<1> QED BY <1>3, <1>6, <1>7, <1>8 DEF GoWorkerInv

-----------------------------------------------------------------------------
(* Steps that give out no id.                                              *)

\* Ids stay those of the jobs they were, and attempts are made by Process only.
LEMMA OwnersKept ==
  ASSUME UNCHANGED <<made, request, messageId>>
  PROVE  \A i, j : OfJob(i, j) => OfJobNext(i, j)
BY DEF OfJob, IsLast, OfJobNext

\* A step that changes none of the tables, and takes no message to a place it
\* was not bound for.
MessagesMove ==
  /\ UNCHANGED <<messageId, promise, answer, job, made, request>>
  /\ \A n \in 1 .. Len(down') : \E k \in 1 .. Len(down) : down'[n] = down[k]
  /\ \A m \in runs' : m \in runs \/ (OfJob(m.id, m.job) /\ m.job \in processed')
  /\ \A a \in up' : a \in up \/ (OfJob(a.id, a.job) /\ a.job \in processed)
  /\ processed \subseteq processed'

LEMMA MoveKeeps ==
  ASSUME WInv, MessagesMove
  PROVE  AttemptsInv' /\ AnswersByOwner' /\ CompletedByOwnAnswer'
<1> USE DEF MessagesMove
<1>1. \A i, j : OfJob(i, j) => OfJobNext(i, j)
  BY OwnersKept
<1>2. AttemptsInv'
  BY WInvFacts DEF AttemptsInv, IsLast
<1>3. AnswersByOwner'
  <2>1. \A n \in 1 .. Len(down') : OfJobNext(down'[n].id, down'[n].job)
    BY <1>1, WInvFacts DEF AnswersByOwner
  <2>2. \A m \in runs' \cup up' : OfJobNext(m.id, m.job) /\ m.job \in processed'
    BY <1>1, WInvFacts DEF AnswersByOwner
  <2>3. \A i \in Id : answer'[1][i] # NoAnswer =>
          OfJobNext(i, answer'[1][i].job) /\ answer'[1][i].job \in processed'
    BY <1>1, WInvFacts DEF AnswersByOwner
  <2>4. \A i \in Id : promise'[1][i] = "resolved" => answer'[1][i] # NoAnswer
    BY WInvFacts DEF AnswersByOwner
  <2> QED BY <2>1, <2>2, <2>3, <2>4, AnswersNext
<1>4. CompletedByOwnAnswer'
  BY WInvFacts DEF CompletedByOwnAnswer
<1> QED BY <1>2, <1>3, <1>4

\* listen and listenForResponses take the first message.
LEMMA FirstMessage ==
  ASSUME WInv, down # <<>>
  PROVE  /\ Head(down) \in Message /\ Tail(down) \in Seq(Message)
         /\ OfJob(Head(down).id, Head(down).job)
         /\ \A n \in 1 .. Len(Tail(down)) : \E k \in 1 .. Len(down) : Tail(down)[n] = down[k]
<1>1. down \in Seq(Message) /\ Len(down) \in Nat /\ Len(down) > 0
  BY WInvFacts
<1>2. Head(down) = down[1] /\ 1 \in 1 .. Len(down)
  BY <1>1
<1>3. \A n \in 1 .. Len(Tail(down)) : n + 1 \in 1 .. Len(down) /\ Tail(down)[n] = down[n + 1]
  BY <1>1
<1>4. OfJob(Head(down).id, Head(down).job)
  BY <1>2, WInvFacts DEF AnswersByOwner
<1>5. Head(down) \in Message
  BY <1>1, <1>2
<1>6. Tail(down) \in Seq(Message)
  BY <1>1
<1>7. \A n \in 1 .. Len(Tail(down)) : \E k \in 1 .. Len(down) : Tail(down)[n] = down[k]
  BY <1>3
<1> QED BY <1>4, <1>5, <1>6, <1>7

LEMMA ReadKeeps ==
  ASSUME WInv, Listen \/ ListenForResponses
  PROVE  GoWorkerInv'
<1> DEFINE m == Head(down)
<1>1. /\ m \in Message /\ Tail(down) \in Seq(Message) /\ OfJob(m.id, m.job)
      /\ \A n \in 1 .. Len(Tail(down)) : \E k \in 1 .. Len(down) : Tail(down)[n] = down[k]
  BY FirstMessage DEF Listen, ListenForResponses
<1>2. /\ down' = Tail(down) /\ UNCHANGED <<brokerVars, job, made, request, alive, up>>
      /\ \/ runs' = runs \cup {m} /\ processed' = processed \cup {m.job}
         \/ runs' = runs /\ processed' = processed
  BY DEF Listen, ListenForResponses
<1> HIDE DEF m
<1>3. /\ \A x \in runs' : x \in runs \/ (OfJob(x.id, x.job) /\ x.job \in processed')
      /\ processed \subseteq processed'
  BY <1>1, <1>2
<1>4. AttemptsInv' /\ AnswersByOwner' /\ CompletedByOwnAnswer'
  <2>1. \A n \in 1 .. Len(down') : \E k \in 1 .. Len(down) : down'[n] = down[k]
    BY <1>1, <1>2
  <2>2. UNCHANGED <<messageId, promise, answer, job, made, request>> /\ up' = up
    BY <1>2 DEF brokerVars
  <2>3. \A a \in up' : a \in up \/ (OfJob(a.id, a.job) /\ a.job \in processed)
    BY <2>2
  <2>4. MessagesMove
    BY <1>3, <2>1, <2>2, <2>3 DEF MessagesMove
  <2> QED BY <2>4, MoveKeeps
<1>5. WorkerTypeOK'
  <2>1. runs' \subseteq Message /\ processed' \subseteq Job
    BY <1>1, <1>2, WInvFacts DEF Message
  <2> QED
    BY <1>1, <1>2, <2>1
    DEF WInv, GoWorkerInv, WorkerTypeOK, BrokerTypeOK, brokerVars
<1> QED BY <1>4, <1>5 DEF GoWorkerInv

LEMMA RespondKeeps ==
  ASSUME WInv, NEW m \in runs, NEW ok \in BOOLEAN, Respond(m, ok)
  PROVE  GoWorkerInv'
<1>1. m \in Message /\ OfJob(m.id, m.job) /\ m.job \in processed
  BY WInvFacts DEF AnswersByOwner
<1>2. /\ runs' \subseteq runs
      /\ UNCHANGED <<brokerVars, job, made, request, alive, down, processed>>
  BY DEF Respond
<1>3. \A a \in up' : a \in up \/ a = [id |-> m.id, job |-> m.job, ok |-> ok]
  BY DEF Respond
<1>4. \A a \in up' : a \in up \/ (a.id = m.id /\ a.job = m.job)
  BY <1>3
<1>5. AttemptsInv' /\ AnswersByOwner' /\ CompletedByOwnAnswer'
  <2>1. \A n \in 1 .. Len(down') : \E k \in 1 .. Len(down) : down'[n] = down[k]
    BY <1>2
  <2>2. \A a \in up' : a \in up \/ (OfJob(a.id, a.job) /\ a.job \in processed)
    BY <1>1, <1>4
  <2>3. /\ UNCHANGED <<messageId, promise, answer, job, made, request>>
        /\ processed \subseteq processed'
    BY <1>2 DEF brokerVars
  <2>4. \A x \in runs' : x \in runs \/ (OfJob(x.id, x.job) /\ x.job \in processed')
    BY <1>2
  <2>5. MessagesMove
    BY <2>1, <2>2, <2>3, <2>4 DEF MessagesMove
  <2> QED BY <2>5, MoveKeeps
<1>6. WorkerTypeOK'
  <2>1. up' \subseteq [id : Id, job : Job, ok : BOOLEAN]
    BY <1>1, <1>3, WInvFacts DEF Message
  <2> QED
    BY <1>2, <2>1 DEF WInv, GoWorkerInv, WorkerTypeOK, BrokerTypeOK, brokerVars
<1> QED BY <1>5, <1>6 DEF GoWorkerInv

\* What a step of the broker that gives out no id does to promises and answers:
\* what is resolved stays as it is, and an answer that is new is of its owner.
OutcomesMove ==
  /\ UNCHANGED <<messageId, job, made, request, runs, processed>>
  /\ \A n \in 1 .. Len(down') : \E k \in 1 .. Len(down) : down'[n] = down[k]
  /\ up' \subseteq up
  /\ \A i \in Id : promise[1][i] = "resolved" =>
       promise'[1][i] = "resolved" /\ answer'[1][i] = answer[1][i]
  /\ \A i \in Id : promise'[1][i] = "resolved" =>
       promise[1][i] = "resolved" \/ answer'[1][i] # NoAnswer
  /\ \A i \in Id : \/ answer'[1][i] = answer[1][i]
                   \/ \E a \in up : a.id = i /\ answer'[1][i].job = a.job

LEMMA OutcomesKeep ==
  ASSUME WInv, OutcomesMove
  PROVE  AttemptsInv' /\ AnswersByOwner' /\ CompletedByOwnAnswer'
<1> USE DEF OutcomesMove
<1>1. \A i, j : OfJob(i, j) => OfJobNext(i, j)
  BY OwnersKept
<1>2. AttemptsInv'
  BY WInvFacts DEF AttemptsInv, IsLast
<1>3. AnswersByOwner'
  <2>1. \A n \in 1 .. Len(down') : OfJobNext(down'[n].id, down'[n].job)
    BY <1>1, WInvFacts DEF AnswersByOwner
  <2>2. \A m \in runs' \cup up' : OfJobNext(m.id, m.job) /\ m.job \in processed'
    BY <1>1, WInvFacts DEF AnswersByOwner
  <2>3. \A i \in Id : answer'[1][i] # NoAnswer =>
          OfJobNext(i, answer'[1][i].job) /\ answer'[1][i].job \in processed'
    BY <1>1, WInvFacts DEF AnswersByOwner
  <2>4. \A i \in Id : promise'[1][i] = "resolved" => answer'[1][i] # NoAnswer
    BY WInvFacts DEF AnswersByOwner
  <2> QED BY <2>1, <2>2, <2>3, <2>4, AnswersNext
<1>4. CompletedByOwnAnswer'
  BY WInvFacts DEF CompletedByOwnAnswer, WorkerVarsType
<1> QED BY <1>2, <1>3, <1>4

LEMMA ServerMessageKeeps ==
  ASSUME WInv, NEW a \in up, ServerMessage(a), BrokerTypeOK'
  PROVE  GoWorkerInv'
<1> DEFINE data == [job |-> a.job, ok |-> a.ok]
<1>1. a.id \in Id /\ data \in Answer /\ data # NoAnswer /\ data.job = a.job
  BY WInvFacts
<1>2. /\ ProcessMessage(1, a.id, data) /\ up' = up \ {a}
      /\ UNCHANGED <<job, made, request, alive, down, runs, processed>>
  BY DEF ServerMessage
<1> HIDE DEF data
<1>3. /\ promise \in [Broker -> [Id -> {"none", "waiting", "resolved", "timeout", "closed"}]]
      /\ answer \in [Broker -> [Id -> Answer \cup {NoAnswer}]]
  BY WInvFacts
<1>4. OutcomesMove
  <2>1. /\ messageId' = messageId
        /\ \A i \in Id : promise[1][i] = "resolved" =>
             promise'[1][i] = "resolved" /\ answer'[1][i] = answer[1][i]
    BY <1>1, <1>2, OutcomesKept
  <2>2. \A i \in Id : promise'[1][i] = "resolved" =>
          promise[1][i] = "resolved" \/ answer'[1][i] # NoAnswer
    BY <1>1, <1>2, <1>3 DEF ProcessMessage, Answered, Unheard, Outcome
  <2>3. \A i \in Id : \/ answer'[1][i] = answer[1][i]
                      \/ i = a.id /\ answer'[1][i] = data
    BY <1>1, <1>2, <1>3 DEF ProcessMessage, Answered, Unheard
  <2> QED BY <1>1, <1>2, <2>1, <2>2, <2>3 DEF OutcomesMove
<1>5. WorkerTypeOK'
  BY <1>2 DEF WInv, GoWorkerInv, WorkerTypeOK
<1> QED BY <1>4, <1>5, OutcomesKeep DEF GoWorkerInv

LEMMA RequestTimeoutKeeps ==
  ASSUME WInv, NEW i \in Id, RequestTimeout(i), BrokerTypeOK'
  PROVE  GoWorkerInv'
<1>1. Timeout(1, i) /\ UNCHANGED workerVars
  BY DEF RequestTimeout
<1>2. UNCHANGED <<job, made, request, alive, down, runs, up, processed>>
  BY <1>1 DEF workerVars
<1>3. promise \in [Broker -> [Id -> {"none", "waiting", "resolved", "timeout", "closed"}]]
  BY WInvFacts
<1>4. OutcomesMove
  <2>1. /\ messageId' = messageId
        /\ \A k \in Id : promise[1][k] = "resolved" =>
             promise'[1][k] = "resolved" /\ answer'[1][k] = answer[1][k]
    BY <1>1, OutcomesKept
  <2>2. answer' = answer /\ \A k \in Id : promise'[1][k] = "resolved" => promise[1][k] = "resolved"
    BY <1>1, <1>3 DEF Timeout, Outcome
  <2> QED BY <1>2, <2>1, <2>2 DEF OutcomesMove
<1>5. WorkerTypeOK'
  BY <1>2 DEF WInv, GoWorkerInv, WorkerTypeOK
<1> QED BY <1>4, <1>5, OutcomesKeep DEF GoWorkerInv

LEMMA ConnectionEndsKeeps ==
  ASSUME WInv, ConnectionEnds, BrokerTypeOK'
  PROVE  GoWorkerInv'
<1>1. /\ CloseBroker(1) /\ down' = <<>> /\ up' = {} /\ alive' = FALSE
      /\ UNCHANGED <<job, made, request, runs, processed>>
  BY DEF ConnectionEnds
<1>2. promise \in [Broker -> [Id -> {"none", "waiting", "resolved", "timeout", "closed"}]]
  BY WInvFacts
<1>3. OutcomesMove
  <2>1. /\ messageId' = messageId
        /\ \A k \in Id : promise[1][k] = "resolved" =>
             promise'[1][k] = "resolved" /\ answer'[1][k] = answer[1][k]
    BY <1>1, OutcomesKept
  <2>2. answer' = answer /\ \A k \in Id : promise'[1][k] = "resolved" => promise[1][k] = "resolved"
    BY <1>1, <1>2 DEF CloseBroker, RejectPending, Outcome
  <2> QED BY <1>1, <2>1, <2>2 DEF OutcomesMove
<1>4. WorkerTypeOK'
  <2>1. down' \in Seq(Message)
    BY <1>1
  <2>2. up' \subseteq [id : Id, job : Job, ok : BOOLEAN] /\ alive' \in BOOLEAN
    BY <1>1
  <2> QED BY <1>1, <2>1, <2>2, WInvFacts DEF WorkerTypeOK, WorkerVarsType
<1> QED BY <1>3, <1>4, OutcomesKeep DEF GoWorkerInv

\* The job that settles has the answer of its last request.
LEMMA SettleKeeps ==
  ASSUME WInv, NEW j \in Job, Settle(j)
  PROVE  GoWorkerInv'
<1>1. /\ job[j] = "active"
      /\ job' = [job EXCEPT ![j] = IF Success(j) THEN "completed"
                                   ELSE IF made[j] < Attempts THEN "waiting" ELSE "failed"]
      /\ UNCHANGED <<brokerVars, made, request, alive, down, runs, up, processed>>
  BY DEF Settle
<1>2. /\ \A k \in Job : k # j => job'[k] = job[k]
      /\ job'[j] = "completed" => Success(j)
      /\ job'[j] = "waiting" => made[j] < Attempts
      /\ job'[j] \in {"waiting", "completed", "failed"}
      /\ job' \in [Job -> {"waiting", "active", "completed", "failed"}]
  BY <1>1, WInvFacts DEF WorkerVarsType
<1>3. UNCHANGED <<messageId, promise, answer>>
  BY <1>1 DEF brokerVars
<1>4. AttemptsInv'
  <2>1. made[j] > 0
    BY <1>1, WInvFacts DEF AttemptsInv
  <2>2. \A k \in Job : IF job'[k] = "waiting" THEN made'[k] < Attempts ELSE made'[k] > 0
    BY <1>1, <1>2, <2>1, WInvFacts DEF AttemptsInv
  <2> QED BY <1>1, <1>3, <2>2, WInvFacts DEF AttemptsInv, IsLast
<1>5. AnswersByOwner'
  BY <1>1, <1>3, WInvFacts DEF AnswersByOwner, OfJob, IsLast
<1>6. CompletedByOwnAnswer'
  <2>1. ASSUME job'[j] = "completed"
        PROVE  /\ j \in processed /\ promise[1][request[j]] = "resolved"
               /\ answer[1][request[j]] = [job |-> j, ok |-> TRUE]
    <3> DEFINE a == answer[1][request[j]]
    <3>1. promise[1][request[j]] = "resolved" /\ a.ok
      BY <1>2, <2>1 DEF Success
    <3>2. request[j] \in Id /\ made[j] > 0
      BY <1>1, WInvFacts DEF WorkerVarsType, AttemptsInv
    <3>3. a \in [job : Job, ok : BOOLEAN] /\ OfJob(request[j], a.job) /\ a.job \in processed
      BY <3>1, <3>2, WInvFacts DEF AnswersByOwner
    <3>4. a.job = j
      BY <3>2, <3>3 DEF OfJob, IsLast
    <3>5. a = [job |-> j, ok |-> TRUE]
      BY <3>1, <3>3, <3>4
    <3> QED BY <3>1, <3>3, <3>4, <3>5
  <2> QED BY <1>1, <1>2, <1>3, <2>1, WInvFacts DEF CompletedByOwnAnswer
<1>7. WorkerTypeOK'
  BY <1>1, <1>2 DEF WInv, GoWorkerInv, WorkerTypeOK, BrokerTypeOK, brokerVars
<1> QED BY <1>4, <1>5, <1>6, <1>7 DEF GoWorkerInv

LEMMA WorkerKeeps ==
  ASSUME WInv, WorkerStep \/ \E j \in Job : Process(j)
  PROVE  WInv'
<1>1. BrokerInv'
  BY WorkerBrokerStep, StepPreserves DEF WInv
<1>2. BrokerTypeOK'
  BY <1>1 DEF BrokerInv
<1>3. GoWorkerInv'
  BY <1>2, ProcessKeeps, ReadKeeps, RespondKeeps, ServerMessageKeeps, RequestTimeoutKeeps,
     ConnectionEndsKeeps, SettleKeeps DEF WorkerStep
<1> QED BY <1>1, <1>3 DEF WInv

LEMMA WorkerStutters ==
  ASSUME WInv, UNCHANGED <<brokerVars, workerVars>>
  PROVE  WInv'
<1>1. BrokerInv'
  BY StepPreserves DEF WInv
<1>2. UNCHANGED <<job, made, request, alive, down, runs, up, processed>>
  BY DEF workerVars
<1>3. UNCHANGED <<messageId, promise, answer>>
  BY DEF brokerVars
<1>4. WorkerTypeOK'
  BY <1>1, <1>2 DEF BrokerInv, WInv, GoWorkerInv, WorkerTypeOK
<1>5. AttemptsInv' /\ CompletedByOwnAnswer'
  BY <1>2, <1>3, WInvFacts DEF AttemptsInv, CompletedByOwnAnswer, IsLast
<1>6. AnswersByOwner'
  BY <1>2, <1>3, WInvFacts DEF AnswersByOwner, OfJob, IsLast
<1> QED BY <1>1, <1>4, <1>5, <1>6 DEF WInv, GoWorkerInv

-----------------------------------------------------------------------------
(* The program.                                                            *)

PInv == GoInv /\ NoneEarly /\ AddedAsReported /\ WInv

LEMMA ProgramInductive == ProgramSpec => []PInv
<1>1. ProgramInit => PInv
  <2>1. ClientInit => NoneEarly /\ AddedAsReported
    BY DEF ClientInit, NoneEarly, AddedAsReported
  <2> QED BY <2>1, GoInitEstablishes, WorkerInitEstablishes DEF ProgramInit, PInv
<1>2. PInv /\ [ProgramNext]_programVars => PInv'
  <2> SUFFICES ASSUME PInv, [ProgramNext]_programVars PROVE PInv'
    OBVIOUS
  <2>1. [ClientNext]_clientVars
    BY DEF ProgramNext, programVars
  <2>2. \/ WorkerStep \/ \E j \in Job : Process(j)
        \/ UNCHANGED <<brokerVars, workerVars>>
    BY JobAssumption DEF ProgramNext, programVars, ProcessAdded
  <2>3. GoInv' /\ NoneEarly' /\ AddedAsReported'
    BY <2>1, NextPreserves, NextReports DEF PInv
  <2>4. WInv'
    BY <2>2, WorkerKeeps, WorkerStutters DEF PInv
  <2> QED BY <2>3, <2>4 DEF PInv
<1> QED BY <1>1, <1>2, PTL DEF ProgramSpec

\* Whatever the number of calls: ids are given out once, and channels, requests
\* and answers under an id are of the call that has it.
THEOREM CallsAccounted == ProgramSpec => []GoInv
<1>1. PInv => GoInv
  BY DEF PInv
<1> QED BY <1>1, ProgramInductive, PTL

\* However late, lost or reordered the answers are: AddJob returns a job only
\* when the server added the job of this very call.
THEOREM JobsAreAdded == ProgramSpec => []AddedAsReported
<1>1. PInv => AddedAsReported
  BY DEF PInv
<1> QED BY <1>1, ProgramInductive, PTL

\* Whatever the number of jobs, attempts and messages: messages, calls of the
\* function and answers are of the job of their id, and a job completes only
\* with what the function returned for its last attempt.
THEOREM JobsGetOwnAnswers == ProgramSpec => []GoWorkerInv
<1>1. PInv => GoWorkerInv
  BY DEF PInv, WInv
<1> QED BY <1>1, ProgramInductive, PTL

\* The worker's broker is one that MessageBroker describes: what holds of those
\* holds of it, also that no request waits without a timer.
THEOREM WorkerUsesBroker == ProgramSpec => BrokerSpec
<1>1. ProgramInit => BrokerInit
  BY DEF ProgramInit, WorkerInit
<1>2. PInv /\ [ProgramNext]_programVars => [BrokerNext]_brokerVars
  <2> SUFFICES ASSUME PInv, [ProgramNext]_programVars PROVE [BrokerNext]_brokerVars
    OBVIOUS
  <2>1. CASE WorkerStep \/ \E j \in Job : Process(j)
    BY <2>1, WorkerBrokerStep DEF PInv
  <2>2. CASE UNCHANGED brokerVars
    BY <2>2
  <2> QED BY <2>1, <2>2, JobAssumption DEF ProgramNext, programVars, ProcessAdded
<1> QED BY <1>1, <1>2, ProgramInductive, PTL DEF ProgramSpec, BrokerSpec
=============================================================================
