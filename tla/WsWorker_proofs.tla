--------------------------- MODULE WsWorker_proofs ---------------------------
(***************************************************************************)
(* Proofs about WsWorker.  Every step of the composition is a step of the  *)
(* brokers or leaves them alone, so that their invariant holds here too;   *)
(* on top of it, WsInv ties requests to jobs and answers to requests.      *)
(***************************************************************************)
EXTENDS WsWorker, MessageBroker_proofs

USE DEF Conn

-----------------------------------------------------------------------------
(* What the brokers do in a step.                                          *)

\* No request is sent; requests settle, with an answer only if one came.
QuietStep ==
  /\ messageId' = messageId
  /\ \A c \in Conn, i \in Id :
       /\ promise'[c][i] = "waiting" => promise[c][i] = "waiting"
       /\ promise[c][i] # "none" => promise'[c][i] # "none"
       /\ promise'[c][i] = "resolved" =>
            \/ promise[c][i] = "resolved" /\ answer'[c][i] = answer[c][i]
            \/ \E a \in up : a.conn = c /\ a.id = i /\ answer'[c][i] = a.data

LEMMA UnchangedIsQuiet == UNCHANGED brokerVars => QuietStep
BY DEF brokerVars, QuietStep

LEMMA CloseIsQuiet ==
  ASSUME BrokerTypeOK, NEW c \in Conn, CloseBroker(c)
  PROVE  QuietStep
BY DEF BrokerTypeOK, CloseBroker, RejectPending, Outcome, QuietStep

LEMMA TimeoutIsQuiet ==
  ASSUME BrokerTypeOK, NEW c \in Conn, NEW i \in Id, Timeout(c, i)
  PROVE  QuietStep
BY DEF BrokerTypeOK, Timeout, Outcome, QuietStep

LEMMA AnswerIsQuiet ==
  ASSUME BrokerTypeOK, NEW m \in up, m.conn \in Conn, m.id \in Id,
         m.data \in Answer, ProcessMessage(m.conn, m.id, m.data)
  PROVE  QuietStep
<1> DEFINE b == m.conn  i == m.id
<1>1. CASE Unheard(b, i)
  BY <1>1 DEF Unheard, QuietStep
<1>2. CASE Answered(b, i, m.data)
  <2>1. messageId' = messageId
    BY <1>2 DEF Answered
  <2>2. \A c \in Conn, k \in Id : <<c, k>> # <<b, i>> =>
          promise'[c][k] = promise[c][k] /\ answer'[c][k] = answer[c][k]
    BY <1>2 DEF Answered, BrokerTypeOK
  <2>3. /\ promise'[b][i] = IF promise[b][i] = "waiting" THEN "resolved"
                                                         ELSE promise[b][i]
        /\ answer'[b][i] = IF promise[b][i] = "waiting" THEN m.data
                                                        ELSE answer[b][i]
    BY <1>2 DEF Answered, BrokerTypeOK, Outcome
  <2> QED
    BY <2>1, <2>2, <2>3 DEF QuietStep
<1> QED
  BY <1>1, <1>2 DEF ProcessMessage

\* Process: the request of j gets the next id of its broker, which is fresh.
LEMMA SendIsFresh ==
  ASSUME BrokerInv, NEW c \in Conn, SendData(c)
  PROVE  /\ messageId[c] \in Id /\ promise[c][messageId[c]] = "none"
         /\ messageId' = [messageId EXCEPT ![c] = @ + 1]
         /\ promise'[c][messageId[c]] = "waiting"
         /\ \A d \in Conn, i \in Id : <<d, i>> # <<c, messageId[c]>> =>
              promise'[d][i] = promise[d][i] /\ answer'[d][i] = answer[d][i]
<1>1. messageId[c] \in Id /\ promise[c][messageId[c]] = "none"
  BY BrokerAssumption DEF BrokerInv, BrokerTypeOK, FreshIdsUnused, SendData, Id
<1> QED
  BY <1>1 DEF BrokerInv, BrokerTypeOK, SendData, NextId

-----------------------------------------------------------------------------
(* The composition implements the brokers.                                 *)

LEMMA BrokerStep ==
  ASSUME WsTypeOK, Control, WsNext
  PROVE  BrokerNext \/ UNCHANGED brokerVars
<1>1. ASSUME NEW c \in Conn, ServerNotices(c) PROVE BrokerNext
  BY <1>1 DEF ServerNotices, BrokerNext
<1>2. ASSUME NEW c \in Conn, NEW i \in Id, RequestTimeout(c, i) PROVE BrokerNext
  BY <1>2 DEF RequestTimeout, BrokerNext
<1>3. ASSUME NEW j \in Job, Process(j) PROVE BrokerNext
  BY <1>3 DEF Process, BrokerNext, Control, HeldByOpen
<1>4. ASSUME NEW m \in up, ServerMessage(m) PROVE BrokerNext
  <2>1. m.conn \in Broker /\ m.id \in Id /\ m.data \in Answer
    BY DEF WsTypeOK, Reply
  <2> QED
    BY <1>4, <2>1 DEF ServerMessage, BrokerNext
<1> QED
  BY <1>1, <1>2, <1>3, <1>4 DEF WsNext, Connect, LinkFails, ClientNotices,
    UserClose, Fetch, JobSettles, WorkerCloses, ClientMessage, ClientAnswer

-----------------------------------------------------------------------------
(* The invariant at the start.                                             *)

LEMMA WsInitEstablishes == WsInit => WsInv
<1> SUFFICES ASSUME WsInit PROVE WsInv
  OBVIOUS
<1> USE WsAssumption, BrokerAssumption
<1>1. BrokerInv
  BY InitEstablishes DEF WsInit
<1>2. WsTypeOK
  BY <1>1 DEF WsInit, WsTypeOK, BrokerInv, Id
<1>3. Control /\ Asked /\ OwnResult
  BY DEF WsInit, Control, HeldByOpen, InOrder, Asked, OwnResult
<1>4. RequestsMatchJobs
  BY DEF WsInit, BrokerInit, RequestsMatchJobs, Waiting
<1>5. Provenance
  BY DEF WsInit, BrokerInit, Provenance
<1> QED
  BY <1>1, <1>2, <1>3, <1>4, <1>5 DEF WsInv

-----------------------------------------------------------------------------
(* Types.                                                                  *)

LEMMA AnswerType ==
  ASSUME BrokerTypeOK, NEW c \in Conn, NEW i \in Id
  PROVE  answer[c][i] \in Answer \cup {NoAnswer}
BY DEF BrokerTypeOK

LEMMA TypeStep ==
  ASSUME BrokerInv, BrokerTypeOK', WsTypeOK, Control, WsNext
  PROVE  WsTypeOK'
<1> USE WsAssumption
<1>1. ASSUME NEW c \in Conn, Connect(c) PROVE WsTypeOK'
  BY <1>1 DEF WsTypeOK, Connect, jobVars
<1>2. ASSUME NEW c \in Conn, LinkFails(c) PROVE WsTypeOK'
  BY <1>2 DEF WsTypeOK, LinkFails, clientVars, jobVars
<1>3. ASSUME NEW c \in Conn, ServerNotices(c) PROVE WsTypeOK'
  BY <1>3 DEF WsTypeOK, ServerNotices, CloseWorker, clientVars, jobVars
<1>4. ASSUME NEW c \in Conn, WorkerCloses(c) PROVE WsTypeOK'
  BY <1>4 DEF WsTypeOK, WorkerCloses, clientVars, jobVars
<1>5. ASSUME NEW c \in Conn, NEW j \in Job, Fetch(c, j) PROVE WsTypeOK'
  BY <1>5 DEF WsTypeOK, Fetch, Control, HeldByOpen, connVars, clientVars
<1>6. ASSUME NEW c \in Conn, NEW i \in Id, RequestTimeout(c, i) PROVE WsTypeOK'
  BY <1>6 DEF WsTypeOK, RequestTimeout, connVars, clientVars, jobVars
<1>7. ASSUME NEW j \in Job, Process(j) PROVE WsTypeOK'
  <2>1. by[j] \in Conn /\ SendData(by[j])
    BY <1>7 DEF Process, Control, HeldByOpen
  <2>2. messageId[by[j]] \in Id
    BY <2>1, SendIsFresh
  <2>3. [conn |-> by[j], id |-> messageId[by[j]], job |-> j] \in Request
    BY <2>1, <2>2 DEF Request
  <2>4. down' \subseteq Request
    BY <1>7, <2>3 DEF Process, NextId, WsTypeOK
  <2> QED
    BY <1>7, <2>2, <2>4 DEF WsTypeOK, Process, NextId, connVars, clientVars
<1>8. ASSUME NEW j \in Job, JobSettles(j) PROVE WsTypeOK'
  <2>1. by[j] \in Conn /\ msg[j] \in Id
    BY <1>8 DEF JobSettles, Control, HeldByOpen, WsTypeOK
  <2>2. answer[by[j]][msg[j]] \in Answer \cup {NoAnswer}
    BY <2>1, AnswerType DEF WsTypeOK
  <2>3. verdict' \in [Job -> Answer \cup {NoAnswer}]
    BY <1>8, <2>2 DEF JobSettles, WsTypeOK
  <2>4. status' \in [Job -> {"waiting", "fetched", "active", "completed", "failed"}]
    BY <1>8 DEF JobSettles, WsTypeOK, AfterFailure
  <2> QED
    BY <1>8, <2>3, <2>4 DEF WsTypeOK, JobSettles, connVars, clientVars
<1>9. CASE ClientNotices
  BY <1>9 DEF WsTypeOK, ClientNotices, connVars, jobVars
<1>10. CASE UserClose
  BY <1>10 DEF WsTypeOK, UserClose, connVars, jobVars
<1>11. ASSUME NEW m \in up, ServerMessage(m) PROVE WsTypeOK'
  BY <1>11 DEF WsTypeOK, ServerMessage, connVars, clientVars, jobVars
<1>12. ASSUME NEW m \in down, ClientMessage(m) PROVE WsTypeOK'
  BY <1>12 DEF WsTypeOK, ClientMessage, connVars, jobVars
<1>13. ASSUME NEW m \in runs, NEW ok \in BOOLEAN, ClientAnswer(m, ok)
       PROVE  WsTypeOK'
  <2>1. /\ m.conn \in Conn /\ m.id \in Id /\ m.job \in Job
    BY DEF WsTypeOK, Request
  <2>2. <<m.job, m.conn, ok>> \in Answer
    BY <2>1
  <2>3. instance # NoConn =>
          [conn |-> instance, id |-> m.id, data |-> <<m.job, m.conn, ok>>] \in Reply
    BY <2>1, <2>2 DEF Reply, WsTypeOK
  <2>4. up' \subseteq Reply
    BY <1>13, <2>3 DEF ClientAnswer, WsTypeOK
  <2> QED
    BY <1>13, <2>4 DEF WsTypeOK, ClientAnswer, connVars, jobVars
<1> QED
  BY <1>1, <1>2, <1>3, <1>4, <1>5, <1>6, <1>7, <1>8, <1>9, <1>10, <1>11, <1>12,
    <1>13 DEF WsNext

-----------------------------------------------------------------------------
(* Connections, workers and the jobs they hold.                            *)

LEMMA ControlStep ==
  ASSUME WsTypeOK, Control, WsNext
  PROVE  Control'
<1> USE WsAssumption
<1>1. ASSUME NEW c \in Conn, Connect(c) PROVE Control'
  <2>1. \A d \in Conn : d < c => link[d] # "none"
    BY <1>1 DEF Connect
  <2>2. \A d \in Conn : c < d => link[d] = "none"
    BY <1>1 DEF Connect, Control, InOrder
  <2>3. /\ link' = [link EXCEPT ![c] = "up"]
        /\ \A d \in Conn : d # c => worker'[d] = worker[d]
        /\ instance' = c /\ UNCHANGED jobVars
    BY <1>1 DEF Connect, WsTypeOK
  <2>4. \A j \in Job : status[j] \in {"fetched", "active"} =>
          by[j] \in Conn /\ by[j] # c
    BY <1>1 DEF Connect, Control, HeldByOpen, InOrder
  <2>5. \A j \in Job :
          /\ status'[j] \in {"fetched", "active"} =>
               by'[j] \in Conn /\ worker'[by'[j]] \in {"running", "closing"}
          /\ status'[j] = "waiting" => attempts'[j] < MaxAttempts
    BY <2>3, <2>4 DEF Control, HeldByOpen, jobVars
  <2>6. \A d \in Conn : link'[d] # "none" <=> link[d] # "none" \/ d = c
    BY <2>3 DEF WsTypeOK
  <2>7. \A d \in Conn : worker'[d] \in {"running", "closing"} => link'[d] # "none"
    BY <2>3, <2>6 DEF Control, InOrder
  <2>8. \A d, e \in Conn : link'[e] # "none" /\ d < e => link'[d] # "none"
    BY <2>1, <2>6 DEF Control, InOrder
  <2>9. \A d \in Conn : link'[d] # "none" => d <= c
    <3>1. SUFFICES ASSUME NEW d \in Conn, link'[d] # "none" PROVE d <= c
      OBVIOUS
    <3>2. c \in Nat /\ d \in Nat
      BY WsAssumption
    <3> HIDE WsAssumption
    <3>3. d = c \/ ~(c < d)
      BY <2>2, <2>6, <3>1
    <3> QED
      BY <3>2, <3>3
  <2>10. /\ link'[instance'] # "none"
         /\ \A d \in Conn : link'[d] # "none" => d <= instance'
    BY <2>3, <2>6, <2>9
  <2>11. HeldByOpen'
    BY <2>5 DEF HeldByOpen
  <2>12. InOrder'
    BY <2>7, <2>8, <2>10 DEF InOrder
  <2> QED
    BY <2>11, <2>12 DEF Control
<1>2. ASSUME NEW c \in Conn, LinkFails(c) PROVE Control'
  BY <1>2 DEF WsTypeOK, Control, HeldByOpen, InOrder, LinkFails, clientVars, jobVars
<1>3. ASSUME NEW c \in Conn, ServerNotices(c) PROVE Control'
  BY <1>3 DEF WsTypeOK, Control, HeldByOpen, InOrder, ServerNotices, CloseWorker,
    clientVars, jobVars
<1>4. ASSUME NEW c \in Conn, WorkerCloses(c) PROVE Control'
  BY <1>4 DEF WsTypeOK, Control, HeldByOpen, InOrder, WorkerCloses, Held, clientVars, jobVars
<1>5. ASSUME NEW c \in Conn, NEW j \in Job, Fetch(c, j) PROVE Control'
  BY <1>5 DEF WsTypeOK, Control, HeldByOpen, InOrder, Fetch, connVars, clientVars
<1>6. ASSUME NEW j \in Job, Process(j) PROVE Control'
  BY <1>6 DEF WsTypeOK, Control, HeldByOpen, InOrder, Process, connVars, clientVars
<1>7. ASSUME NEW j \in Job, JobSettles(j) PROVE Control'
  BY <1>7 DEF WsTypeOK, Control, HeldByOpen, InOrder, JobSettles, AfterFailure,
    connVars, clientVars
<1>8. CASE ClientNotices \/ UserClose
  BY <1>8 DEF WsTypeOK, Control, HeldByOpen, InOrder, ClientNotices, UserClose,
    connVars, jobVars
<1>9. CASE UNCHANGED <<connVars, instance, jobVars>>
  BY <1>9 DEF Control, HeldByOpen, InOrder, connVars, jobVars
<1> QED
  BY <1>1, <1>2, <1>3, <1>4, <1>5, <1>6, <1>7, <1>8, <1>9
  DEF WsNext, RequestTimeout, ServerMessage, ClientMessage, ClientAnswer,
    connVars, clientVars, jobVars

-----------------------------------------------------------------------------
(* Requests and the jobs they belong to.                                   *)

\* Three actions move a job; in all others requests only settle.
LEMMA StepKinds ==
  ASSUME WsTypeOK, WsNext
  PROVE  \/ \E c \in Conn, j \in Job : Fetch(c, j)
         \/ \E j \in Job : Process(j)
         \/ \E j \in Job : JobSettles(j)
         \/ QuietStep /\ UNCHANGED jobVars
<1>1. ASSUME NEW c \in Conn, ServerNotices(c)
      PROVE  QuietStep /\ UNCHANGED jobVars
  BY <1>1, CloseIsQuiet DEF ServerNotices, WsTypeOK
<1>2. ASSUME NEW c \in Conn, NEW i \in Id, RequestTimeout(c, i)
      PROVE  QuietStep /\ UNCHANGED jobVars
  BY <1>2, TimeoutIsQuiet DEF RequestTimeout, WsTypeOK
<1>3. ASSUME NEW m \in up, ServerMessage(m)
      PROVE  QuietStep /\ UNCHANGED jobVars
  <2>1. m.conn \in Conn /\ m.id \in Id /\ m.data \in Answer
    BY DEF WsTypeOK, Reply
  <2> QED
    BY <1>3, <2>1, AnswerIsQuiet DEF ServerMessage, WsTypeOK
<1>4. CASE \/ \E c \in Conn : Connect(c) \/ LinkFails(c) \/ WorkerCloses(c)
           \/ ClientNotices \/ UserClose
           \/ \E m \in down : ClientMessage(m)
           \/ \E m \in runs, ok \in BOOLEAN : ClientAnswer(m, ok)
  BY <1>4, UnchangedIsQuiet DEF Connect, LinkFails, WorkerCloses, ClientNotices,
    UserClose, ClientMessage, ClientAnswer
<1> QED
  BY <1>1, <1>2, <1>3, <1>4 DEF WsNext

\* Sending for job j, with what the request's id is.
LEMMA ProcessSends ==
  ASSUME BrokerInv, WsTypeOK, Control, NEW j \in Job, Process(j)
  PROVE  /\ by[j] \in Conn /\ messageId[by[j]] \in Id
         /\ promise[by[j]][messageId[by[j]]] = "none"
         /\ promise'[by[j]][messageId[by[j]]] = "waiting"
         /\ messageId' = [messageId EXCEPT ![by[j]] = @ + 1]
         /\ \A d \in Conn, i \in Id : <<d, i>> # <<by[j], messageId[by[j]]>> =>
              promise'[d][i] = promise[d][i] /\ answer'[d][i] = answer[d][i]
         /\ status[j] = "fetched" /\ status' = [status EXCEPT ![j] = "active"]
         /\ msg' = [msg EXCEPT ![j] = messageId[by[j]]]
         /\ by' = by
<1>1. by[j] \in Conn /\ SendData(by[j])
  BY DEF Process, Control, HeldByOpen
<1> QED
  BY <1>1, SendIsFresh DEF Process, NextId

LEMMA AskedStep ==
  ASSUME BrokerInv, WsTypeOK, Control, Asked, WsNext
  PROVE  Asked'
<1>0. \A j \in Job : /\ msg[j] \in Id
                     /\ status[j] = "active" => by[j] \in Conn
  BY DEF WsTypeOK, Control, HeldByOpen
<1>00. \A c \in Conn : messageId[c] \in Nat
  BY BrokerAssumption DEF WsTypeOK, BrokerTypeOK
<1>1. ASSUME NEW c \in Conn, NEW j \in Job, Fetch(c, j) PROVE Asked'
  BY <1>1 DEF Fetch, Asked, WsTypeOK, brokerVars
<1>2. ASSUME NEW j \in Job, Process(j) PROVE Asked'
  <2>1. SUFFICES ASSUME NEW k \in Job, status'[k] = "active"
                 PROVE  /\ msg'[k] < messageId'[by'[k]]
                        /\ promise'[by'[k]][msg'[k]] # "none"
    BY DEF Asked
  <2>2. CASE k = j
    BY <1>2, <1>00, <2>2, ProcessSends DEF WsTypeOK, BrokerTypeOK
  <2>3. CASE k # j
    <3>1. status[k] = "active" /\ by'[k] = by[k] /\ msg'[k] = msg[k]
      BY <1>2, <2>1, <2>3, ProcessSends DEF WsTypeOK
    <3>2. msg[k] < messageId[by[k]] /\ promise[by[k]][msg[k]] # "none"
      BY <3>1 DEF Asked
    <3>3. messageId[by[k]] <= messageId'[by[k]]
      <4>1. /\ by[j] \in Conn /\ by[k] \in Conn
            /\ messageId' = [messageId EXCEPT ![by[j]] = @ + 1]
        BY <1>0, <1>2, <3>1, ProcessSends
      <4> QED
        BY <1>00, <4>1 DEF WsTypeOK, BrokerTypeOK
    <3>4. <<by[k], msg[k]>> # <<by[j], messageId[by[j]]>>
      BY <1>2, <3>2, ProcessSends
    <3>5. promise'[by[k]][msg[k]] = promise[by[k]][msg[k]]
      BY <1>0, <1>2, <3>1, <3>4, ProcessSends
    <3>6. msg[k] \in Nat /\ messageId'[by[k]] \in Nat
      <4>1. \A n \in Id : n \in Nat
        BY BrokerAssumption DEF Id
      <4>2. messageId' = [messageId EXCEPT ![by[j]] = @ + 1] /\ by[j] \in Conn
        BY <1>2, ProcessSends
      <4>3. DOMAIN messageId = Conn
        BY DEF WsTypeOK, BrokerTypeOK
      <4>4. \A c \in Conn : messageId'[c] \in Nat
        BY <1>00, <4>2, <4>3
      <4> QED
        BY <1>0, <3>1, <4>1, <4>4
    <3>7. msg[k] < messageId'[by[k]]
      BY <1>0, <1>00, <3>1, <3>2, <3>3, <3>6
    <3> QED
      BY <3>1, <3>2, <3>5, <3>7
  <2> QED
    BY <2>2, <2>3
<1>3. ASSUME NEW j \in Job, JobSettles(j) PROVE Asked'
  BY <1>3 DEF JobSettles, AfterFailure, Asked, WsTypeOK, brokerVars
<1>4. ASSUME QuietStep, UNCHANGED jobVars PROVE Asked'
  BY <1>0, <1>4 DEF Asked, QuietStep, jobVars
<1> QED
  BY <1>1, <1>2, <1>3, <1>4, StepKinds

\* The owner of a waiting request stays its owner until the request settles.
LEMMA MatchStep ==
  ASSUME BrokerInv, WsTypeOK, Control, Asked, RequestsMatchJobs, WsNext, Control'
  PROVE  RequestsMatchJobs'
<1> DEFINE Owned == \A c \in Conn, i \in Id : promise[c][i] = "waiting" =>
              \E j \in Job : status[j] = "active" /\ by[j] = c /\ msg[j] = i
           Distinct == \A j, k \in Job :
              /\ status[j] = "active" /\ status[k] = "active"
              /\ by[j] = by[k] /\ msg[j] = msg[k]
              => j = k
<1>0. Owned /\ Distinct
  BY DEF RequestsMatchJobs, Waiting
<1>1. SUFFICES Owned' /\ Distinct'
  <2>1. ASSUME Owned', Distinct', NEW c \in Conn, NEW i \in Waiting(c)'
        PROVE  worker'[c] \in {"running", "closing"}
    BY <2>1 DEF Waiting, Control, HeldByOpen
  <2> QED
    BY <2>1 DEF RequestsMatchJobs, Waiting
<1>2. ASSUME NEW c \in Conn, NEW j \in Job, Fetch(c, j)
      PROVE  Owned' /\ Distinct'
  <2>1. /\ status[j] = "waiting" /\ status'[j] = "fetched"
        /\ \A k \in Job : k # j => status'[k] = status[k] /\ by'[k] = by[k]
        /\ msg' = msg /\ promise' = promise
    BY <1>2 DEF Fetch, WsTypeOK, brokerVars
  <2>2. \A k \in Job : status[k] = "active" \/ status'[k] = "active" =>
          status'[k] = status[k] /\ by'[k] = by[k]
    BY <2>1
  <2> QED
    BY <1>0, <2>1, <2>2
<1>3. ASSUME NEW j \in Job, Process(j) PROVE Owned' /\ Distinct'
  <2> DEFINE c == by[j]  i == messageId[c]
  <2>1. /\ c \in Conn /\ i \in Id /\ status[j] = "fetched"
        /\ status'[j] = "active" /\ msg'[j] = i /\ by' = by
        /\ \A k \in Job : k # j => status'[k] = status[k] /\ msg'[k] = msg[k]
        /\ \A d \in Conn, n \in Id : <<d, n>> # <<c, i>> =>
             promise'[d][n] = promise[d][n]
    BY <1>3, ProcessSends DEF WsTypeOK
  <2>2. Owned'
    <3>1. SUFFICES ASSUME NEW d \in Conn, NEW n \in Id, promise'[d][n] = "waiting"
                   PROVE  \E k \in Job : /\ status'[k] = "active"
                                         /\ by'[k] = d /\ msg'[k] = n
      OBVIOUS
    <3>2. CASE <<d, n>> = <<c, i>>
      BY <2>1, <3>2
    <3>3. CASE <<d, n>> # <<c, i>>
      <4>1. PICK k \in Job : status[k] = "active" /\ by[k] = d /\ msg[k] = n
        BY <1>0, <2>1, <3>1, <3>3
      <4>2. k # j
        BY <2>1, <4>1
      <4> QED
        BY <2>1, <4>1, <4>2
    <3> QED
      BY <3>2, <3>3
  <2>3. \A k \in Job : status[k] = "active" /\ by[k] = c => msg[k] < i
    BY DEF Asked
  <2>4. Distinct'
    <3>1. ASSUME NEW k \in Job, status[k] = "active", by[k] = c, msg[k] = i
          PROVE  FALSE
      <4>1. msg[k] < i /\ i \in Nat
        BY <2>1, <2>3, <3>1, BrokerAssumption DEF Id
      <4> QED
        BY <3>1, <4>1
    <3> QED
      BY <1>0, <2>1, <3>1
  <2> QED
    BY <2>2, <2>4
<1>4. ASSUME NEW j \in Job, JobSettles(j) PROVE Owned' /\ Distinct'
  <2>1. /\ promise[by[j]][msg[j]] # "waiting" /\ status'[j] # "active"
        /\ \A k \in Job : k # j => status'[k] = status[k]
        /\ by' = by /\ msg' = msg /\ promise' = promise
    BY <1>4 DEF JobSettles, AfterFailure, WsTypeOK, brokerVars
  <2> QED
    BY <1>0, <2>1
<1>5. ASSUME QuietStep, UNCHANGED jobVars PROVE Owned' /\ Distinct'
  BY <1>0, <1>5 DEF QuietStep, jobVars
<1> QED
  BY <1>2, <1>3, <1>4, <1>5, StepKinds

-----------------------------------------------------------------------------
(* Where answers come from.                                                *)

\* A message that was sent fits its job for good: new requests get new ids.
LEMMA FitsStep ==
  ASSUME BrokerInv, WsTypeOK, Control, WsNext,
         NEW c \in Conn, NEW i \in Id, NEW k, i < messageId[c], Fits(c, i, k)
  PROVE  Fits(c, i, k)' /\ i < messageId'[c]
<1>0. messageId[c] \in Nat /\ i \in Nat
  BY BrokerAssumption DEF WsTypeOK, BrokerTypeOK, Id
<1>1. ASSUME NEW d \in Conn, NEW j \in Job, Fetch(d, j)
      PROVE  Fits(c, i, k)' /\ i < messageId'[c]
  BY <1>1 DEF Fetch, Fits, WsTypeOK, brokerVars
<1>2. ASSUME NEW j \in Job, Process(j)
      PROVE  Fits(c, i, k)' /\ i < messageId'[c]
  <2>1. /\ by[j] \in Conn /\ msg'[j] = messageId[by[j]] /\ by' = by
        /\ \A l \in Job : l # j => status'[l] = status[l] /\ msg'[l] = msg[l]
        /\ messageId' = [messageId EXCEPT ![by[j]] = @ + 1]
    BY <1>2, ProcessSends DEF WsTypeOK
  <2>2. by[j] = c => msg'[j] # i
    BY <1>0, <2>1
  <2>3. Fits(c, i, k)'
    BY <2>1, <2>2 DEF Fits
  <2>4. i < messageId'[c]
    BY <1>0, <2>1 DEF WsTypeOK, BrokerTypeOK
  <2> QED
    BY <2>3, <2>4
<1>3. ASSUME NEW j \in Job, JobSettles(j)
      PROVE  Fits(c, i, k)' /\ i < messageId'[c]
  BY <1>3 DEF JobSettles, AfterFailure, Fits, WsTypeOK, brokerVars
<1>4. ASSUME QuietStep, UNCHANGED jobVars
      PROVE  Fits(c, i, k)' /\ i < messageId'[c]
  BY <1>4 DEF Fits, QuietStep, jobVars
<1> QED
  BY <1>1, <1>2, <1>3, <1>4, StepKinds

LEMMA ProperStep ==
  ASSUME BrokerInv, WsTypeOK, Control, WsNext,
         NEW c \in Conn, NEW i \in Id, NEW d, Proper(c, i, d)
  PROVE  Proper(c, i, d)'
BY FitsStep DEF Proper

LEMMA LinkStays ==
  ASSUME WsTypeOK, WsNext, NEW c \in Conn, link[c] # "none"
  PROVE  link'[c] # "none"
<1>1. ASSUME NEW d \in Conn, Connect(d) PROVE link'[c] # "none"
  BY <1>1 DEF Connect, WsTypeOK
<1>2. ASSUME NEW d \in Conn, LinkFails(d) PROVE link'[c] # "none"
  BY <1>2 DEF LinkFails, WsTypeOK
<1> QED
  BY <1>1, <1>2 DEF WsNext, ServerNotices, WorkerCloses, Fetch, RequestTimeout,
    Process, JobSettles, ClientNotices, UserClose, ServerMessage, ClientMessage,
    ClientAnswer, connVars

\* Only Process makes a message to the client, and it fits the job it is for.
LEMMA RequestsStep ==
  ASSUME BrokerInv, WsTypeOK, Control, Asked, Provenance, WsNext,
         NEW m \in down' \cup runs', m.conn \in Conn, m.id \in Id
  PROVE  /\ link'[m.conn] # "none" /\ m.id < messageId'[m.conn]
         /\ Fits(m.conn, m.id, m.job)'
<1>1. CASE m \in down \cup runs
  <2>1. /\ link[m.conn] # "none" /\ m.id < messageId[m.conn]
        /\ Fits(m.conn, m.id, m.job)
    BY <1>1 DEF Provenance
  <2> QED
    BY <2>1, FitsStep, LinkStays
<1>2. ASSUME m \notin down \cup runs
      PROVE  \E j \in Job : Process(j) /\ m \notin down \cup runs
  BY <1>2 DEF WsNext, Connect, LinkFails, ServerNotices, WorkerCloses, Fetch,
    RequestTimeout, JobSettles, ClientNotices, UserClose, ServerMessage,
    ClientMessage, ClientAnswer, clientVars
<1>3. ASSUME NEW j \in Job, Process(j), m \notin down \cup runs
      PROVE  /\ link'[m.conn] # "none" /\ m.id < messageId'[m.conn]
             /\ Fits(m.conn, m.id, m.job)'
  <2>0. PICK c \in Conn, i \in Nat : c = by[j] /\ i = messageId[c]
    BY <1>3, ProcessSends, BrokerAssumption DEF Id
  <2>1. m.conn = c /\ m.id = i /\ m.job = j /\ link'[c] = "up"
    BY <1>3, <2>0 DEF Process, NextId, connVars, clientVars
  <2>2. /\ messageId'[c] = i + 1 /\ by' = by
        /\ \A l \in Job : l # j => status'[l] = status[l] /\ msg'[l] = msg[l]
    BY <1>3, <2>0, ProcessSends DEF WsTypeOK, BrokerTypeOK
  <2>3. \A l \in Job : status[l] = "active" /\ by[l] = c => msg[l] < i
    BY <2>0 DEF Asked
  <2>4. \A l \in Job : msg[l] \in Nat
    BY BrokerAssumption DEF WsTypeOK, Id
  <2>5. \A l \in Job : status[l] = "active" /\ by[l] = c => msg[l] # i
    BY <2>2, <2>3, <2>4
  <2>6. Fits(c, i, j)'
    BY <2>2, <2>5 DEF Fits
  <2> QED
    BY <2>1, <2>2, <2>6
<1> QED
  BY <1>1, <1>2, <1>3

\* The client answers through its newest connection.
LEMMA RepliesStep ==
  ASSUME BrokerInv, WsTypeOK, Control, Provenance, WsNext,
         NEW a \in up', a.conn \in Conn, a.id \in Id
  PROVE  Proper(a.conn, a.id, a.data)'
<1>1. Proper(a.conn, a.id, a.data)
  <2>1. CASE a \in up
    BY <2>1 DEF Provenance
  <2>2. ASSUME a \notin up
        PROVE  \E m \in runs, ok \in BOOLEAN : ClientAnswer(m, ok) /\ a \notin up
    BY <2>2 DEF WsNext, Connect, LinkFails, ServerNotices, WorkerCloses, Fetch,
      RequestTimeout, Process, JobSettles, ClientNotices, UserClose,
      ServerMessage, ClientMessage, clientVars
  <2>3. ASSUME NEW m \in runs, NEW ok \in BOOLEAN, ClientAnswer(m, ok), a \notin up
        PROVE  Proper(a.conn, a.id, a.data)
    <3>1. a.conn = instance /\ a.id = m.id /\ a.data = <<m.job, m.conn, ok>>
          /\ instance # NoConn
      BY <2>3 DEF ClientAnswer
    <3>2. m.conn \in Conn /\ link[m.conn] # "none" /\ m.id < messageId[m.conn]
          /\ Fits(m.conn, m.id, m.job)
      BY DEF Provenance, WsTypeOK, Request
    <3>3. m.conn <= instance
      BY <3>1, <3>2 DEF Control, InOrder
    <3>4. a.data[1] = m.job /\ a.data[2] = m.conn
      BY <3>1
    <3> QED
      BY <3>1, <3>2, <3>3, <3>4 DEF Proper
  <2> QED
    BY <2>1, <2>2, <2>3
<1> QED
  BY <1>1, ProperStep

\* A request resolves with an answer that had come for it.
LEMMA AnswersStep ==
  ASSUME BrokerInv, WsTypeOK, Control, Provenance, WsNext,
         NEW c \in Conn, NEW i \in Id, promise'[c][i] = "resolved"
  PROVE  \E d \in Answer : answer'[c][i] = d /\ Proper(c, i, d)'
<1>1. \/ promise[c][i] = "resolved" /\ answer'[c][i] = answer[c][i]
      \/ \E a \in up : a.conn = c /\ a.id = i /\ answer'[c][i] = a.data
  <2>1. ASSUME NEW j \in Job, Process(j)
        PROVE  promise[c][i] = "resolved" /\ answer'[c][i] = answer[c][i]
    BY <2>1, ProcessSends
  <2>2. CASE \E d \in Conn, j \in Job : Fetch(d, j)
    BY <2>2 DEF Fetch, brokerVars
  <2>3. CASE \E j \in Job : JobSettles(j)
    BY <2>3 DEF JobSettles, brokerVars
  <2>4. CASE QuietStep
    BY <2>4 DEF QuietStep
  <2> QED
    BY <2>1, <2>2, <2>3, <2>4, StepKinds
<1>2. PICK d \in Answer : answer'[c][i] = d /\ Proper(c, i, d)
  BY <1>1 DEF Provenance, WsTypeOK, Reply
<1>3. Proper(c, i, d)'
  BY <1>2, ProperStep
<1> QED
  BY <1>2, <1>3

LEMMA ProvenanceStep ==
  ASSUME BrokerInv, WsTypeOK, Control, Asked, Provenance, WsNext, WsTypeOK'
  PROVE  Provenance'
<1>1. \A m \in down' \cup runs' : m.conn \in Conn /\ m.id \in Id
  BY DEF WsTypeOK, Request
<1>2. \A a \in up' : a.conn \in Conn /\ a.id \in Id
  BY DEF WsTypeOK, Reply
<1>3. ASSUME NEW m \in down' \cup runs'
      PROVE  /\ link'[m.conn] # "none" /\ m.id < messageId'[m.conn]
             /\ Fits(m.conn, m.id, m.job)'
  BY <1>1, RequestsStep
<1>4. ASSUME NEW a \in up' PROVE Proper(a.conn, a.id, a.data)'
  BY <1>2, RepliesStep
<1>5. ASSUME NEW c \in Conn, NEW i \in Id, promise'[c][i] = "resolved"
      PROVE  (answer[c][i] \in Answer /\ Proper(c, i, answer[c][i]))'
  <2>1. PICK d \in Answer : answer'[c][i] = d /\ Proper(c, i, d)'
    BY <1>5, AnswersStep
  <2> QED
    BY <2>1 DEF Proper, Fits
<1> QED
  BY <1>3, <1>4, <1>5 DEF Provenance

-----------------------------------------------------------------------------
(* A completed job has its own result.                                     *)

LEMMA OwnResultStep ==
  ASSUME WsTypeOK, Control, Provenance, OwnResult, WsNext
  PROVE  OwnResult'
<1>1. ASSUME NEW c \in Conn, NEW j \in Job, Fetch(c, j) PROVE OwnResult'
  BY <1>1 DEF Fetch, OwnResult, WsTypeOK
<1>2. ASSUME NEW j \in Job, Process(j) PROVE OwnResult'
  BY <1>2 DEF Process, OwnResult, WsTypeOK
<1>3. ASSUME NEW j \in Job, JobSettles(j) PROVE OwnResult'
  <2>1. PICK c \in Conn, i \in Id, d \in Answer \cup {NoAnswer} :
          c = by[j] /\ i = msg[j] /\ d = answer[c][i]
    BY <1>3, AnswerType DEF JobSettles, Control, HeldByOpen, WsTypeOK
  <2>2. /\ status[j] = "active" /\ by' = by
        /\ \A k \in Job : k # j =>
             status'[k] = status[k] /\ verdict'[k] = verdict[k]
        /\ status'[j] = "completed" => promise[c][i] = "resolved" /\ verdict'[j] = d
    BY <1>3, <2>1 DEF JobSettles, AfterFailure, WsTypeOK
  <2>3. ASSUME promise[c][i] = "resolved"
        PROVE  d[1] = j \/ d[2] < c
    <3>1. d \in Answer /\ Proper(c, i, d)
      BY <2>1, <2>3 DEF Provenance
    <3>2. d[2] \in Nat /\ c \in Nat
      BY <3>1, WsAssumption
    <3>3. d[2] <= c /\ (d[2] = c => d[1] = j)
      BY <2>1, <2>2, <3>1 DEF Proper, Fits
    <3> QED
      BY <3>2, <3>3
  <2> QED
    BY <2>1, <2>2, <2>3 DEF OwnResult
<1>4. CASE UNCHANGED jobVars
  BY <1>4 DEF jobVars, OwnResult
<1> QED
  BY <1>1, <1>2, <1>3, <1>4, StepKinds

-----------------------------------------------------------------------------
(* The invariant.                                                          *)

LEMMA WsStepPreserves == WsInv /\ [WsNext]_wsVars => WsInv'
<1> SUFFICES ASSUME WsInv, [WsNext]_wsVars PROVE WsInv'
  OBVIOUS
<1>1. CASE WsNext
  <2>1. BrokerInv'
    BY <1>1, BrokerStep, StepPreserves DEF WsInv
  <2>2. WsTypeOK'
    BY <1>1, <2>1, TypeStep DEF WsInv, BrokerInv
  <2>3. Control' /\ Asked'
    BY <1>1, ControlStep, AskedStep DEF WsInv
  <2>4. RequestsMatchJobs'
    BY <1>1, <2>3, MatchStep DEF WsInv
  <2>5. Provenance' /\ OwnResult'
    BY <1>1, <2>2, ProvenanceStep, OwnResultStep DEF WsInv
  <2> QED
    BY <2>1, <2>2, <2>3, <2>4, <2>5 DEF WsInv
<1>2. CASE UNCHANGED wsVars
  <2>1. BrokerInv'
    BY <1>2, StepPreserves DEF WsInv, wsVars
  <2>2. WsTypeOK' /\ Control' /\ Asked'
    BY <1>2, <2>1 DEF wsVars, brokerVars, connVars, clientVars, jobVars, WsInv,
      BrokerInv, WsTypeOK, Control, HeldByOpen, InOrder, Asked
  <2>3. RequestsMatchJobs' /\ OwnResult'
    BY <1>2 DEF wsVars, brokerVars, connVars, jobVars, WsInv, RequestsMatchJobs,
      Waiting, OwnResult
  <2>4. Provenance'
    BY <1>2 DEF wsVars, brokerVars, connVars, clientVars, jobVars, WsInv,
      Provenance, Proper, Fits
  <2> QED
    BY <2>1, <2>2, <2>3, <2>4 DEF WsInv
<1> QED
  BY <1>1, <1>2

-----------------------------------------------------------------------------
(* The theorems.                                                           *)

(***************************************************************************)
(* WsInv holds of every number of connections, jobs, attempts and messages *)
(* (worker.ts, message-broker.ts, queue-worker.ts, ws-autoreconnect.ts).   *)
(***************************************************************************)
THEOREM WsInvariant == WsSpec => []WsInv
BY WsInitEstablishes, WsStepPreserves, PTL DEF WsSpec

(***************************************************************************)
(* The workers and their clients use the brokers as MessageBroker says: a  *)
(* run of the composition is a run of the brokers, in which the answers    *)
(* come from the client and close() from the connection, so that what is   *)
(* proved of BrokerSpec is true of the whole (worker.ts:24-76).            *)
(***************************************************************************)
THEOREM ImplementsBroker == WsSpec => BrokerSpec
<1>1. WsInit => BrokerInit
  BY DEF WsInit
<1>2. WsInv /\ [WsNext]_wsVars => [BrokerNext]_brokerVars
  BY BrokerStep DEF WsInv, wsVars
<1> QED
  BY <1>1, <1>2, WsInvariant, PTL DEF WsSpec, BrokerSpec

\* What close() and the timers settle, in the composition (worker.ts:65-76):
\* the brokers' accounting of promises, by the refinement.
COROLLARY PromisesAccountedInWorkers == WsSpec => []NoForgottenPromise
BY ImplementsBroker, PromisesAccounted, PTL

(***************************************************************************)
(* A job never completes with another job's result, unless that was        *)
(* computed for an earlier connection (worker.ts:24, message-broker.ts:35- *)
(* 38, queue-worker.ts:43-57).                                             *)
(***************************************************************************)
THEOREM OwnResults == WsSpec => []OwnResult
<1>1. WsInv => OwnResult
  BY DEF WsInv
<1> QED
  BY <1>1, WsInvariant, PTL

\* Each request that waits is the attempt of exactly one active job, of a
\* worker that is not closed (worker.ts:30-41 and 65-76).
THEOREM RequestsMatch == WsSpec => []RequestsMatchJobs
<1>1. WsInv => RequestsMatchJobs
  BY DEF WsInv
<1> QED
  BY <1>1, WsInvariant, PTL

\* Every variable keeps its type, those of the brokers included
\* (worker.ts, message-broker.ts).
THEOREM WsTypes == WsSpec => []WsTypeOK
<1>1. WsInv => WsTypeOK
  BY DEF WsInv
<1> QED
  BY <1>1, WsInvariant, PTL
=============================================================================
