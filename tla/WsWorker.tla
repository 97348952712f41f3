------------------------------ MODULE WsWorker ------------------------------
(***************************************************************************)
(* A worker over a WebSocket: src/controllers/websocket/worker.ts on the   *)
(* server, clients/bun/src/queue-worker.ts with ws-autoreconnect.ts on the *)
(* client.  Each connection has a BullMQ Worker and a MessageBroker of its *)
(* own; the client has one processor for all the connections it makes, and *)
(* answers through whatever connection it has when a job is done.          *)
(***************************************************************************)
EXTENDS MessageBroker, FiniteSets

CONSTANTS
  Job,          \* jobs of the queue
  NoConn,       \* no WebSocket
  Concurrency,  \* of the route /ws/queues/:queueName/process/:concurrency
  MaxAttempts   \* bound: opts.attempts of a job

Conn == Broker

ASSUME WsAssumption ==
  /\ Conn \subseteq Nat \ {0} /\ NoConn \notin Conn
  /\ Answer = Job \X Conn \X BOOLEAN
  /\ Concurrency \in Nat \ {0} /\ MaxAttempts \in Nat \ {0}

VARIABLES
  link,      \* whether bytes pass: none, up, down
  server,    \* the server's side of a connection: none, open, closed
  worker,    \* ws.data.worker: none, running, closing, closed
  instance,  \* WebSocketClient.instance
  mode,      \* the client: reconnecting, connected, closed by its user
  status,    \* of each job: waiting, fetched, active, completed, failed
  by, msg,   \* the connection and the message of its last attempt
  attempts,
  verdict,   \* the answer a job was completed with
  down, up,  \* messages between server and client
  runs       \* messages whose processor runs in the client

connVars   == <<link, server, worker>>
clientVars == <<instance, mode, runs>>
jobVars    == <<status, by, msg, attempts, verdict>>
wsVars     == <<brokerVars, connVars, clientVars, jobVars, down, up>>

\* down and runs; send() in utils.ts retries a write after a second, so
\* messages of one connection may overtake each other and down is a set.
Request == [conn : Conn, id : Id, job : Job]
Reply   == [conn : Conn, id : Id, data : Answer]

WsInit ==
  /\ BrokerInit
  /\ link = [c \in Conn |-> "none"]
  /\ server = [c \in Conn |-> "none"]
  /\ worker = [c \in Conn |-> "none"]
  /\ instance = NoConn
  /\ mode = "reconnecting"
  /\ status = [j \in Job |-> "waiting"]
  /\ by = [j \in Job |-> NoConn]
  /\ msg = [j \in Job |-> 0]
  /\ attempts = [j \in Job |-> 0]
  /\ verdict = [j \in Job |-> NoAnswer]
  /\ down = {} /\ up = {} /\ runs = {}

Held(c) == {j \in Job : by[j] = c /\ status[j] \in {"fetched", "active"}}

-----------------------------------------------------------------------------
(* The connection.                                                         *)

\* open of the client and openWorker; the Worker constructor may refuse the
\* connection options, which leaves a broker without a worker.
Connect(c) ==
  /\ mode = "reconnecting" /\ link[c] = "none"
  /\ \A d \in Conn : d < c => link[d] # "none"
  /\ link' = [link EXCEPT ![c] = "up"]
  /\ server' = [server EXCEPT ![c] = "open"]
  /\ \E w \in {"running", "none"} : worker' = [worker EXCEPT ![c] = w]
  /\ instance' = c
  /\ mode' = "connected"
  /\ UNCHANGED <<brokerVars, runs, jobVars, down, up>>

\* The network drops the connection, with what was on its way.
LinkFails(c) ==
  /\ link[c] = "up"
  /\ link' = [link EXCEPT ![c] = "down"]
  /\ down' = {m \in down : m.conn # c}
  /\ up' = {m \in up : m.conn # c}
  /\ UNCHANGED <<brokerVars, server, worker, clientVars, jobVars>>

\* closeHandler: the instance is dropped, a timer opens the next one.  (Close
\* codes after which it does not reconnect need no step: Connect is not fair.)
ClientNotices ==
  /\ instance # NoConn /\ link[instance] = "down"
  /\ instance' = NoConn
  /\ mode' = "reconnecting"
  /\ UNCHANGED <<brokerVars, connVars, runs, jobVars, down, up>>

\* QueueWorker.close.  (Between closeHandler and the next open there is no
\* instance: the call throws and changes nothing.)
UserClose ==
  /\ mode # "closed"
  /\ instance' = NoConn
  /\ mode' = "closed"
  /\ UNCHANGED <<brokerVars, connVars, runs, jobVars, down, up>>

\* Mutant: the close handler closes the broker only.
KeepWorker(c) == worker

CloseWorker(c) ==
  [worker EXCEPT ![c] = IF @ = "running" THEN "closing" ELSE @]

\* close of WorkerController, after a failure or after the client's close
\* frame, which comes behind the answers it had sent.
ServerNotices(c) ==
  /\ server[c] = "open"
  /\ \/ link[c] = "down"
     \/ instance # c /\ \A m \in up : m.conn # c
  /\ server' = [server EXCEPT ![c] = "closed"]
  /\ CloseBroker(c)
  /\ worker' = CloseWorker(c)
  /\ UNCHANGED <<link, clientVars, jobVars, down, up>>

-----------------------------------------------------------------------------
(* The worker on the server.                                               *)

\* BullMQ hands a job to a worker that is not closing.
Fetch(c, j) ==
  /\ worker[c] = "running" /\ status[j] = "waiting"
  /\ Cardinality(Held(c)) < Concurrency
  /\ status' = [status EXCEPT ![j] = "fetched"]
  /\ by' = [by EXCEPT ![j] = c]
  /\ attempts' = [attempts EXCEPT ![j] = @ + 1]
  /\ UNCHANGED <<brokerVars, connVars, clientVars, msg, verdict, down, up>>

\* The processor calls sendData; send() drops what a closed socket is given,
\* and the network what a dead link is given.
Process(j) ==
  LET c == by[j] IN
  /\ status[j] = "fetched"
  /\ SendData(c)
  /\ status' = [status EXCEPT ![j] = "active"]
  /\ msg' = [msg EXCEPT ![j] = NextId(c)]
  /\ down' = IF server[c] = "open" /\ link[c] = "up"
               THEN down \cup {[conn |-> c, id |-> NextId(c), job |-> j]}
               ELSE down
  /\ UNCHANGED <<connVars, clientVars, by, attempts, verdict, up>>

\* message of WorkerController.
ServerMessage(m) ==
  /\ m \in up /\ server[m.conn] = "open"
  /\ up' = up \ {m}
  /\ ProcessMessage(m.conn, m.id, m.data)
  /\ UNCHANGED <<connVars, clientVars, jobVars, down>>

RequestTimeout(c, i) ==
  /\ Timeout(c, i)
  /\ UNCHANGED <<connVars, clientVars, jobVars, down, up>>

\* Mutant: one attempt too many.
RetryOnceMore(j) ==
  IF attempts[j] <= MaxAttempts THEN "waiting" ELSE "failed"

AfterFailure(j) == IF attempts[j] < MaxAttempts THEN "waiting" ELSE "failed"

\* The processor goes on after its await: a result completes the job, an
\* error or a rejection fails the attempt, and BullMQ may retry it.
JobSettles(j) ==
  LET how == promise[by[j]][msg[j]]  data == answer[by[j]][msg[j]] IN
  /\ status[j] = "active"
  /\ how # "waiting"
  /\ IF how = "resolved" /\ data[3]
       THEN /\ status' = [status EXCEPT ![j] = "completed"]
            /\ verdict' = [verdict EXCEPT ![j] = data]
       ELSE /\ status' = [status EXCEPT ![j] = AfterFailure(j)]
            /\ UNCHANGED verdict
  /\ UNCHANGED <<brokerVars, connVars, clientVars, by, msg, attempts, down, up>>

\* worker.close() resolves when the worker holds no job.
WorkerCloses(c) ==
  /\ worker[c] = "closing" /\ Held(c) = {}
  /\ worker' = [worker EXCEPT ![c] = "closed"]
  /\ UNCHANGED <<brokerVars, link, server, clientVars, jobVars, down, up>>

-----------------------------------------------------------------------------
(* The processor in the client.                                            *)

ClientMessage(m) ==
  /\ m \in down /\ instance = m.conn
  /\ down' = down \ {m}
  /\ runs' = runs \cup {m}
  /\ UNCHANGED <<brokerVars, connVars, instance, mode, jobVars, up>>

\* callProcessor: the answer goes to the instance of the moment, if any.
ClientAnswer(m, ok) ==
  /\ m \in runs
  /\ runs' = runs \ {m}
  /\ up' = IF instance # NoConn /\ link[instance] = "up"
             THEN up \cup {[conn |-> instance, id |-> m.id,
                            data |-> <<m.job, m.conn, ok>>]}
             ELSE up
  /\ UNCHANGED <<brokerVars, connVars, instance, mode, jobVars, down>>

-----------------------------------------------------------------------------
WsNext ==
  \/ \E c \in Conn : \/ Connect(c)
                     \/ LinkFails(c)
                     \/ ServerNotices(c)
                     \/ WorkerCloses(c)
                     \/ \E j \in Job : Fetch(c, j)
                     \/ \E i \in Id : RequestTimeout(c, i)
  \/ \E j \in Job : Process(j) \/ JobSettles(j)
  \/ ClientNotices
  \/ UserClose
  \/ \E m \in up : ServerMessage(m)
  \/ \E m \in down : ClientMessage(m)
  \/ \E m \in runs, ok \in BOOLEAN : ClientAnswer(m, ok)

WsSpec == WsInit /\ [][WsNext]_wsVars

\* The event loop of the server, and Bun telling it of a dead socket sooner or
\* later.  The client owes nothing: it need not reconnect, read or answer.
WsFairness ==
  /\ \A c \in Conn : /\ WF_wsVars(ServerNotices(c))
                     /\ WF_wsVars(WorkerCloses(c))
                     /\ \A i \in Id : WF_wsVars(RequestTimeout(c, i))
  /\ \A j \in Job : WF_wsVars(Process(j)) /\ WF_wsVars(JobSettles(j))
  /\ WF_wsVars(\E m \in up : ServerMessage(m))

FairWsSpec == WsSpec /\ WsFairness

-----------------------------------------------------------------------------
\* Every variable has its type, those of the brokers included.
WsTypeOK ==
  /\ BrokerTypeOK
  /\ link \in [Conn -> {"none", "up", "down"}]
  /\ server \in [Conn -> {"none", "open", "closed"}]
  /\ worker \in [Conn -> {"none", "running", "closing", "closed"}]
  /\ instance \in Conn \cup {NoConn}
  /\ mode \in {"reconnecting", "connected", "closed"}
  /\ status \in [Job -> {"waiting", "fetched", "active", "completed", "failed"}]
  /\ by \in [Job -> Conn \cup {NoConn}]
  /\ msg \in [Job -> Id]
  /\ attempts \in [Job -> 0 .. MaxAttempts]
  /\ verdict \in [Job -> Answer \cup {NoAnswer}]
  /\ down \subseteq Request /\ runs \subseteq Request /\ up \subseteq Reply

(***************************************************************************)
(* A job is completed with the result of its own processor call, however   *)
(* late, lost or out of order the answers are: with the result of another  *)
(* job only if the client computed that one for an earlier connection and  *)
(* answered through this one, whose broker counts its ids from 0 again     *)
(* (worker.ts:24, message-broker.ts:18 and 35-38, queue-worker.ts:43-57).  *)
(***************************************************************************)
OwnResult ==
  \A j \in Job : status[j] = "completed" =>
    verdict[j][1] = j \/ verdict[j][2] < by[j]

(***************************************************************************)
(* The brokers and the workers agree: each unsettled request is the        *)
(* attempt of exactly one active job, no two jobs wait for one message,    *)
(* and no worker is closed with a request open (worker.ts:30-41 and        *)
(* 65-76).                                                                 *)
(***************************************************************************)
RequestsMatchJobs ==
  /\ \A c \in Conn : \A i \in Waiting(c) :
       /\ worker[c] \in {"running", "closing"}
       /\ \E j \in Job : status[j] = "active" /\ by[j] = c /\ msg[j] = i
  /\ \A j, k \in Job :
       /\ status[j] = "active" /\ status[k] = "active"
       /\ by[j] = by[k] /\ msg[j] = msg[k]
       => j = k

\* No job stays with a worker forever, whatever the client and the network do
\* (worker.ts:30-41 over message-broker.ts:55-59).
EveryJobReturns ==
  \A j \in Job : status[j] \in {"fetched", "active"}
                   ~> status[j] \notin {"fetched", "active"}

\* Once the user has closed the client, the server is left with no worker of
\* it, from any of the connections it ever had (worker.ts:65-76).
ClosedClientLeavesNoWorker ==
  mode = "closed" ~> \A c \in Conn : worker[c] \in {"none", "closed"}

-----------------------------------------------------------------------------
(* What the proofs need besides; WsInv is inductive.                       *)

\* A job a worker holds is held by an open one, and has an attempt left while
\* it waits; connections are made in order and the instance is the newest.
HeldByOpen ==
  \A j \in Job : /\ status[j] \in {"fetched", "active"} =>
                      by[j] \in Conn /\ worker[by[j]] \in {"running", "closing"}
                 /\ status[j] = "waiting" => attempts[j] < MaxAttempts

InOrder ==
  /\ \A c \in Conn : worker[c] \in {"running", "closing"} => link[c] # "none"
  /\ \A c, d \in Conn : link[d] # "none" /\ c < d => link[c] # "none"
  /\ instance # NoConn => /\ link[instance] # "none"
                          /\ \A c \in Conn : link[c] # "none" => c <= instance

Control == HeldByOpen /\ InOrder

\* An active job has its request behind it.
Asked ==
  \A j \in Job : status[j] = "active" =>
    msg[j] < messageId[by[j]] /\ promise[by[j]][msg[j]] # "none"

\* No active job but k waits for message i of connection c.
Fits(c, i, k) ==
  \A j \in Job : status[j] = "active" /\ by[j] = c /\ msg[j] = i => j = k

\* An answer d to message i of connection c comes from an older connection or
\* belongs to the job that waits for it.
Proper(c, i, d) ==
  /\ d[2] <= c
  /\ d[2] = c => i < messageId[c] /\ Fits(c, i, d[1])

Provenance ==
  /\ \A m \in down \cup runs : /\ link[m.conn] # "none"
                               /\ m.id < messageId[m.conn]
                               /\ Fits(m.conn, m.id, m.job)
  /\ \A a \in up : Proper(a.conn, a.id, a.data)
  /\ \A c \in Conn : \A i \in Id :
       promise[c][i] = "resolved" =>
         answer[c][i] \in Answer /\ Proper(c, i, answer[c][i])

WsInv == BrokerInv /\ WsTypeOK /\ Control /\ Asked /\ RequestsMatchJobs
           /\ Provenance /\ OwnResult
=============================================================================
