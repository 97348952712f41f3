------------------------------ MODULE GoWorker ------------------------------
(***************************************************************************)
(* The Go worker (clients/golang/queue/worker.go) on one connection to the *)
(* proxy: its loop `listen` and the goroutine listenForResponses, which    *)
(* every connection starts, both read; each job that `listen` reads runs   *)
(* in a goroutine of its own.  The other end is the processor of           *)
(* websocket/worker.ts on a MessageBroker, whose timer ends a request.     *)
(***************************************************************************)
EXTENDS MessageBroker, Sequences

CONSTANTS
  Job,
  Attempts  \* attempts of a job

ASSUME GoWorkerAssumption ==
  /\ Attempts \in Nat \ {0}
  /\ Broker = {1}
  /\ Answer = [job : Job, ok : BOOLEAN]

VARIABLES
  job,       \* waiting, active, completed, failed
  made,      \* attempts made
  request,   \* id of the request of its last attempt
  alive,     \* the connection
  down,      \* messages of the proxy, in order
  runs,      \* calls of the processor function
  up,        \* answers
  processed  \* ghost: jobs the processor function was called for

workerVars == <<job, made, request, alive, down, runs, up, processed>>

WorkerInit ==
  /\ BrokerInit
  /\ job = [j \in Job |-> "waiting"]
  /\ made = [j \in Job |-> 0]
  /\ request = [j \in Job |-> 0]
  /\ alive = TRUE
  /\ down = <<>>
  /\ runs = {} /\ up = {} /\ processed = {}

\* The processor of openWorker up to its await.
Process(j) ==
  /\ alive /\ job[j] = "waiting"
  /\ job' = [job EXCEPT ![j] = "active"]
  /\ made' = [made EXCEPT ![j] = @ + 1]
  /\ request' = [request EXCEPT ![j] = NextId(1)]
  /\ SendData(1)
  /\ down' = Append(down, [id |-> NextId(1), job |-> j])
  /\ UNCHANGED <<alive, runs, up, processed>>

\* listen: a goroutine for the message.
Listen ==
  /\ down # <<>>
  /\ runs' = runs \cup {Head(down)}
  /\ processed' = processed \cup {Head(down).job}
  /\ down' = Tail(down)
  /\ UNCHANGED <<brokerVars, job, made, request, alive, up>>

\* listenForResponses: no call waits for the id, so the message is dropped.
\* (Two readers at once may also tear it; then neither gets it.)
ListenForResponses ==
  /\ down # <<>>
  /\ down' = Tail(down)
  /\ UNCHANGED <<brokerVars, job, made, request, alive, runs, up, processed>>

\* callProcessor and Respond, with the result or the error of the function.
Respond(m, ok) ==
  /\ m \in runs
  /\ runs' = runs \ {m}
  /\ up' = IF alive THEN up \cup {[id |-> m.id, job |-> m.job, ok |-> ok]} ELSE up
  /\ UNCHANGED <<brokerVars, job, made, request, alive, down, processed>>

\* WorkerController.message.
ServerMessage(a) ==
  /\ a \in up
  /\ up' = up \ {a}
  /\ ProcessMessage(1, a.id, [job |-> a.job, ok |-> a.ok])
  /\ UNCHANGED <<job, made, request, alive, down, runs, processed>>

RequestTimeout(i) ==
  /\ Timeout(1, i)
  /\ UNCHANGED workerVars

\* The connection ends and WorkerController.close runs.
ConnectionEnds ==
  /\ alive
  /\ alive' = FALSE
  /\ CloseBroker(1)
  /\ down' = <<>> /\ up' = {}
  /\ UNCHANGED <<job, made, request, runs, processed>>

\* An answer without a result is an error, as JobError has none.
Success(j) == promise[1][request[j]] = "resolved" /\ answer[1][request[j]].ok

\* The processor of openWorker after its await; BullMQ retries or fails.
Settle(j) ==
  /\ job[j] = "active" /\ promise[1][request[j]] # "waiting"
  /\ job' = [job EXCEPT ![j] = IF Success(j) THEN "completed"
                               ELSE IF made[j] < Attempts THEN "waiting" ELSE "failed"]
  /\ UNCHANGED <<brokerVars, made, request, alive, down, runs, up, processed>>

WorkerStep ==
  \/ \E j \in Job : Settle(j)
  \/ Listen \/ ListenForResponses
  \/ \E m \in runs, ok \in BOOLEAN : Respond(m, ok)
  \/ \E a \in up : ServerMessage(a)
  \/ \E i \in Id : RequestTimeout(i)
  \/ ConnectionEnds

-----------------------------------------------------------------------------
Message == [id : Id, job : Job]

WorkerTypeOK ==
  /\ BrokerTypeOK
  /\ job \in [Job -> {"waiting", "active", "completed", "failed"}]
  /\ made \in [Job -> 0 .. Attempts]
  /\ request \in [Job -> Id]
  /\ alive \in BOOLEAN
  /\ down \in Seq(Message) /\ runs \subseteq Message
  /\ up \subseteq [id : Id, job : Job, ok : BOOLEAN]
  /\ processed \subseteq Job

\* The job j was tried, and i is the id of its last attempt.
IsLast(i, j) == made[j] > 0 /\ request[j] = i

\* A job that is not waiting was tried, one that waits may be again; the last
\* attempts have ids of their own, which the broker has given out, so that jobs
\* that are active at a time do not share a request (worker.ts:30-35).
AttemptsInv ==
  /\ \A j \in Job : IF job[j] = "waiting" THEN made[j] < Attempts ELSE made[j] > 0
  /\ \A j \in Job : made[j] > 0 => request[j] < messageId[1]
  /\ \A j, k \in Job : made[j] > 0 /\ IsLast(request[j], k) => j = k

\* What i names is for j, if it is for the last attempt of a job at all.
OfJob(i, j) == i < messageId[1] /\ \A k \in Job : IsLast(i, k) => k = j

\* Messages, calls of the function, answers on their way and answers that were
\* taken are for the job of their id; there is no answer without a call, and no
\* request resolved without an answer.
AnswersByOwner ==
  /\ \A n \in 1 .. Len(down) : OfJob(down[n].id, down[n].job)
  /\ \A m \in runs \cup up : OfJob(m.id, m.job) /\ m.job \in processed
  /\ \A i \in Id : answer[1][i] # NoAnswer =>
                     OfJob(i, answer[1][i].job) /\ answer[1][i].job \in processed
  /\ \A i \in Id : promise[1][i] = "resolved" => answer[1][i] # NoAnswer

\* A job completes only with what the Go function returned for it, in answer to
\* the request of its last attempt: an answer that comes after the timeout of
\* an attempt, of this job or of another, settles nothing.
CompletedByOwnAnswer ==
  \A j \in Job : job[j] = "completed" =>
    /\ j \in processed
    /\ promise[1][request[j]] = "resolved"
    /\ answer[1][request[j]] = [job |-> j, ok |-> TRUE]

\* Requests and jobs of the worker fit (worker.go against worker.ts:30-41).
GoWorkerInv == WorkerTypeOK /\ AttemptsInv /\ AnswersByOwner /\ CompletedByOwnAnswer
=============================================================================
