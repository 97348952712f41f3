----------------------------- MODULE HttpWorker -----------------------------
(***************************************************************************)
(* The jobs of one queue with an HTTP worker, in one process: the processor *)
(* that workerFromMetadata gives to BullMQ (it calls the endpoint under an  *)
(* abort timer), the listener that replaces and removes workers and waits   *)
(* for their close, and gracefulShutdown, which waits for it too.           *)
(***************************************************************************)
EXTENDS Integers, FiniteSets

CONSTANTS
  Job,
  Worker,      \* Worker objects, each made at most once
  Signal,      \* SIGINT and SIGTERM received
  None,        \* no worker
  Attempts,    \* attempts of a job
  Concurrency  \* jobs a worker runs at a time

ASSUME WorkerAssumption ==
  Attempts \in Nat \ {0} /\ Concurrency \in Nat \ {0} /\ None \notin Worker

VARIABLES
  job,       \* waiting, calling, body, completed, failed
  by,        \* the worker that runs it
  made,      \* attempts made
  timer,     \* jobs whose abort timer runs
  answer,    \* what the endpoint's last answer to the job was
  stalled,   \* jobs whose answer body never ends
  worker,    \* none, open, closing, closed
  inMap,     \* workers[queueName]
  listener,  \* idle, stopped, or the Worker whose close it awaits
  shutdown,  \* of each signal: none, workers, cache, quit, exited
  snapshot   \* workers a shutdown has to wait for

jobVars  == <<job, by, made, timer, answer, stalled>>
procVars == <<worker, inMap, listener, shutdown, snapshot>>
vars     == <<jobVars, procVars>>

Active(w) == {j \in Job : by[j] = w /\ job[j] \in {"calling", "body"}}
Exited    == \E s \in Signal : shutdown[s] = "exited"

Init ==
  /\ job = [j \in Job |-> "waiting"]
  /\ by = [j \in Job |-> None]
  /\ made = [j \in Job |-> 0]
  /\ timer = {}
  /\ answer = [j \in Job |-> "none"]
  /\ stalled = {}
  /\ worker = [w \in Worker |-> "none"]
  /\ inMap = None
  /\ listener = "idle"
  /\ shutdown = [s \in Signal |-> "none"]
  /\ snapshot = [s \in Signal |-> {}]

\* Mutant: the call starts without its timer.
NoTimer(j) == timer

\* setTimeout(() => controller.abort(), workerEndpoint.timeout || 3000).
SetTimer(j) == timer \cup {j}

\* BullMQ gives a waiting job to an open worker; its processor calls fetch.
Fetch(j, w) ==
  /\ ~Exited
  /\ worker[w] = "open"
  /\ job[j] = "waiting"
  /\ Cardinality(Active(w)) < Concurrency
  /\ job' = [job EXCEPT ![j] = "calling"]
  /\ by' = [by EXCEPT ![j] = w]
  /\ made' = [made EXCEPT ![j] = @ + 1]
  /\ timer' = SetTimer(j)
  /\ answer' = [answer EXCEPT ![j] = "none"]
  /\ UNCHANGED <<stalled, procVars>>

\* The processor throws: finally clears the timer, BullMQ retries or fails.
Throw(j) ==
  /\ job' = [job EXCEPT ![j] = IF made[j] < Attempts THEN "waiting" ELSE "failed"]
  /\ by' = [by EXCEPT ![j] = None]
  /\ timer' = timer \ {j}

\* Mutant: the status of the response is not looked at.
AnyStatus(j) == {"ok", "refused"}

\* Statuses with which the processor goes on to the body: response.ok.
Accepted(j) == {"ok"}

\* The headers of the response are there.  response.json() or text() is
\* returned, not awaited, so finally clears the timer before the body is read.
Headers(j, status) ==
  /\ ~Exited
  /\ job[j] = "calling"
  /\ answer' = [answer EXCEPT ![j] = status]
  /\ IF status \in Accepted(j)
     THEN job' = [job EXCEPT ![j] = "body"] /\ timer' = timer \ {j} /\ UNCHANGED by
     ELSE Throw(j)
  /\ UNCHANGED <<made, stalled, procVars>>

\* The timer aborts the fetch, or the endpoint cannot be reached.
FetchRejects(j) ==
  /\ ~Exited
  /\ job[j] = "calling"
  /\ Throw(j)
  /\ UNCHANGED <<made, answer, stalled, procVars>>

Abort(j) == j \in timer /\ FetchRejects(j)

\* The body ends, or cannot be read or parsed.
BodyEnds(j) ==
  /\ ~Exited
  /\ job[j] = "body"
  /\ j \notin stalled
  /\ job' = [job EXCEPT ![j] = "completed"]
  /\ by' = [by EXCEPT ![j] = None]
  /\ UNCHANGED <<made, timer, answer, stalled, procVars>>

BodyFails(j) ==
  /\ ~Exited
  /\ job[j] = "body"
  /\ j \notin stalled
  /\ Throw(j)
  /\ UNCHANGED <<made, answer, stalled, procVars>>

\* The endpoint keeps the connection and sends no more.
BodyStalls(j) ==
  /\ ~Exited
  /\ job[j] = "body"
  /\ stalled' = stalled \cup {j}
  /\ UNCHANGED <<job, by, made, timer, answer, procVars>>

-----------------------------------------------------------------------------
Closing(set) == [w \in Worker |-> IF w \in set /\ worker[w] = "open" THEN "closing" ELSE worker[w]]

\* The listener makes a worker from new metadata and awaits the close of the
\* one it replaces.
Update(w) ==
  /\ ~Exited
  /\ listener = "idle"
  /\ worker[w] = "none"
  /\ inMap' = w
  /\ worker' = [Closing({inMap}) EXCEPT ![w] = "open"]
  /\ listener' = IF inMap = None THEN "idle" ELSE inMap
  /\ UNCHANGED <<jobVars, shutdown, snapshot>>

\* The metadata is gone: the listener awaits the close, then deletes the entry.
Remove ==
  /\ ~Exited
  /\ listener = "idle"
  /\ inMap # None
  /\ worker' = Closing({inMap})
  /\ listener' = inMap
  /\ UNCHANGED <<jobVars, inMap, shutdown, snapshot>>

\* close() of BullMQ's Worker resolves when its active jobs are done.
Closed(w) ==
  /\ ~Exited
  /\ worker[w] = "closing"
  /\ Active(w) = {}
  /\ worker' = [worker EXCEPT ![w] = "closed"]
  /\ UNCHANGED <<jobVars, inMap, listener, shutdown, snapshot>>

\* The listener goes on; its loop ends when a shutdown has aborted it.
CloseAwaited ==
  /\ ~Exited
  /\ listener \in Worker
  /\ worker[listener] = "closed"
  /\ inMap' = IF inMap = listener THEN None ELSE inMap
  /\ listener' = "idle"
  /\ UNCHANGED <<jobVars, worker, shutdown, snapshot>>

ListenerStops ==
  /\ ~Exited
  /\ listener = "idle"
  /\ \E s \in Signal : shutdown[s] # "none"
  /\ listener' = "stopped"
  /\ UNCHANGED <<jobVars, worker, inMap, shutdown, snapshot>>

\* A signal: abort, close of the workers in the map.
GracefulShutdown(s) ==
  /\ ~Exited
  /\ shutdown[s] = "none"
  /\ shutdown' = [shutdown EXCEPT ![s] = "workers"]
  /\ snapshot' = [snapshot EXCEPT ![s] = {inMap} \ {None}]
  /\ worker' = Closing({inMap})
  /\ UNCHANGED <<jobVars, inMap, listener>>

\* Mutant: the promises of close() are made and not awaited.
NotAwaited(s) == TRUE

\* await Promise.all of the close of every worker that was found.
AllClosed(s) == \A w \in snapshot[s] : worker[w] = "closed"

\* 'Workers closed', then cleanCache, then quit; each signal runs them all.
WorkersClosed(s) ==
  /\ ~Exited
  /\ shutdown[s] = "workers"
  /\ AllClosed(s)
  /\ shutdown' = [shutdown EXCEPT ![s] = "cache"]
  /\ UNCHANGED <<jobVars, worker, inMap, listener, snapshot>>

\* quit of a connection that another signal's run has quit may reject: that
\* run of gracefulShutdown ends there.
CacheCleaned(s) ==
  /\ ~Exited
  /\ shutdown[s] = "cache"
  /\ \E next \in {"quit", "rejected"} :
       /\ next = "rejected" => \E t \in Signal : shutdown[t] = "quit"
       /\ shutdown' = [shutdown EXCEPT ![s] = next]
  /\ UNCHANGED <<jobVars, worker, inMap, listener, snapshot>>

Exit(s) ==
  /\ ~Exited
  /\ shutdown[s] = "quit"
  /\ shutdown' = [shutdown EXCEPT ![s] = "exited"]
  /\ UNCHANGED <<jobVars, worker, inMap, listener, snapshot>>

-----------------------------------------------------------------------------
Processor(j) == Abort(j) \/ BodyEnds(j) \/ BodyFails(j) \/ BodyStalls(j)

Continue ==
  \/ \E w \in Worker : Closed(w)
  \/ CloseAwaited \/ ListenerStops
  \/ \E s \in Signal : WorkersClosed(s) \/ CacheCleaned(s) \/ Exit(s)

Next ==
  \/ \E j \in Job, w \in Worker : Fetch(j, w)
  \/ \E j \in Job, status \in {"ok", "refused"} : Headers(j, status)
  \/ \E j \in Job : FetchRejects(j) \/ Processor(j)
  \/ \E w \in Worker : Update(w)
  \/ Remove
  \/ \E s \in Signal : GracefulShutdown(s)
  \/ Continue

\* The timers fire, the event loop goes on, and a body ends, breaks or stalls.
\* Nothing forces BullMQ, the endpoint's headers, the registry or a signal.
Spec     == Init /\ [][Next]_vars
FairSpec ==
  /\ Spec
  /\ \A j \in Job : WF_vars(Processor(j))
  /\ \A w \in Worker : WF_vars(Closed(w))
  /\ WF_vars(CloseAwaited \/ ListenerStops)
  /\ \A s \in Signal : WF_vars(WorkersClosed(s) \/ CacheCleaned(s) \/ Exit(s))

-----------------------------------------------------------------------------
TypeOK ==
  /\ job \in [Job -> {"waiting", "calling", "body", "completed", "failed"}]
  /\ by \in [Job -> Worker \cup {None}]
  /\ made \in [Job -> 0 .. Attempts]
  /\ timer \subseteq Job
  /\ answer \in [Job -> {"none", "ok", "refused"}]
  /\ stalled \subseteq Job
  /\ worker \in [Worker -> {"none", "open", "closing", "closed"}]
  /\ inMap \in Worker \cup {None}
  /\ listener \in Worker \cup {"idle", "stopped"}
  /\ shutdown \in [Signal -> {"none", "workers", "cache", "quit", "rejected", "exited"}]
  /\ snapshot \in [Signal -> SUBSET Worker]

\* The timer of a call runs exactly while its headers are awaited.
TimerWhileCalling == timer = {j \in Job : job[j] = "calling"}

\* A running job belongs to a worker that is not closed, so whoever awaits the
\* close of a worker awaits its jobs.
RunningJobsHaveWorkers ==
  \A j \in Job : IF job[j] \in {"calling", "body"}
                 THEN by[j] \in Worker /\ worker[by[j]] \in {"open", "closing"}
                 ELSE by[j] = None

\* A worker that was made is the one in the map, or was told to close.
OpenIsInMap == \A w \in Worker : worker[w] = "open" => w = inMap

JobsAndWorkers == TypeOK /\ TimerWhileCalling /\ RunningJobsHaveWorkers /\ OpenIsInMap

\* A job completes only with a response the endpoint accepted it with; an error
\* status never completes it (the check of response.ok before the body).
CompletedMeansAccepted == \A j \in Job : job[j] = "completed" => answer[j] = "ok"

\* What ties the jobs to their endpoint, their worker and the map
\* (workerFromMetadata, workerStreamListener).
HttpWorkerInv == JobsAndWorkers /\ CompletedMeansAccepted

\* A shutdown that said 'Workers closed' left no job of the workers it found
\* running: the exit does not cut them (gracefulShutdownWorkers).  A worker that
\* was just replaced is out of the map, and its jobs may be cut.
NoJobCutByExit ==
  \A s \in Signal : shutdown[s] \in {"cache", "quit", "exited"} =>
    \A j \in Job : job[j] \in {"calling", "body"} => by[j] \notin snapshot[s]

\* worker-endpoint.ts:24, "If the endpoint does not respond within this time, the
\* worker will fail the job": whatever the endpoint does a call ends.  But the
\* abort timer covers it up to its headers only: a body that stalls holds a job.
CallEndsUnlessStalled ==
  \A j \in Job : job[j] = "calling" ~>
    job[j] \in {"waiting", "completed", "failed"} \/ j \in stalled \/ Exited

\* A signal leads to the exit, and a listener that waits for a close goes on,
\* unless some body stalls: each close() waits for jobs, each job for its
\* endpoint, both signals for the same workers.
ExitsUnlessStalled ==
  /\ (\E s \in Signal : shutdown[s] = "workers") ~> Exited \/ stalled # {}
  /\ \A w \in Worker : listener = w ~> listener # w \/ Exited \/ stalled # {}
=============================================================================
