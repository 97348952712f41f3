------------------------------ MODULE HttpJobs ------------------------------
(***************************************************************************)
(* HTTP requests about jobs, from their authorisation to their answer: the *)
(* handlers addJobs and getJob (queue-http-controller.ts), updateProgress  *)
(* and addLog (worker-job-http-controller.ts), authByTokens and            *)
(* authForWorkers.  Each request runs through its own awaits (GET of the   *)
(* lock, body, BullMQ call) while locks expire and jobs change hands.      *)
(***************************************************************************)
EXTENDS Integers, Sequences, FiniteSets

CONSTANTS
  Request,
  Job,      \* ids of jobs in the queue
  Token,    \* tokens: lock tokens of attempts, and those of config.authTokens
  None,     \* no token
  AuthToken,\* config.authTokens
  MaxTakes  \* bound: how often jobs are taken

ASSUME TokenAssumption ==
  /\ AuthToken \subseteq Token /\ MaxTakes \in Nat
  /\ None \notin Token \cup Job \cup Request

VARIABLES
  req,      \* what each request asks
  pc,       \* new, lock, handler, call, done
  status,   \* its answer
  lock,     \* prefix:queue:job:lock
  fresh,    \* tokens no attempt has had
  takes,    \* bound
  exists,   \* jobs that were not removed
  progress, \* last request that wrote a job's progress
  logs,     \* requests whose row is in a job's log
  added,    \* jobs of addJobs: [request, place in its body]
  held      \* ghost: requests whose token held their job's lock since they came

store == <<lock, fresh, takes, exists>>
data  == <<progress, logs, added>>
vars  == <<req, pc, status, store, data, held>>

\* A body is unreadable, no array, or an array of valid and invalid jobs.
Body == {<<"unreadable">>, <<"object">>, <<>>, <<"valid", "invalid">>, <<"invalid", "valid">>, <<"valid", "valid">>}

Ask == [op : {"addJobs"}, token : Token \cup {None}, name : {"good", "bad"}, body : Body, job : {None}]
       \cup [op : {"getJob", "updateProgress", "addLog"}, token : Token \cup {None},
             name : {"good", "bad"}, body : {<<"unreadable">>, <<"valid">>}, job : Job]

Nothing == [op |-> "none", token |-> None, name |-> "bad", body |-> <<>>, job |-> None]

Init ==
  /\ req = [r \in Request |-> Nothing]
  /\ pc = [r \in Request |-> "new"]
  /\ status = [r \in Request |-> 0]
  /\ lock = [j \in Job |-> None]
  /\ fresh = Token \ AuthToken
  /\ takes = 0
  /\ exists = Job
  /\ progress = [j \in Job |-> None]
  /\ logs = [j \in Job |-> {}]
  /\ added = {}
  /\ held = {}

Holder(r) == req[r].job \in Job /\ req[r].token # None /\ lock[req[r].job] = req[r].token

Respond(r, code) ==
  /\ pc' = [pc EXCEPT ![r] = "done"]
  /\ status' = [status EXCEPT ![r] = code]

Goto(r, place) == pc' = [pc EXCEPT ![r] = place] /\ UNCHANGED status

-----------------------------------------------------------------------------
\* A request of one of the four routes; authByTokens looks at the header and
\* awaits nothing, authForWorkers goes on to GET the lock.
Receive(r, ask) ==
  /\ pc[r] = "new"
  /\ req' = [req EXCEPT ![r] = ask]
  /\ IF ask.token = None THEN Respond(r, 401)
     ELSE IF ask.op \in {"updateProgress", "addLog"} THEN Goto(r, "lock")
     ELSE IF ask.token \in AuthToken THEN Goto(r, "handler") ELSE Respond(r, 401)
  /\ held' = IF ask.job \in Job /\ ask.token # None /\ lock[ask.job] = ask.token
             THEN held \cup {r} ELSE held
  /\ UNCHANGED <<store, data>>

\* Mutant: the lock is looked up by the queue's name alone.
LockOfSomeJob(r) == \E j \in Job : lock[j] = req[r].token

\* lockToken === token, for the lock key of this job.
LockFits(r) == lock[req[r].job] = req[r].token

\* authForWorkers: Redis answers the GET.  The key names the queue too: of the
\* locks of a queue with a bad name nothing is known.
GetLock(r) ==
  /\ pc[r] = "lock"
  /\ \/ (LockFits(r) \/ req[r].name = "bad") /\ Goto(r, "handler")
     \/ (~LockFits(r) \/ req[r].name = "bad") /\ Respond(r, 401)
  /\ UNCHANGED <<req, store, data, held>>

\* GET fails: authForWorkers throws, Bun answers 500.
GetLockFails(r) ==
  /\ pc[r] = "lock"
  /\ Respond(r, 500)
  /\ UNCHANGED <<req, store, data, held>>

\* Mutant: the array is looked at up to its first job only.
AcceptsFirst(body) == body = <<>> \/ body[1] = "valid"

\* An array, and validateJob accepts each job of it.
Accepts(body) == \A i \in DOMAIN body : body[i] = "valid"

\* After await req.json(): 500 when it cannot be parsed, 400 when addJobs'
\* checks of the whole body fail, else the call of BullMQ.  getJob reads none.
ReadBody(r) ==
  /\ pc[r] = "handler"
  /\ req[r].name = "good"
  /\ IF req[r].op = "getJob" THEN Goto(r, "call")
     ELSE IF req[r].body = <<"unreadable">> THEN Respond(r, 500)
     ELSE IF ~Accepts(req[r].body) THEN Respond(r, 400)
     ELSE Goto(r, "call")
  /\ UNCHANGED <<req, store, data, held>>

\* What BullMQ does in Redis for the request; addBulk is one transaction.
Effect(r) ==
  LET j == req[r].job IN
  CASE req[r].op = "addJobs" ->
         /\ added' = added \cup {[request |-> r, place |-> i] : i \in DOMAIN req[r].body}
         /\ UNCHANGED <<progress, logs>>
    [] req[r].op = "updateProgress" ->
         progress' = [progress EXCEPT ![j] = r] /\ UNCHANGED <<logs, added>>
    [] req[r].op = "addLog" ->
         logs' = [logs EXCEPT ![j] = @ \cup {r}] /\ UNCHANGED <<progress, added>>
    [] OTHER -> UNCHANGED data

\* Mutant: the name is validated after the call.
BadNameTooLate(r) ==
  /\ pc[r] = "handler"
  /\ req[r].name = "bad"
  /\ Effect(r)
  /\ Respond(r, 400)
  /\ UNCHANGED <<req, store, held>>

\* validateQueueName fails.
BadName(r) ==
  /\ pc[r] = "handler"
  /\ req[r].name = "bad"
  /\ Respond(r, 400)
  /\ UNCHANGED <<req, store, data, held>>

\* The call succeeds: 200.
Call(r) ==
  /\ pc[r] = "call"
  /\ req[r].job = None \/ req[r].job \in exists
  /\ Effect(r)
  /\ Respond(r, 200)
  /\ UNCHANGED <<req, store, held>>

\* The job is gone: getJob answers 404, the writes of BullMQ throw.
JobMissing(r) ==
  /\ pc[r] = "call"
  /\ req[r].job \in Job \ exists
  /\ Respond(r, IF req[r].op = "getJob" THEN 404 ELSE 500)
  /\ UNCHANGED <<req, store, data, held>>

\* Redis fails before or after it ran the command: 500.
CallFails(r) ==
  /\ pc[r] = "call"
  /\ \/ UNCHANGED data
     \/ (req[r].job = None \/ req[r].job \in exists) /\ Effect(r)
  /\ Respond(r, 500)
  /\ UNCHANGED <<req, store, held>>

-----------------------------------------------------------------------------
\* BullMQ: a worker takes a job with a fresh token.
Take(j, t) ==
  /\ takes < MaxTakes
  /\ lock[j] = None
  /\ j \in exists
  /\ t \in fresh
  /\ lock' = [lock EXCEPT ![j] = t]
  /\ fresh' = fresh \ {t}
  /\ takes' = takes + 1
  /\ held' = held \cup {r \in Request : req[r].job = j /\ req[r].token = t /\ pc[r] # "done"}
  /\ UNCHANGED <<req, pc, status, exists, data>>

\* The lock expires, or its holder finishes the job.
Release(j) ==
  /\ lock[j] # None
  /\ lock' = [lock EXCEPT ![j] = None]
  /\ UNCHANGED <<req, pc, status, fresh, takes, exists, data, held>>

\* A job that no one holds is removed (removeOnComplete and the like).
RemoveJob(j) ==
  /\ lock[j] = None
  /\ exists' = exists \ {j}
  /\ UNCHANGED <<req, pc, status, lock, fresh, takes, data, held>>

Handler(r) == GetLock(r) \/ GetLockFails(r) \/ BadName(r) \/ ReadBody(r)
              \/ Call(r) \/ JobMissing(r) \/ CallFails(r)

Next ==
  \/ \E r \in Request, ask \in Ask : Receive(r, ask)
  \/ \E r \in Request : Handler(r)
  \/ \E j \in Job, t \in Token : Take(j, t)
  \/ \E j \in Job : Release(j) \/ RemoveJob(j)

Spec == Init /\ [][Next]_vars

-----------------------------------------------------------------------------
TypeOK ==
  /\ req \in [Request -> Ask \cup {Nothing}]
  /\ pc \in [Request -> {"new", "lock", "handler", "call", "done"}]
  /\ status \in [Request -> {0, 200, 400, 401, 404, 500}]
  /\ lock \in [Job -> Token \cup {None}]
  /\ fresh \subseteq Token
  /\ takes \in Nat
  /\ exists \subseteq Job
  /\ progress \in [Job -> Request \cup {None}]
  /\ logs \in [Job -> SUBSET Request]
  /\ added \subseteq [request : Request, place : Nat]
  /\ held \subseteq Request

WorkerOps == {"updateProgress", "addLog"}

\* A request past authForWorkers came with a token that has held the lock, and
\* one about a queue with a bad name goes no further.
PastLockHeld == \A r \in Request :
  /\ pc[r] \in {"handler", "call"} /\ req[r].op \in WorkerOps =>
       r \in held \/ req[r].name = "bad"
  /\ pc[r] = "call" => req[r].name = "good"

Wrote(r) ==
  \/ \E j \in Job : progress[j] = r \/ r \in logs[j]
  \/ \E a \in added : a.request = r

\* A request has written nothing before its call, and what it wrote is of it.
WritesAreAsked ==
  /\ \A r \in Request : pc[r] # "done" => ~Wrote(r)
  /\ \A r \in Request, j \in Job :
       progress[j] = r \/ r \in logs[j] => req[r].job = j /\ req[r].op \in WorkerOps

HttpJobsInv == TypeOK /\ PastLockHeld /\ WritesAreAsked

\* Progress and logs are written only by requests whose token held the lock of
\* that very job at some moment after they arrived (authForWorkers compares it
\* before the handler runs).
WritersHeldLock ==
  \A r \in Request, j \in Job :
    progress[j] = r \/ r \in logs[j] => r \in held /\ req[r].job = j

\* A request that was refused (400, 401, 404) has written nothing, however far
\* it got through authorisation, validation and lookup.
RefusedWroteNothing ==
  \A r \in Request : status[r] \in {400, 401, 404} => ~Wrote(r)

\* addJobs adds every job of its body or none, and none of a body with an
\* invalid job; an answer 200 means all are there.
BulkIsWhole ==
  \A r \in Request :
    LET mine == {a \in added : a.request = r} IN
    /\ mine # {} =>
         /\ {a.place : a \in mine} = DOMAIN req[r].body
         /\ \A i \in DOMAIN req[r].body : req[r].body[i] = "valid"
    /\ status[r] = 200 /\ req[r].op = "addJobs" => {a.place : a \in mine} = DOMAIN req[r].body
\* Nothing is written in part: not by a request that is refused, nor by a bulk
\* of which one job is wrong (authForWorkers, addJobs).
AllOrNothing == RefusedWroteNothing /\ BulkIsWhole
=============================================================================
