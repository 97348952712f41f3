---------------------------- MODULE RouteMatcher ----------------------------
(***************************************************************************)
(* From a request to its handler: the route table (src/routes, and the     *)
(* WebSocket routes of src/fetch-handler.ts), RouteMatcher.match and the   *)
(* dispatch of fetchHandler.  A path is the sequence of its segments; "/"  *)
(* is the empty one and a trailing slash makes an empty last segment.      *)
(***************************************************************************)
EXTENDS Integers, Sequences, FiniteSets, FiniteSetsExt

CONSTANTS
  Decoded,   \* segment -> what decodeURI makes of it, or Malformed
  Number,    \* segment -> what parseInt makes of it, 0 for none
  Malformed  \* decodeURI throws

EmptySegment == ""

\* The segments that patterns have in common with paths.
Literal == {"queues", "jobs", "workers", "progress", "logs", "ws", "process", "events"}

\* decodeURI leaves letters as they are.
ASSUME DecodingAssumption == \A s \in Literal \cap DOMAIN Decoded : Decoded[s] = s

-----------------------------------------------------------------------------
Param == {":queueName", ":jobId", ":concurrency"}

\* addHttpRoute: a method and an authorisation.
HttpRoute(name, method, pattern, auth) ==
  [name |-> name, method |-> method, pattern |-> pattern, auth |-> auth, kind |-> "http"]

\* addWebSocketRoute: any method, no authorisation function.
WebSocketRoute(name, pattern) ==
  [name |-> name, method |-> "any", pattern |-> pattern, auth |-> "none", kind |-> "ws"]

queuesRoutes == <<
  HttpRoute("addJobs", "POST", <<"queues", ":queueName", "jobs">>, "tokens"),
  HttpRoute("getJobs", "GET",  <<"queues", ":queueName", "jobs">>, "tokens"),
  HttpRoute("getJob",  "GET",  <<"queues", ":queueName", "jobs", ":jobId">>, "tokens") >>

workersRoutes == <<
  HttpRoute("addWorker",    "POST",   <<"workers">>, "tokens"),
  HttpRoute("getWorkers",   "GET",    <<"workers">>, "tokens"),
  HttpRoute("removeWorker", "DELETE", <<"workers", ":queueName">>, "tokens") >>

\* Mutant: a route is registered without its authorisation.
OpenJobsRoutes == <<
  HttpRoute("updateProgress", "POST", <<"queues", ":queueName", "jobs", ":jobId", "progress">>, "none"),
  HttpRoute("addLog",  "POST", <<"queues", ":queueName", "jobs", ":jobId", "logs">>, "lock"),
  HttpRoute("getLogs", "GET",  <<"queues", ":queueName", "jobs", ":jobId", "logs">>, "tokens") >>

jobsRoutes == <<
  HttpRoute("updateProgress", "POST", <<"queues", ":queueName", "jobs", ":jobId", "progress">>, "lock"),
  HttpRoute("addLog",  "POST", <<"queues", ":queueName", "jobs", ":jobId", "logs">>, "lock"),
  HttpRoute("getLogs", "GET",  <<"queues", ":queueName", "jobs", ":jobId", "logs">>, "tokens") >>

webSocketRoutes == <<
  WebSocketRoute("queue",        <<"ws", "queues", ":queueName">>),
  WebSocketRoute("worker",       <<"ws", "queues", ":queueName", "process", ":concurrency">>),
  WebSocketRoute("queue-events", <<"ws", "queues", ":queueName", "events">>) >>

routes == queuesRoutes \o workersRoutes \o jobsRoutes \o webSocketRoutes

\* Mutant: the pattern has no "$".
FitsPrefix(pattern, path) ==
  /\ Len(pattern) <= Len(path)
  /\ \A i \in DOMAIN pattern :
       IF pattern[i] \in Param THEN path[i] # EmptySegment ELSE pattern[i] = path[i]

\* The regular expression of a pattern: a parameter is a segment "([^/]+)".
Fits(pattern, path) ==
  /\ Len(pattern) = Len(path)
  /\ \A i \in DOMAIN pattern :
       IF pattern[i] \in Param THEN path[i] # EmptySegment ELSE pattern[i] = path[i]

Candidates(path, method) ==
  {i \in DOMAIN routes : Fits(routes[i].pattern, path) /\ routes[i].method \in {"any", method}}

\* Mutant: the groups are counted from the one before.
ParamsShifted(pattern, path) ==
  [p \in {pattern[i] : i \in DOMAIN pattern} \cap Param |->
     Decoded[path[CHOOSE i \in DOMAIN pattern : pattern[i + 1] = p]]]

\* params[param] = decodeURI(matches[index + 1]).
Params(pattern, path) ==
  [p \in {pattern[i] : i \in DOMAIN pattern} \cap Param |->
     Decoded[path[CHOOSE i \in DOMAIN pattern : pattern[i] = p]]]

\* Mutant: the parameter is read under a name it does not have.
ConcurrencyMisnamed(params) == 1

\* parseInt(route.params.concurrency, 10) || 1.
Concurrency(params) ==
  IF ":concurrency" \notin DOMAIN params \/ Number[params[":concurrency"]] = 0
  THEN 1 ELSE Number[params[":concurrency"]]

-----------------------------------------------------------------------------
Code(n) == [status |-> n]

\* The data of server.upgrade: `events` is declared and never assigned.
UpgradeData(route, params) ==
  [status |-> 101, route |-> route, params |-> params,
   concurrency |-> Concurrency(params), events |-> {}]

\* fetchHandler up to the handler of the route; 500 for a malformed path is
\* Bun's answer to the exception.
fetchHandler(r) ==
  LET found  == Candidates(r.path, r.method)
      route  == routes[Min(found)]
      params == Params(route.pattern, r.path)
  IN IF r.path = <<>> /\ r.method = "GET" THEN Code(200)
     ELSE IF found = {} THEN Code(404)
     ELSE IF Malformed \in {params[p] : p \in DOMAIN params} THEN Code(500)
     ELSE IF route.auth # "none" /\ ~r.authorised THEN Code(401)
     ELSE IF route.kind = "http"
          THEN [status |-> 200, route |-> route, params |-> params]
     ELSE IF r.upgradable THEN UpgradeData(route, params)
     ELSE Code(500)
=============================================================================
