------------------------------ MODULE Requests ------------------------------
(***************************************************************************)
(* What decides about a request before BullMQ is called: the routes, the   *)
(* validators, the commands of the queue client and the pages of a list.   *)
(* Each is a function of the request; a step answers one, and a client     *)
(* that pages goes on to the next page.                                    *)
(***************************************************************************)
EXTENDS RouteMatcher, Validators, QueueCommands, Pagination

CONSTANTS
  HttpRequest, \* [path, method, authorised, upgradable]
  JsonValue,   \* values of JSON bodies: [kind, fields]
  List,        \* sizes of the lists a page is taken of: status -> entries
  Start, Length

\* In a value of JSON, only an object has fields that are not indices, and what
\* is empty has none.
Indexed(v) ==
  /\ v.kind = "object" \/ DOMAIN v.fields \subseteq {"0"}
  /\ Falsy(v) => DOMAIN v.fields = {}

ASSUME RequestAssumption ==
  /\ \A r \in HttpRequest : r.path \in Seq(DOMAIN Decoded)
  /\ \A v \in JsonValue : Indexed(v) /\ \A f \in DOMAIN v.fields :
       Indexed(v.fields[f]) /\ \A g \in DOMAIN v.fields[f].fields :
         Indexed(v.fields[f].fields[g])
  /\ \A size \in List : \A s \in DOMAIN size : size[s] \in Nat
  /\ Start \cup Length \subseteq Int \cup {NaN}

VARIABLES
  input,    \* the request, and what it is about
  answered,
  output    \* what it led to

requestVars == <<input, answered, output>>

RequestInit ==
  /\ \/ \E r \in HttpRequest : input = [about |-> "route", request |-> r]
     \/ \E by \in Validator, v \in JsonValue : input = [about |-> "body", by |-> by, value |-> v]
     \/ \E c \in Sent \cup Other, f \in Fault :
          input = [about |-> "command", command |-> c, fault |-> f]
     \/ \E size \in List, s \in Start, n \in Length :
          input = [about |-> "page", size |-> size, start |-> s, length |-> n]
  /\ answered = FALSE
  /\ output = <<>>

Answers(about) == ~answered /\ input.about = about /\ answered' = TRUE

\* fetchHandler.
Route ==
  /\ Answers("route")
  /\ output' = fetchHandler(input.request)
  /\ UNCHANGED input

\* addJobs and addWorker look at the body.
Validate ==
  /\ Answers("body")
  /\ output' = AcceptedBy(input.by, input.value)
  /\ UNCHANGED input

\* The client sends a command, the controller answers, the call settles.
Command ==
  /\ Answers("command")
  /\ output' = [ran |-> Runs(input.command, input.fault),
                call |-> ResultOf(AnswerTo(input.command, input.fault))]
  /\ UNCHANGED input

\* A first page.
FirstPage ==
  /\ Answers("page")
  /\ LET page == Page(input.size, input.start, input.length) IN
       output' = [page |-> page, seen |-> page]
  /\ UNCHANGED input

\* The next page of the same length, until every list has come to its end.
NextPage ==
  /\ input.about = "page" /\ answered
  /\ output.page # Refused(input.size) /\ input.length > 0
  /\ input' = [input EXCEPT !.start = @ + input.length]
  /\ LET page == Page(input.size, input'.start, input.length) IN
       output' = [page |-> page,
                  seen |-> [s \in DOMAIN page |-> output.seen[s] \o page[s]]]
  /\ \E s \in DOMAIN input.size : input.start < input.size[s]
  /\ UNCHANGED answered

RequestNext == Route \/ Validate \/ Command \/ FirstPage \/ NextPage

RequestSpec == RequestInit /\ [][RequestNext]_requestVars

-----------------------------------------------------------------------------
Routed == answered /\ input.about = "route" /\ "route" \in DOMAIN output

\* No request fits two routes: which files register their routes first does
\* not matter (the loop of match returns the first).
OneRoute ==
  input.about = "route" =>
    \A i, j \in Candidates(input.request.path, input.request.method) : i = j

\* The names a handler gets, put back into the pattern of its route, are the
\* decoded path: no name is lost, swapped or taken from a literal (addRoute's
\* parameter names against match's groups).
Rebuilt == [i \in DOMAIN output.route.pattern |->
  IF output.route.pattern[i] \in Param
  THEN output.params[output.route.pattern[i]] ELSE output.route.pattern[i]]

NamesRoundTrip ==
  Routed => Rebuilt = [i \in DOMAIN input.request.path |-> Decoded[input.request.path[i]]]

\* Only an authorised request reaches an HTTP handler, by whatever route.
HandlersNeedAuthorisation ==
  Routed /\ output.route.kind = "http" => input.request.authorised

\* The clients put queues/<name>, queues/<name>/events and
\* queues/<name>/process/<n> behind their host: with /ws at its end, each gets
\* the controller, the queue and the concurrency it means (queue-client.ts:43,
\* queue-events.ts:24, queue-worker.ts against fetch-handler.ts:27-83).
Opened(path) ==
  CASE Len(path) = 3 -> "queue"
    [] Len(path) = 4 /\ path[4] = "events" -> "queue-events"
    [] Len(path) = 5 /\ path[4] = "process" /\ path[5] # EmptySegment -> "worker"
    [] OTHER -> "nothing"

ClientsAreUpgraded ==
  LET path == input.request.path IN
  /\ answered /\ input.about = "route" /\ input.request.upgradable
  /\ Len(path) \in 3 .. 5 /\ path[1] = "ws" /\ path[2] = "queues" /\ path[3] # EmptySegment
  /\ \A i \in DOMAIN path : Decoded[path[i]] # Malformed
  /\ Opened(path) \in {"queue", "queue-events", "worker"}
  => /\ Routed /\ output.status = 101
     /\ output.route.name = Opened(path)
     /\ output.params[":queueName"] = Decoded[path[3]]
     /\ Opened(path) = "worker" /\ Number[Decoded[path[5]]] # 0 =>
          output.concurrency = Number[Decoded[path[5]]]

\* Routing as a whole (router-matcher.ts, fetch-handler.ts, the route tables).
RoutingIsSound ==
  OneRoute /\ NamesRoundTrip /\ HandlersNeedAuthorisation /\ ClientsAreUpgraded

-----------------------------------------------------------------------------
Accepted(by) == answered /\ input.about = "body" /\ input.by = by /\ output
Opts         == Get(input.value, "opts")

\* The kinds that BullMQ documents for an option, and what the error messages of
\* the validators ask for.
Documented(f) ==
  CASE f \in {"delay", "attempts"} -> {"zero", "positive", "large"}
    [] f = "priority"              -> {"positive"}
    [] f \in {"concurrency", "maxStalledCount", "max", "duration", "count", "age", "timeout",
              "every", "limit"}    -> {"positive", "large"}
    [] f = "ttl"                   -> {"zero", "positive", "large", "fraction"}
    [] f \in {"lifo", "immediately"} -> {"true", "false"}
    [] f \in {"id", "jobId", "key"}  -> Texts \cup {"empty"}
    [] OTHER                       -> {"object"}

\* The options whose test starts with `opts.x &&`: what is empty passes.
Lenient == {"delay", "attempts", "backoff", "jobId", "deduplication", "concurrency",
            "maxStalledCount", "limiter", "count", "age", "timeout", "limit", "key"}

Suits(f, v) == v.kind \in Documented(f) \/ (f \in Lenient /\ Falsy(v))
FieldsSuit(v, names) == \A f \in names : Defined(Get(v, f)) => Suits(f, Get(v, f))

Untested == {"removeOnComplete", "removeOnFail"}

\* A backoff has one of its two fields, and a delay is a number that comes with
\* the type fixed.
BackoffSuits(b) ==
  /\ DOMAIN b.fields # {} /\ Only(b, {"type", "delay"})
  /\ Defined(Get(b, "delay")) => /\ Get(b, "type").kind = "fixed"
                                 /\ Get(b, "delay").kind \in Numbers \ Negative

\* Job options that validateJob accepts, which need not be an object: each has a
\* documented kind, but for the empty values its test lets through and for
\* removeOnComplete and removeOnFail, which are not tested.
JobOptionsSuit ==
  Accepted("job") =>
    /\ DOMAIN Opts.fields \subseteq JobOption
    /\ FieldsSuit(Opts, JobOption \ Untested)
    /\ FieldsSuit(Get(Opts, "deduplication"), {"id", "ttl"})
    /\ Get(Opts, "backoff").kind = "object" => BackoffSuits(Get(Opts, "backoff"))

\* The same of worker metadata; and a rate limiter has both its numbers, though
\* each of them is only looked at behind the test of the limiter.
MetadataSuits ==
  Accepted("metadata") =>
    /\ FieldsSuit(Opts, {"concurrency", "maxStalledCount", "limiter"})
    /\ \A f \in Untested : FieldsSuit(Get(Opts, f), {"count", "age"})
    /\ Get(Opts, "limiter").kind = "object" =>
         \A f \in {"max", "duration"} : Get(Get(Opts, "limiter"), f).kind \in Documented(f)
    /\ FieldsSuit(Get(input.value, "endpoint"), {"timeout"})

\* The same of repeat options.
RepeatSuits ==
  Accepted("repeat") =>
    /\ Get(input.value, "every").kind \in Documented("every")
    /\ FieldsSuit(input.value, {"limit", "immediately", "key"})

\* Metadata that passes the validator and that BullMQ refuses when a process
\* makes the worker is metadata with an empty concurrency or maxStalledCount
\* (null, false, 0, ""): no other kind of value poisons the registry.
PoisonIsEmpty ==
  Accepted("metadata") /\ WorkerThrows(Opts) =>
    \E f \in {"concurrency", "maxStalledCount"} :
      Defined(Get(Opts, f)) /\ Falsy(Get(Opts, f))

\* What the validators let through, to its exact exceptions
\* (queue.validators.ts, workers.validators.ts).
AcceptedIsValid == JobOptionsSuit /\ MetadataSuits /\ RepeatSuits /\ PoisonIsEmpty

-----------------------------------------------------------------------------
\* Errors that the client cannot tell from a result: err is empty or left out.
Unseen == {"emptyError", "noMessage"}

\* A call fails exactly when the method did not run or threw, on each path of
\* the controller and whatever the method returned, but for errors without a
\* message, after which it resolves (queue.ts:55-62, queue-client.ts:31-37).
SuccessIsSuccess ==
  answered /\ input.about = "command" =>
    ("resolved" \in DOMAIN output.call <=> output.ran /\ input.fault \in Unseen \cup {Fine})

\* The calls of the client for which commands.ts has a tuple that fits.
Served ==
  {c \in Sent : \/ c.fn \in {"add", "pause", "resume", "getJobs"}
                \/ c.fn = "getJobCounts" /\ c.args = <<>>}

\* Those calls, optional arguments left out or not, pass the schema as JSON has
\* left them, and resolve with what the method returned when nothing fails.
ServedResolves ==
  answered /\ input.about = "command" /\ input.command \in Served /\ input.fault = Fine =>
    output.call = [resolved |-> Returned(input.command)]

\* What the caller is told is what happened to its command (queue-client.ts,
\* commands.ts, QueueController.message).
OutcomeIsTold == SuccessIsSuccess /\ ServedResolves

-----------------------------------------------------------------------------
Paged == answered /\ input.about = "page" /\ output.page # Refused(input.size)

\* Pages in sequence bring every entry once and in order: what a walk has seen
\* is a run of consecutive entries of each list.
PagesMeet ==
  Paged => \A s \in DOMAIN input.size : \A i \in 1 .. Len(output.seen[s]) - 1 :
             output.seen[s][i + 1] = output.seen[s][i] + 1

\* A walk that met an empty page of a list has seen the end of that list.
WalkSeesAll ==
  Paged /\ input.length > 0 => \A s \in DOMAIN input.size :
    output.page[s] = <<>> /\ output.seen[s] # <<>> =>
      output.seen[s][Len(output.seen[s])] = input.size[s]

\* queue.validators.ts:192, "Length must be less than or equal to 100": no page
\* has more entries of a list than that, but for start = length = 0, which asks
\* Redis for 0 .. -1, the whole list (queue-http-controller.ts:85).
PageWithinLimit ==
  Paged /\ <<input.start, input.length>> # <<0, 0>> =>
    \A s \in DOMAIN input.size : Len(output.page[s]) <= Limit

\* Who pages through a list sees all of it, once, in bounded pages
\* (getJobs, getLogs).
PagesCoverLists == PagesMeet /\ WalkSeesAll /\ PageWithinLimit
=============================================================================
