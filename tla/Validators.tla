----------------------------- MODULE Validators -----------------------------
(***************************************************************************)
(* What the validators of jobs (queue.validators.ts) and of worker         *)
(* metadata (workers.validators.ts) accept.  A value of a JSON body is its *)
(* kind, as far as the tests tell kinds apart, and the fields a for..in    *)
(* loop finds in it; a validator that throws, for whatever reason, refuses.*)
(***************************************************************************)
EXTENDS Integers, TLC

-----------------------------------------------------------------------------
Plain(kind)    == [kind |-> kind, fields |-> <<>>]
Object(fields) == [kind |-> "object", fields |-> fields]
\* The loop finds the indices of a string, and of a list that is not empty.
Text(kind)     == [kind |-> kind, fields |-> "0" :> Plain("string")]

Texts    == {"string", "short", "long", "fixed", "httpUrl", "POST", "GET"}
Numbers  == {"zero", "negative", "positive", "large", "fraction"}
Negative == {"negative"}
Integral == Numbers \ {"fraction"}

Undefined == Plain("undefined")
Get(v, f) == IF f \in DOMAIN v.fields THEN v.fields[f] ELSE Undefined
Only(v, allowed) == DOMAIN v.fields \subseteq allowed

Falsy(v)    == v.kind \in {"undefined", "null", "false", "zero", "empty"}
IsString(v) == v.kind \in Texts \cup {"empty"}
IsNumber(v) == v.kind \in Numbers
Defined(v)  == v.kind # "undefined"

\* Mutant: the alternatives of the test are joined by "and".
PositiveOrInteger(v) == Falsy(v) \/ v.kind \in Integral \/ v.kind \notin Negative

\* v && (!Number.isInteger(v) || v <= 0) throws; as 0 is falsy, v < 0 in its
\* place throws for the same values.
PositiveIfGiven(v) == Falsy(v) \/ (v.kind \in Integral /\ v.kind \notin Negative)

\* A name of another type has no length to compare, and a list of some elements
\* has one within the bounds.
validateQueueName(v) == v.kind \notin {"short", "long", "empty", "array"}

validateRepeatOpts(o) ==
  /\ Only(o, {"every", "limit", "key", "immediately"})
  /\ ~Falsy(Get(o, "every"))
  /\ PositiveIfGiven(Get(o, "every"))
  /\ PositiveIfGiven(Get(o, "limit"))
  /\ Get(o, "immediately").kind \in {"undefined", "true", "false"}
  /\ Falsy(Get(o, "key")) \/ IsString(Get(o, "key"))

validateDeduplicationOpts(o) ==
  /\ Only(o, {"id", "ttl"})
  /\ IsString(Get(o, "id"))
  /\ Defined(Get(o, "ttl")) => IsNumber(Get(o, "ttl"))
  /\ Get(o, "ttl").kind \notin Negative

\* A number that is not negative passes the first test and fails the second.
validateBackoffOpts(o) ==
  /\ IsNumber(o) => o.kind \notin Negative
  /\ o.kind = "object"
  /\ DOMAIN o.fields # {}
  /\ Only(o, {"type", "delay"})
  /\ Get(o, "type").kind = "fixed" \/ ~Defined(Get(o, "delay"))
  /\ Defined(Get(o, "delay")) => IsNumber(Get(o, "delay"))
  /\ Get(o, "delay").kind \notin Negative

JobOption == {"delay", "lifo", "priority", "attempts", "backoff", "jobId",
              "deduplication", "removeOnComplete", "removeOnFail"}

validateJobOpts(o) ==
  /\ Only(o, JobOption)
  /\ PositiveIfGiven(Get(o, "delay"))
  /\ Defined(Get(o, "priority")) => Get(o, "priority").kind = "positive"
  /\ PositiveIfGiven(Get(o, "attempts"))
  /\ Falsy(Get(o, "backoff")) \/ validateBackoffOpts(Get(o, "backoff"))
  /\ Get(o, "lifo").kind \in {"undefined", "true", "false"}
  /\ Falsy(Get(o, "jobId")) \/ IsString(Get(o, "jobId"))
  /\ Falsy(Get(o, "deduplication")) \/ validateDeduplicationOpts(Get(o, "deduplication"))
  /\ Falsy(Get(o, "repeat")) \/ validateRepeatOpts(Get(o, "repeat"))

\* A null job throws when its name is read.
validateJob(job) ==
  /\ ~Falsy(Get(job, "name")) /\ ~Falsy(Get(job, "data"))
  /\ Only(job, {"name", "data", "opts"})
  /\ Falsy(Get(job, "opts")) \/ validateJobOpts(Get(job, "opts"))

-----------------------------------------------------------------------------
validateRemoveOnFinish(o) ==
  /\ Only(o, {"count", "age"})
  /\ PositiveIfGiven(Get(o, "count"))
  /\ PositiveIfGiven(Get(o, "age"))

\* Mutant: a limiter is checked when it has a field to check.
LimiterIfFields(o) ==
  /\ Falsy(Get(o, "max")) \/ PositiveIfGiven(Get(o, "max"))
  /\ Falsy(Get(o, "duration")) \/ PositiveIfGiven(Get(o, "duration"))

\* Both fields of a limiter are required.
validateLimiter(o) ==
  /\ ~Falsy(Get(o, "max")) /\ PositiveIfGiven(Get(o, "max"))
  /\ ~Falsy(Get(o, "duration")) /\ PositiveIfGiven(Get(o, "duration"))

validateWorkerOptions(o) ==
  /\ Only(o, {"concurrency", "removeOnComplete", "removeOnFail", "limiter", "maxStalledCount"})
  /\ Falsy(Get(o, "limiter")) \/ validateLimiter(Get(o, "limiter"))
  /\ PositiveIfGiven(Get(o, "maxStalledCount"))
  /\ PositiveIfGiven(Get(o, "concurrency"))
  /\ \A f \in {"removeOnComplete", "removeOnFail"} :
       Falsy(Get(o, f)) \/ validateRemoveOnFinish(Get(o, f))

isValidUrl(v) == v.kind = "httpUrl"

validateWorkerEndpoint(e) ==
  /\ isValidUrl(Get(e, "url"))
  /\ Get(e, "method").kind = "POST"
  /\ Only(e, {"url", "method", "headers", "timeout"})
  /\ PositiveIfGiven(Get(e, "timeout"))

validateWorkerMetadata(m) ==
  /\ ~Falsy(Get(m, "queue")) /\ ~Falsy(Get(m, "endpoint"))
  /\ Only(m, {"queue", "endpoint", "opts"})
  /\ validateQueueName(Get(m, "queue"))
  /\ validateWorkerEndpoint(Get(m, "endpoint"))
  /\ Falsy(Get(m, "opts")) \/ validateWorkerOptions(Get(m, "opts"))

\* BullMQ's Worker: what a process makes of the options throws for a concurrency
\* that is no number of at least 1 and a maxStalledCount that is no number or
\* negative; what is not given has a default.
WorkerThrows(o) ==
  \/ /\ Defined(Get(o, "concurrency"))
     /\ Get(o, "concurrency").kind \notin {"positive", "large"}
  \/ /\ Defined(Get(o, "maxStalledCount"))
     /\ Get(o, "maxStalledCount").kind \notin Numbers \ Negative

-----------------------------------------------------------------------------
Validator == {"job", "repeat", "metadata"}

\* A validator does not throw.
AcceptedBy(by, value) ==
  CASE by = "job"      -> validateJob(value)
    [] by = "repeat"   -> validateRepeatOpts(value)
    [] by = "metadata" -> validateWorkerMetadata(value)
=============================================================================
