----------------------------- MODULE MCRequests -----------------------------
(* Inputs for TLC.                                                         *)
EXTENDS Requests

\* Every path of up to five segments that has, at each place, a literal of some
\* route there, a name, an encoded or malformed name, or nothing.
Names == {"a", "%61", "%", "", "jobs"}
At == << {"queues", "workers", "ws", "a"},
         Names \cup {"queues"},
         Names \cup {"events"},
         Names \cup {"process", "events", "5"},
         {"progress", "logs", "5", "0", "a"} >>

MCPath == {<<>>} \cup UNION {
  {<<a>> : a \in At[1]},
  {<<a, b>> : a \in At[1], b \in At[2]},
  {<<a, b, c>> : a \in At[1], b \in At[2], c \in At[3]},
  {<<a, b, c, d>> : a \in At[1], b \in At[2], c \in At[3], d \in At[4]},
  {<<a, b, c, d, e>> : a \in At[1], b \in At[2], c \in At[3], d \in At[4], e \in At[5]}}

MCHttpRequest == [path : MCPath, method : {"GET", "POST", "DELETE"},
                  authorised : BOOLEAN, upgradable : BOOLEAN]

Segments  == UNION {At[i] : i \in 1 .. 5}
MCDecoded == [s \in Segments |-> CASE s = "%61" -> "a" [] s = "%" -> Malformed [] OTHER -> s]
MCNumber  == [s \in Segments |-> IF s = "5" THEN 5 ELSE 0]

-----------------------------------------------------------------------------
\* Valid jobs and metadata in which up to two options, or two fields of an
\* option, have any kind of value.
Values == {Plain(k) : k \in Numbers \cup {"null", "true", "false", "empty", "array"}}
          \cup {Text(k) : k \in {"string", "fixed", "list"}}
Few    == {Plain(k) : k \in {"zero", "negative", "positive"}} \cup {Text("string")}

Objects(f, g) == {Object(f :> v @@ g :> w) : v \in Values, w \in Few}
                 \cup {Object(f :> v) : v \in Values} \cup {Object(<<>>)}

JobBody(opts) ==
  Object("name" :> Text("string") @@ "data" :> Object(<<>>) @@ "opts" :> opts)
WorkerBody(opts) ==
  Object("queue" :> Text("string") @@ "opts" :> opts @@
         "endpoint" :> Object("url" :> Text("httpUrl") @@ "method" :> Text("POST")))

JobOpts == UNION {Objects(f, g) : f, g \in (JobOption \cup {"repeat"})}
           \cup {Object("backoff" :> b) : b \in Objects("type", "delay")}
           \cup {Object("deduplication" :> d) : d \in Objects("id", "ttl")}
WorkerOption == {"concurrency", "limiter", "maxStalledCount", "removeOnFail", "autorun"}
WorkerOpts == UNION {Objects(f, g) : f, g \in WorkerOption}
              \cup {Object("limiter" :> l) : l \in Objects("max", "duration")}
              \cup {Object("limiter" :> Object("max" :> v @@ "duration" :> Plain("positive") @@ "id" :> v)) : v \in Few}
              \cup {Object("removeOnComplete" :> r) : r \in Objects("count", "age")}
Endpoints == {Object("url" :> u @@ "method" :> m @@ "timeout" :> t) :
  u \in {Text("httpUrl"), Text("string"), Plain("true")},
  m \in {Text("POST"), Text("GET"), Plain("positive")}, t \in Few}

MCJsonValue ==
  {JobBody(o) : o \in JobOpts \cup Values}
  \cup {WorkerBody(o) : o \in WorkerOpts \cup Values}
  \cup {Object("queue" :> q @@ "endpoint" :> e) :
          q \in Values \cup {Text("short"), Text("long")}, e \in Endpoints}
  \cup Values \cup Objects("name", "extra") \cup Objects("every", "limit") \cup Objects("key", "immediately")

-----------------------------------------------------------------------------
\* Two lists of up to five entries, and pages of up to one more than Limit.
MCList   == [{"waiting", "failed"} -> 0 .. 5]
MCStart  == (-1 .. 6) \cup {NaN}
MCLength == (-1 .. Limit + 1) \cup {NaN}
=============================================================================
