--------------------------- MODULE QueueCommands ---------------------------
(***************************************************************************)
(* A command of the Bun queue client (queue-client.ts), the schema the     *)
(* proxy checks it with (commands.ts), the answer of the queue controller  *)
(* (queue.ts) and what the client makes of it.  Arguments are kinds.       *)
(***************************************************************************)
EXTENDS Integers, Sequences

CONSTANTS
  Kind,      \* kinds of argument
  QueueMethod \* methods of BullMQ's Queue

ASSUME CommandAssumption ==
  /\ {"string", "status", "number", "boolean", "object", "null"} \subseteq Kind
  /\ {"add", "pause", "resume", "getJobs", "getJobCounts"} \subseteq QueueMethod

-----------------------------------------------------------------------------
\* The broker of the client writes JSON: undefined is null in an array.
Json(args) == [i \in DOMAIN args |-> IF args[i] = "undefined" THEN "null" ELSE args[i]]

\* The tuples of commands.ts; a tuple wants all of its elements, Optional or
\* not, and null is no number and no boolean.
Schema ==
  [add         |-> <<{"string", "status"}, Kind, Kind>>,
   pause       |-> <<>>,
   resume      |-> <<>>,
   getJobs     |-> <<{"status"}, {"number"}, {"number"}, {"boolean"}>>,
   getJobCounts |-> <<>>,
   jobProgress |-> <<{"string", "status"}, Kind>>]

InSchema(c) ==
  /\ c.fn \in DOMAIN Schema
  /\ Len(c.args) = Len(Schema[c.fn])
  /\ \A i \in DOMAIN c.args : c.args[i] \in Schema[c.fn][i]

\* The methods of QueueClient, with what their types allow for each argument.
Maybe(kinds) == kinds \cup {"undefined"}
ClientMethod ==
  [add               |-> <<{"string"}, {"object", "string"}, Maybe({"object"})>>,
   pause             |-> <<>>,
   resume            |-> <<>>,
   getWorkers        |-> <<>>,
   getJobs           |-> <<{"status"}, {"number"}, {"number"}, {"boolean"}>>,
   getJobLogs        |-> <<{"string"}, Maybe({"number"}), Maybe({"number"})>>,
   updateJobProgress |-> <<{"string"}, {"number", "object"}>>,
   addJobLog         |-> <<{"string"}, {"string"}, Maybe({"number"})>>]

Counts == {[fn |-> "getJobCounts", args |-> [i \in 1 .. n |-> "status"]] : n \in 0 .. 2}

Sent == Counts \cup
  UNION {{[fn |-> m, args |-> Json(a)] :
            a \in {a \in [DOMAIN ClientMethod[m] -> Kind \cup {"undefined"}] :
                     \A i \in DOMAIN a : a[i] \in ClientMethod[m][i]}} : m \in DOMAIN ClientMethod}

\* What another client may send: any name with any arguments.
Other == [fn : QueueMethod \cup {"jobProgress", "nonsense"},
          args : UNION {[1 .. n -> Kind] : n \in 0 .. 2}]

-----------------------------------------------------------------------------
\* What goes wrong: the Queue constructor threw in openQueue, or the method
\* throws an error with a text, one with an empty text, something without a
\* message, or null.
NoQueue == "noQueue"
Thrown  == {"error", "emptyError", "noMessage", "null"}
Fine    == "none"
Fault   == Thrown \cup {NoQueue, Fine}

\* err as the controller sends it: an object for a message the schema refuses,
\* the bare text of an error.
ErrObject == [message |-> "text"]
ErrText   == [text |-> "text"]
EmptyText == [text |-> "empty"]

\* JSON leaves out a field that is undefined.
Empty   == [no |-> "field"]
Silence == [no |-> "answer"]

Runs(c, f) == InSchema(c) /\ f # NoQueue /\ c.fn \in QueueMethod

\* What a method of the Queue returns: pause and resume nothing.
Returned(c) == IF c.fn \in {"pause", "resume"} THEN "undefined" ELSE c.fn

OkAnswer(c) == IF Returned(c) = "undefined" THEN Empty ELSE [ok |-> Returned(c)]

\* The message of what was caught: reading that of null throws once more, and
\* the outer catch answers nothing.
ErrAnswer(f) ==
  CASE f = "emptyError" -> [err |-> EmptyText]
    [] f = "noMessage"  -> Empty
    [] f = "null"       -> Silence
    [] OTHER            -> [err |-> ErrText]

\* QueueController.message, and respond.
AnswerTo(c, f) ==
  IF ~InSchema(c) THEN [err |-> ErrObject]
  ELSE IF ~Runs(c, f) THEN [err |-> ErrText]
  ELSE IF f = Fine THEN OkAnswer(c) ELSE ErrAnswer(f)

\* Mutant: success is told by `ok`.
ResultByOk(a) ==
  IF "ok" \in DOMAIN a THEN [resolved |-> a.ok] ELSE [rejected |-> "undefined"]

\* send of the client, which tests `if (err)`: an empty text is no error, the
\* message of a text is undefined.  No answer is a timeout of its broker.
ResultOf(a) ==
  IF a = Silence THEN [rejected |-> "timeout"]
  ELSE IF "err" \in DOMAIN a /\ a.err # EmptyText
  THEN [rejected |-> IF "message" \in DOMAIN a.err THEN a.err.message ELSE "undefined"]
  ELSE [resolved |-> IF "ok" \in DOMAIN a THEN a.ok ELSE "undefined"]
=============================================================================
