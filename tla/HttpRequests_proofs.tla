------------------------- MODULE HttpRequests_proofs -------------------------
(***************************************************************************)
(* Proofs about HTTP requests, their two halves: HttpJobs, the awaits of   *)
(* the handlers, for any requests, jobs and tokens; and Requests, what     *)
(* decides about a request, for any paths, bodies, commands and pages.     *)
(*                                                                         *)
(* Inv adds to HttpJobsInv what a request has behind it at each place: a   *)
(* token that held the lock when it is compared, a body without an invalid *)
(* job when BullMQ is called, no answer before the end.  RequestInv says   *)
(* what a step of Requests has made of its input; the rest are facts about *)
(* the operators, for every argument.                                      *)
(***************************************************************************)
EXTENDS HttpJobs, Requests, TLAPS


\* A request that waits for the lock of its job and would be let through was
\* seen to hold it.
LockSeen == \A r \in Request : pc[r] = "lock" =>
  /\ req[r].op \in WorkerOps /\ req[r].token # None
  /\ lock[req[r].job] = req[r].token => r \in held

BodyChecked == \A r \in Request : pc[r] = "call" /\ req[r].op = "addJobs" =>
  Accepts(req[r].body)

Unanswered == \A r \in Request : pc[r] # "done" => status[r] = 0

Inv == /\ HttpJobsInv /\ LockSeen /\ BodyChecked /\ Unanswered
       /\ WritersHeldLock /\ RefusedWroteNothing /\ BulkIsWhole

\* What the fields of a request are.
LEMMA AskFields ==
  \A a \in Ask \cup {Nothing} :
    /\ a.job \in Job \cup {None}
    /\ a.op \in WorkerOps => a.job \in Job
    /\ a.op = "addJobs" => a.job = None
    /\ DOMAIN a.body \subseteq Nat
    /\ a.token \in Token \cup {None}
<1>1. \A b \in Body \cup {<<>>} : DOMAIN b \subseteq Nat
  BY DEF Body
<1> QED BY <1>1 DEF Ask, Nothing, WorkerOps, Body

\* The initial state satisfies the invariant.
LEMMA InitInv == Init => Inv
<1> SUFFICES ASSUME Init PROVE Inv OBVIOUS
<1>1. TypeOK
  BY TokenAssumption DEF Init, TypeOK
<1>2. \A r \in Request : ~Wrote(r)
  BY TokenAssumption DEF Init, Wrote
<1> QED BY <1>1, <1>2, TokenAssumption DEF Init, Inv, HttpJobsInv, PastLockHeld, WritesAreAsked, Wrote,
        LockSeen, BodyChecked, Unanswered, WritersHeldLock, RefusedWroteNothing, BulkIsWhole

-----------------------------------------------------------------------------
\* A request comes: it has written nothing, and nothing is known of it.
LEMMA ReceiveInv ==
  ASSUME Inv, NEW r \in Request, NEW ask \in Ask, Receive(r, ask)
  PROVE  Inv'
<1>1. TypeOK'
  BY DEF Receive, Respond, Goto, Inv, HttpJobsInv, TypeOK, store, data
<1>2. ~Wrote(r) /\ \A s \in Request : Wrote(s)' = Wrote(s)
  BY DEF Receive, Inv, HttpJobsInv, WritesAreAsked, Wrote, data
<1>3. /\ \A s \in Request \ {r} : req'[s] = req[s] /\ pc'[s] = pc[s] /\ status'[s] = status[s]
      /\ req'[r] = ask /\ held \subseteq held'
      /\ UNCHANGED <<store, data>>
      /\ pc'[r] \in {"lock", "handler", "done"}
      /\ pc'[r] = "lock" => ask.op \in WorkerOps /\ ask.token # None
      /\ pc'[r] = "handler" => ask.op \notin WorkerOps
      /\ pc'[r] # "done" => status'[r] = 0
      /\ status'[r] \in {0, 401}
  BY DEF Receive, Respond, Goto, Inv, HttpJobsInv, TypeOK, Unanswered, WorkerOps
<1>4. PastLockHeld'
  BY <1>3 DEF Inv, HttpJobsInv, PastLockHeld
<1>5. WritesAreAsked'
  BY <1>2, <1>3 DEF Inv, HttpJobsInv, WritesAreAsked, Wrote, data
<1>6. LockSeen'
  <2>1. pc'[r] = "lock" /\ lock[ask.job] = ask.token => r \in held'
    BY <1>3, AskFields DEF Receive
  <2> QED BY <1>3, <2>1 DEF Inv, LockSeen, store
<1>7. BodyChecked' /\ Unanswered'
  BY <1>3 DEF Inv, BodyChecked, Unanswered
<1>8. WritersHeldLock'
  BY <1>2, <1>3 DEF Inv, WritersHeldLock, Wrote, data
<1>9. RefusedWroteNothing'
  BY <1>2, <1>3 DEF Inv, RefusedWroteNothing
<1>10. BulkIsWhole'
  <2> SUFFICES ASSUME NEW s \in Request PROVE BulkIsWhole!(s)'
    BY DEF BulkIsWhole
  <2>1. CASE s = r
    BY <1>2, <1>3, <2>1 DEF Wrote, data
  <2>2. CASE s # r
    BY <1>3, <2>2 DEF Inv, BulkIsWhole, data
  <2> QED BY <2>1, <2>2
<1> QED BY <1>1, <1>4, <1>5, <1>6, <1>7, <1>8, <1>9, <1>10 DEF Inv, HttpJobsInv

-----------------------------------------------------------------------------
\* A step of a request that writes nothing: it goes on, or is answered.
LEMMA QuietInv ==
  ASSUME Inv, NEW r \in Request, pc[r] # "done",
         pc' = [pc EXCEPT ![r] = pc'[r]], status' = [status EXCEPT ![r] = status'[r]],
         pc'[r] \in {"handler", "call", "done"}, status'[r] \in {0, 400, 401, 404, 500},
         pc'[r] # "done" => status'[r] = 0,
         pc'[r] \in {"handler", "call"} /\ req[r].op \in WorkerOps =>
           r \in held \/ req[r].name = "bad",
         pc'[r] = "call" => req[r].name = "good",
         pc'[r] = "call" /\ req[r].op = "addJobs" => Accepts(req[r].body),
         UNCHANGED <<req, store, data, held>>
  PROVE  Inv'
<1>1. TypeOK'
  BY DEF Inv, HttpJobsInv, TypeOK, store, data
<1>2. \A s \in Request \ {r} : pc'[s] = pc[s] /\ status'[s] = status[s]
  BY DEF Inv, HttpJobsInv, TypeOK
<1>3. ~Wrote(r) /\ \A s \in Request : Wrote(s)' = Wrote(s)
  BY DEF Inv, HttpJobsInv, WritesAreAsked, Wrote, data
<1>4. PastLockHeld' /\ WritesAreAsked'
  BY <1>2, <1>3 DEF Inv, HttpJobsInv, PastLockHeld, WritesAreAsked, Wrote, data
<1>5. LockSeen' /\ BodyChecked' /\ Unanswered'
  BY <1>2 DEF Inv, LockSeen, BodyChecked, Unanswered, store
<1>6. WritersHeldLock' /\ RefusedWroteNothing'
  BY <1>2, <1>3 DEF Inv, WritersHeldLock, RefusedWroteNothing, data
<1>7. BulkIsWhole'
  BY <1>2 DEF Inv, BulkIsWhole, data
<1> QED BY <1>1, <1>4, <1>5, <1>6, <1>7 DEF Inv, HttpJobsInv

\* The request is answered without having written.
LEMMA AnsweredInv ==
  ASSUME Inv, NEW r \in Request, pc[r] # "done",
         NEW code \in {400, 401, 404, 500}, Respond(r, code),
         UNCHANGED <<req, store, data, held>>
  PROVE  Inv'
<1>1. /\ pc' = [pc EXCEPT ![r] = pc'[r]] /\ status' = [status EXCEPT ![r] = status'[r]]
      /\ pc'[r] = "done" /\ status'[r] = code
  BY DEF Respond, Inv, HttpJobsInv, TypeOK
<1> QED BY <1>1, QuietInv

\* The request goes on.
LEMMA OnInv ==
  ASSUME Inv, NEW r \in Request, pc[r] # "done",
         NEW place \in {"handler", "call"}, Goto(r, place),
         req[r].op \in WorkerOps => r \in held \/ req[r].name = "bad",
         place = "call" => req[r].name = "good",
         place = "call" /\ req[r].op = "addJobs" => Accepts(req[r].body),
         UNCHANGED <<req, store, data, held>>
  PROVE  Inv'
<1>1. /\ pc' = [pc EXCEPT ![r] = pc'[r]] /\ status' = [status EXCEPT ![r] = status'[r]]
      /\ pc'[r] = place /\ status'[r] = 0
  BY DEF Goto, Inv, HttpJobsInv, TypeOK, Unanswered
<1> QED BY <1>1, QuietInv

LEMMA HandlerQuiet ==
  ASSUME Inv, NEW r \in Request,
         GetLock(r) \/ GetLockFails(r) \/ BadName(r) \/ ReadBody(r) \/ JobMissing(r)
  PROVE  Inv'
<1>1. CASE GetLock(r)
  <2>1. CASE (LockFits(r) \/ req[r].name = "bad") /\ Goto(r, "handler")
    <3>1. r \in held \/ req[r].name = "bad"
      BY <1>1, <2>1 DEF GetLock, LockFits, Inv, LockSeen
    <3> QED BY <1>1, <2>1, <3>1, OnInv DEF GetLock
  <2>2. CASE Respond(r, 401)
    BY <1>1, <2>2, AnsweredInv DEF GetLock
  <2> QED BY <1>1, <2>1, <2>2 DEF GetLock
<1>2. CASE GetLockFails(r)
  BY <1>2, AnsweredInv DEF GetLockFails
<1>3. CASE BadName(r)
  BY <1>3, AnsweredInv DEF BadName
<1>4. CASE ReadBody(r)
  <2>1. (req[r].op \in WorkerOps => r \in held) /\ req[r].name = "good"
    BY <1>4 DEF ReadBody, Inv, HttpJobsInv, PastLockHeld
  <2>2. CASE req[r].op = "getJob"
    BY <1>4, <2>1, <2>2, OnInv DEF ReadBody
  <2>3. CASE req[r].op # "getJob" /\ req[r].body = <<"unreadable">>
    BY <1>4, <2>3, AnsweredInv DEF ReadBody
  <2>4. CASE req[r].op # "getJob" /\ req[r].body # <<"unreadable">> /\ ~Accepts(req[r].body)
    BY <1>4, <2>4, AnsweredInv DEF ReadBody
  <2>5. CASE req[r].op # "getJob" /\ req[r].body # <<"unreadable">> /\ Accepts(req[r].body)
    BY <1>4, <2>1, <2>5, OnInv DEF ReadBody
  <2> QED BY <2>2, <2>3, <2>4, <2>5
<1>5. CASE JobMissing(r)
  <2>1. CASE req[r].op = "getJob"
    BY <1>5, <2>1, AnsweredInv DEF JobMissing
  <2>2. CASE req[r].op # "getJob"
    BY <1>5, <2>2, AnsweredInv DEF JobMissing
  <2> QED BY <2>1, <2>2
<1> QED BY <1>1, <1>2, <1>3, <1>4, <1>5

-----------------------------------------------------------------------------
\* The call of BullMQ took effect and the request is answered, 200 or 500.
LEMMA EffectInv ==
  ASSUME Inv, NEW r \in Request, pc[r] = "call", Effect(r),
         NEW code \in {200, 500}, Respond(r, code),
         UNCHANGED <<req, store, held>>
  PROVE  Inv'
<1> DEFINE j == req[r].job
<1>1. /\ j \in Job \cup {None}
      /\ req[r].op \in WorkerOps => j \in Job
      /\ req[r].op = "addJobs" => j = None
      /\ DOMAIN req[r].body \subseteq Nat
  BY AskFields DEF Inv, HttpJobsInv, TypeOK
<1>2. req[r].op \in WorkerOps => r \in held
  BY DEF Inv, HttpJobsInv, PastLockHeld
<1>3. /\ \A s \in Request \ {r} : pc'[s] = pc[s] /\ status'[s] = status[s]
      /\ pc'[r] = "done" /\ status'[r] = code
  BY DEF Respond, Inv, HttpJobsInv, TypeOK
<1>4. TypeOK'
  BY <1>1 DEF Effect, Respond, Inv, HttpJobsInv, TypeOK, WorkerOps, store, data
<1>5. \A s \in Request, k \in Job :
        progress'[k] = s \/ s \in logs'[k] =>
          \/ progress[k] = s \/ s \in logs[k]
          \/ s = r /\ k = j /\ req[r].op \in WorkerOps
  BY <1>1 DEF Effect, Inv, HttpJobsInv, TypeOK, WorkerOps, data
<1>6. \A s \in Request : {a \in added' : a.request = s} =
        IF s = r /\ req[r].op = "addJobs"
        THEN {a \in added : a.request = s} \cup {[request |-> r, place |-> i] : i \in DOMAIN req[r].body}
        ELSE {a \in added : a.request = s}
  BY DEF Effect, data
<1>7. ~Wrote(r)
  BY DEF Inv, HttpJobsInv, WritesAreAsked
<1>8. \A s \in Request \ {r} : Wrote(s)' => Wrote(s)
  BY <1>5, <1>6 DEF Wrote
<1>9. PastLockHeld' /\ LockSeen' /\ BodyChecked' /\ Unanswered'
  BY <1>3 DEF Inv, HttpJobsInv, PastLockHeld, LockSeen, BodyChecked, Unanswered, store
<1>10. WritesAreAsked'
  BY <1>3, <1>5, <1>8 DEF Inv, HttpJobsInv, WritesAreAsked
<1>11. WritersHeldLock'
  BY <1>2, <1>5 DEF Inv, WritersHeldLock
<1>12. RefusedWroteNothing'
  BY <1>3, <1>8 DEF Inv, RefusedWroteNothing
<1>13. BulkIsWhole'
  <2> SUFFICES ASSUME NEW s \in Request PROVE BulkIsWhole!(s)'
    BY DEF BulkIsWhole
  <2>1. CASE s = r /\ req[r].op = "addJobs"
    <3>1. {a \in added' : a.request = r} = {[request |-> r, place |-> i] : i \in DOMAIN req[r].body}
      BY <1>6, <1>7, <2>1 DEF Wrote
    <3>2. {a.place : a \in {b \in added' : b.request = r}} = DOMAIN req[r].body
      <4>1. \A a \in added' : a.request = r => a.place \in DOMAIN req[r].body
        BY <3>1
      <4>2. \A i \in DOMAIN req[r].body :
              \E a \in added' : a.request = r /\ a.place = i
        <5> TAKE i \in DOMAIN req[r].body
        <5> DEFINE b == [request |-> r, place |-> i]
        <5>1. b \in added' /\ b.request = r /\ b.place = i
          BY <3>1
        <5> QED BY <5>1
      <4>3. \A i : i \in {a.place : a \in {b \in added' : b.request = r}} <=> i \in DOMAIN req[r].body
        BY <4>1, <4>2
      <4> QED BY <4>3
    <3>3. \A i \in DOMAIN req[r].body : req[r].body[i] = "valid"
      BY <2>1 DEF Inv, BodyChecked, Accepts
    <3> QED BY <2>1, <3>2, <3>3
  <2>2. CASE s = r /\ req[r].op # "addJobs"
    BY <1>6, <1>7, <2>2 DEF Wrote
  <2>3. CASE s # r
    <3>1. {a \in added' : a.request = s} = {a \in added : a.request = s}
      BY <1>6, <2>3
    <3> QED BY <1>3, <2>3, <3>1 DEF Inv, BulkIsWhole
  <2> QED BY <2>1, <2>2, <2>3
<1> QED BY <1>4, <1>9, <1>10, <1>11, <1>12, <1>13 DEF Inv, HttpJobsInv

LEMMA CallsInv ==
  ASSUME Inv, NEW r \in Request, Call(r) \/ CallFails(r)
  PROVE  Inv'
<1>1. CASE Call(r)
  BY <1>1, EffectInv DEF Call
<1>2. CASE CallFails(r) /\ UNCHANGED data
  BY <1>2, AnsweredInv DEF CallFails
<1>3. CASE CallFails(r) /\ Effect(r)
  BY <1>3, EffectInv DEF CallFails
<1> QED BY <1>1, <1>2, <1>3 DEF CallFails

-----------------------------------------------------------------------------
\* Locks are taken and released, jobs are removed.
LEMMA StoreInv ==
  ASSUME Inv, UNCHANGED <<req, pc, status, data>>, held \subseteq held', TypeOK', LockSeen'
  PROVE  Inv'
<1>1. \A r \in Request : Wrote(r)' = Wrote(r)
  BY DEF Wrote, data
<1>2. PastLockHeld' /\ WritesAreAsked'
  BY <1>1 DEF Inv, HttpJobsInv, PastLockHeld, WritesAreAsked, data
<1>3. BodyChecked' /\ Unanswered' /\ WritersHeldLock'
  BY DEF Inv, BodyChecked, Unanswered, WritersHeldLock, data
<1>4. RefusedWroteNothing' /\ BulkIsWhole'
  BY <1>1 DEF Inv, RefusedWroteNothing, BulkIsWhole, data
<1> QED BY <1>2, <1>3, <1>4 DEF Inv, HttpJobsInv

LEMMA TakeInv ==
  ASSUME Inv, NEW j \in Job, NEW t \in Token, Take(j, t)
  PROVE  Inv'
<1>1. TypeOK'
  BY DEF Take, Inv, HttpJobsInv, TypeOK, data
<1>2. LockSeen'
  BY DEF Take, Inv, HttpJobsInv, TypeOK, LockSeen
<1> QED BY <1>1, <1>2, StoreInv DEF Take

LEMMA ReleaseInv ==
  ASSUME Inv, NEW j \in Job, Release(j) \/ RemoveJob(j)
  PROVE  Inv'
<1>1. TypeOK'
  BY DEF Release, RemoveJob, Inv, HttpJobsInv, TypeOK, data
<1>2. \A r \in Request : pc[r] = "lock" => req[r].job \in Job
  BY AskFields DEF Inv, HttpJobsInv, TypeOK, LockSeen
<1>3. LockSeen'
  <2>1. CASE RemoveJob(j)
    BY <2>1 DEF RemoveJob, Inv, LockSeen
  <2>2. CASE Release(j)
    BY <1>2, <2>2, TokenAssumption DEF Release, Inv, HttpJobsInv, TypeOK, LockSeen
  <2> QED BY <2>1, <2>2
<1> QED BY <1>1, <1>3, StoreInv DEF Release, RemoveJob

-----------------------------------------------------------------------------
LEMMA StutterInv == Inv /\ UNCHANGED vars => Inv'
BY DEF Inv, HttpJobsInv, TypeOK, PastLockHeld, WritesAreAsked, Wrote, LockSeen, BodyChecked,
       Unanswered, WritersHeldLock, RefusedWroteNothing, BulkIsWhole, vars, store, data

LEMMA NextInv == Inv /\ [Next]_vars => Inv'
BY ReceiveInv, HandlerQuiet, CallsInv, TakeInv, ReleaseInv, StutterInv DEF Next, Handler

\* The inductive invariant.
LEMMA Invariance == Spec => []Inv
BY InitInv, NextInv, PTL DEF Spec

\* Types; a handler of a worker runs only for a token that has held the lock;
\* no request has written before its call (auth-for-workers.ts, the handlers).
THEOREM RequestsInOrder == Spec => []HttpJobsInv
<1>1. Inv => HttpJobsInv BY DEF Inv
<1> QED BY <1>1, Invariance, PTL

\* Progress and logs come from requests whose token held the lock of that job.
THEOREM WritersHeld == Spec => []WritersHeldLock
<1>1. Inv => WritersHeldLock BY DEF Inv
<1> QED BY <1>1, Invariance, PTL

\* A request that is refused has written nothing; addJobs adds every job of a
\* valid body or none.
THEOREM NothingInPart == Spec => []AllOrNothing
<1>1. Inv => AllOrNothing BY DEF Inv, AllOrNothing
<1> QED BY <1>1, Invariance, PTL

-----------------------------------------------------------------------------
\* The commands.

LEMMA CommandOutcome ==
  ASSUME NEW c, NEW f
  PROVE  "resolved" \in DOMAIN ResultOf(AnswerTo(c, f))
           <=> Runs(c, f) /\ f \in Unseen \cup {Fine}
<1>1. CASE ~Runs(c, f)
  BY <1>1 DEF AnswerTo, ResultOf, ErrObject, ErrText, EmptyText, Silence
<1>2. CASE Runs(c, f) /\ f = Fine
  BY <1>2 DEF AnswerTo, ResultOf, Runs, OkAnswer, Empty, Silence
<1>3. CASE Runs(c, f) /\ f # Fine
  <2>1. AnswerTo(c, f) = ErrAnswer(f)
    BY <1>3 DEF AnswerTo, Runs
  <2>2. CASE f = "emptyError"
    BY <1>3, <2>1, <2>2 DEF ErrAnswer, ResultOf, EmptyText, Silence, Unseen
  <2>3. CASE f = "noMessage"
    BY <1>3, <2>1, <2>3 DEF ErrAnswer, ResultOf, Empty, Silence, Unseen
  <2>4. CASE f = "null"
    BY <1>3, <2>1, <2>4 DEF ErrAnswer, ResultOf, Silence, Unseen
  <2>5. CASE f \notin {"emptyError", "noMessage", "null"}
    BY <1>3, <2>1, <2>5 DEF ErrAnswer, ResultOf, ErrText, EmptyText, Silence, Unseen
  <2> QED BY <2>2, <2>3, <2>4, <2>5
<1> QED
  BY <1>1, <1>2, <1>3

\* What the client sends for a method has its name and as many arguments, each
\* of a kind the method is typed with, or null.
LEMMA SentArguments ==
  ASSUME NEW c \in Sent, c.fn # "getJobCounts"
  PROVE  /\ c.fn \in DOMAIN ClientMethod /\ DOMAIN c.args = DOMAIN ClientMethod[c.fn]
         /\ c.args \in Seq(Kind) /\ Len(c.args) = Len(ClientMethod[c.fn])
         /\ \A i \in DOMAIN c.args :
              \/ c.args[i] \in ClientMethod[c.fn][i] \ {"undefined"}
              \/ c.args[i] = "null" /\ "undefined" \in ClientMethod[c.fn][i]
<1>1. PICK m \in DOMAIN ClientMethod :
        c \in {[fn |-> m, args |-> Json(a)] :
                 a \in {a \in [DOMAIN ClientMethod[m] -> Kind \cup {"undefined"}] :
                          \A i \in DOMAIN a : a[i] \in ClientMethod[m][i]}}
  BY DEF Sent, Counts
<1>2. PICK a \in [DOMAIN ClientMethod[m] -> Kind \cup {"undefined"}] :
        /\ c = [fn |-> m, args |-> Json(a)]
        /\ \A i \in DOMAIN a : a[i] \in ClientMethod[m][i]
  BY <1>1
<1>3. c.fn = m /\ c.args = Json(a)
  BY <1>2
<1>4. DOMAIN c.args = DOMAIN ClientMethod[m]
  BY <1>2, <1>3 DEF Json
<1>5. ASSUME NEW i \in DOMAIN c.args
      PROVE  \/ c.args[i] \in ClientMethod[m][i] \ {"undefined"}
             \/ c.args[i] = "null" /\ "undefined" \in ClientMethod[m][i]
  <2>1. c.args[i] = IF a[i] = "undefined" THEN "null" ELSE a[i]
    BY <1>2, <1>3, <1>4, <1>5 DEF Json
  <2>2. a[i] \in ClientMethod[m][i]
    BY <1>2, <1>4, <1>5
  <2> QED
    BY <2>1, <2>2
<1>6. \A f \in DOMAIN ClientMethod :
        Len(ClientMethod[f]) \in Nat /\ DOMAIN ClientMethod[f] = 1 .. Len(ClientMethod[f])
  BY DEF ClientMethod
<1>7. c.args \in Seq(Kind) /\ Len(c.args) = Len(ClientMethod[m])
  <2> DEFINE n == Len(ClientMethod[m])
  <2>1. n \in Nat /\ DOMAIN ClientMethod[m] = 1 .. n
    BY <1>6
  <2> HIDE DEF n
  <2>2. c.args = [i \in 1 .. n |-> IF a[i] = "undefined" THEN "null" ELSE a[i]]
    BY <1>2, <1>3, <2>1 DEF Json
  <2>3. \A i \in 1 .. n : (IF a[i] = "undefined" THEN "null" ELSE a[i]) \in Kind
    BY <1>2, <2>1, CommandAssumption
  <2>4. c.args \in Seq(Kind) /\ Len(c.args) = n
    BY <2>1, <2>2, <2>3
  <2> QED
    BY <2>4 DEF n
<1> QED
  BY <1>3, <1>4, <1>5, <1>7

\* The schema takes the calls that are served.
LEMMA ServedFits ==
  ASSUME NEW c \in Served
  PROVE  InSchema(c) /\ c.fn \in QueueMethod
<1>1. c \in Sent
  BY DEF Served
<1>2. CASE c.fn = "getJobCounts"
  BY <1>2, CommandAssumption DEF Served, InSchema, Schema
<1>3. ASSUME c.fn # "getJobCounts"
      PROVE  /\ c.fn \in {"add", "pause", "resume", "getJobs"} /\ c.args \in Seq(Kind)
             /\ DOMAIN c.args = DOMAIN ClientMethod[c.fn]
             /\ Len(c.args) = Len(ClientMethod[c.fn])
             /\ \A i \in DOMAIN c.args :
                  \/ c.args[i] \in ClientMethod[c.fn][i] \ {"undefined"}
                  \/ c.args[i] = "null" /\ "undefined" \in ClientMethod[c.fn][i]
  BY <1>1, <1>3, SentArguments DEF Served
<1>4. CASE c.fn = "add"
  <2>1. /\ Len(c.args) = 3 /\ DOMAIN c.args = 1 .. 3
        /\ c.args[1] = "string" /\ c.args[2] \in Kind /\ c.args[3] \in Kind
    BY <1>3, <1>4, CommandAssumption DEF ClientMethod, Maybe
  <2> QED
    BY <1>4, <2>1, CommandAssumption DEF InSchema, Schema
<1>5. CASE c.fn \in {"pause", "resume"}
  <2>1. Len(c.args) = 0 /\ DOMAIN c.args = {}
    BY <1>3, <1>5 DEF ClientMethod
  <2> QED
    BY <1>5, <2>1, CommandAssumption DEF InSchema, Schema
<1>6. CASE c.fn = "getJobs"
  <2>1. /\ Len(c.args) = 4 /\ DOMAIN c.args = 1 .. 4
        /\ c.args[1] = "status" /\ c.args[2] = "number"
        /\ c.args[3] = "number" /\ c.args[4] = "boolean"
    BY <1>3, <1>6 DEF ClientMethod
  <2> QED
    BY <1>6, <2>1, CommandAssumption DEF InSchema, Schema
<1> QED
  BY <1>2, <1>3, <1>4, <1>5, <1>6

-----------------------------------------------------------------------------
\* The routes.

LEMMA RouteTable ==
  /\ DOMAIN routes = 1 .. 12
  /\ routes[1] = HttpRoute("addJobs", "POST", <<"queues", ":queueName", "jobs">>, "tokens")
  /\ routes[2] = HttpRoute("getJobs", "GET", <<"queues", ":queueName", "jobs">>, "tokens")
  /\ routes[3] = HttpRoute("getJob", "GET", <<"queues", ":queueName", "jobs", ":jobId">>, "tokens")
  /\ routes[4] = HttpRoute("addWorker", "POST", <<"workers">>, "tokens")
  /\ routes[5] = HttpRoute("getWorkers", "GET", <<"workers">>, "tokens")
  /\ routes[6] = HttpRoute("removeWorker", "DELETE", <<"workers", ":queueName">>, "tokens")
  /\ routes[7] = HttpRoute("updateProgress", "POST",
                           <<"queues", ":queueName", "jobs", ":jobId", "progress">>, "lock")
  /\ routes[8] = HttpRoute("addLog", "POST",
                           <<"queues", ":queueName", "jobs", ":jobId", "logs">>, "lock")
  /\ routes[9] = HttpRoute("getLogs", "GET",
                           <<"queues", ":queueName", "jobs", ":jobId", "logs">>, "tokens")
  /\ routes[10] = WebSocketRoute("queue", <<"ws", "queues", ":queueName">>)
  /\ routes[11] = WebSocketRoute("worker",
                                 <<"ws", "queues", ":queueName", "process", ":concurrency">>)
  /\ routes[12] = WebSocketRoute("queue-events", <<"ws", "queues", ":queueName", "events">>)
  BY SMTT(60) DEF routes, queuesRoutes, workersRoutes, jobsRoutes, webSocketRoutes

Pattern(i) == routes[i].pattern
Patterns   == {Pattern(i) : i \in DOMAIN routes}

LEMMA PatternTable ==
  Patterns = { <<"queues", ":queueName", "jobs">>,
               <<"queues", ":queueName", "jobs", ":jobId">>,
               <<"workers">>,
               <<"workers", ":queueName">>,
               <<"queues", ":queueName", "jobs", ":jobId", "progress">>,
               <<"queues", ":queueName", "jobs", ":jobId", "logs">>,
               <<"ws", "queues", ":queueName">>,
               <<"ws", "queues", ":queueName", "process", ":concurrency">>,
               <<"ws", "queues", ":queueName", "events">> }
  BY RouteTable, SMTT(60) DEF Patterns, Pattern, HttpRoute, WebSocketRoute

\* A pattern has each of its parameters once, and otherwise literals.
LEMMA PatternFacts ==
  ASSUME NEW p \in Patterns
  PROVE  /\ DOMAIN p = 1 .. Len(p) /\ Len(p) \in 1 .. 5
         /\ \A i \in DOMAIN p : p[i] \in Param \/ p[i] \in Literal
         /\ \A i, j \in DOMAIN p : p[i] \in Param /\ p[i] = p[j] => i = j
<1>1. CASE p = <<"queues", ":queueName", "jobs">>
  BY <1>1 DEF Param, Literal
<1>2. CASE p = <<"queues", ":queueName", "jobs", ":jobId">>
  BY <1>2 DEF Param, Literal
<1>3. CASE p = <<"workers">>
  BY <1>3 DEF Param, Literal
<1>4. CASE p = <<"workers", ":queueName">>
  BY <1>4 DEF Param, Literal
<1>5. CASE p = <<"queues", ":queueName", "jobs", ":jobId", "progress">>
  BY <1>5 DEF Param, Literal
<1>6. CASE p = <<"queues", ":queueName", "jobs", ":jobId", "logs">>
  BY <1>6 DEF Param, Literal
<1>7. CASE p = <<"ws", "queues", ":queueName">>
  BY <1>7 DEF Param, Literal
<1>8. CASE p = <<"ws", "queues", ":queueName", "process", ":concurrency">>
  BY <1>8 DEF Param, Literal
<1>9. CASE p = <<"ws", "queues", ":queueName", "events">>
  BY <1>9 DEF Param, Literal
<1> QED
  BY PatternTable, <1>1, <1>2, <1>3, <1>4, <1>5, <1>6, <1>7, <1>8, <1>9

\* The places that tell the routes apart.
LEMMA RoutePlaces ==
  /\ Len(Pattern(1)) = 3 /\ Pattern(1)[1] = "queues" /\ Pattern(1)[3] = "jobs"
  /\ Len(Pattern(2)) = 3 /\ Pattern(2)[1] = "queues" /\ Pattern(2)[3] = "jobs"
  /\ Len(Pattern(3)) = 4 /\ Pattern(3)[1] = "queues" /\ Pattern(3)[3] = "jobs"
  /\ Len(Pattern(4)) = 1
  /\ Len(Pattern(5)) = 1
  /\ Len(Pattern(6)) = 2
  /\ Len(Pattern(7)) = 5 /\ Pattern(7)[1] = "queues" /\ Pattern(7)[3] = "jobs"
  /\ Pattern(7)[5] = "progress"
  /\ Len(Pattern(8)) = 5 /\ Pattern(8)[1] = "queues" /\ Pattern(8)[3] = "jobs"
  /\ Pattern(8)[5] = "logs"
  /\ Len(Pattern(9)) = 5 /\ Pattern(9)[1] = "queues" /\ Pattern(9)[3] = "jobs"
  /\ Pattern(9)[5] = "logs"
  /\ Len(Pattern(10)) = 3 /\ Pattern(10)[1] = "ws" /\ Pattern(10)[2] = "queues"
  /\ Pattern(10)[3] = ":queueName"
  /\ Len(Pattern(11)) = 5 /\ Pattern(11)[1] = "ws" /\ Pattern(11)[2] = "queues"
  /\ Pattern(11)[3] = ":queueName" /\ Pattern(11)[4] = "process"
  /\ Pattern(11)[5] = ":concurrency"
  /\ Len(Pattern(12)) = 4 /\ Pattern(12)[1] = "ws" /\ Pattern(12)[2] = "queues"
  /\ Pattern(12)[3] = ":queueName" /\ Pattern(12)[4] = "events"
  BY RouteTable DEF Pattern, HttpRoute, WebSocketRoute

LEMMA PatternDomain == \A i \in 1 .. 12 : DOMAIN Pattern(i) = 1 .. Len(Pattern(i)) /\ Len(Pattern(i)) \in 1 .. 5
  BY PatternFacts, RouteTable DEF Patterns

LEMMA RouteMethods ==
  /\ \A i \in {1, 4, 7, 8} : routes[i].method = "POST"
  /\ \A i \in {2, 3, 5, 9} : routes[i].method = "GET"
  /\ routes[6].method = "DELETE"
  BY RouteTable DEF HttpRoute

LEMMA Separate ==
  "queues" \notin Param /\ "ws" \notin Param /\ "jobs" \notin Param /\ "progress" \notin Param /\ "logs" \notin Param
  BY DEF Param

\* What a request that fits a route looks like.
LEMMA Recognised ==
  ASSUME NEW path, NEW method, NEW i \in Candidates(path, method)
  PROVE  \/ i = 1 /\ Len(path) = 3 /\ path[1] = "queues" /\ path[3] = "jobs" /\ method = "POST"
         \/ i = 2 /\ Len(path) = 3 /\ path[1] = "queues" /\ path[3] = "jobs" /\ method = "GET"
         \/ i = 3 /\ Len(path) = 4 /\ path[1] = "queues" /\ path[3] = "jobs"
         \/ i = 4 /\ Len(path) = 1 /\ method = "POST"
         \/ i = 5 /\ Len(path) = 1 /\ method = "GET"
         \/ i = 6 /\ Len(path) = 2
         \/ i = 7 /\ Len(path) = 5 /\ path[1] = "queues" /\ path[5] = "progress"
         \/ i = 8 /\ Len(path) = 5 /\ path[1] = "queues" /\ path[5] = "logs" /\ method = "POST"
         \/ i = 9 /\ Len(path) = 5 /\ path[1] = "queues" /\ path[5] = "logs" /\ method = "GET"
         \/ i = 10 /\ Len(path) = 3 /\ path[1] = "ws"
         \/ i = 11 /\ Len(path) = 5 /\ path[1] = "ws"
         \/ i = 12 /\ Len(path) = 4 /\ path[1] = "ws"
<1>0. i \in 1 .. 12 /\ Fits(Pattern(i), path) /\ routes[i].method \in {"any", method}
  BY RouteTable DEF Candidates, Pattern
<1>a. Len(Pattern(i)) = Len(path) /\ DOMAIN Pattern(i) = 1 .. Len(Pattern(i))
  BY <1>0, PatternDomain DEF Fits
<1>b. \A j \in DOMAIN Pattern(i) : Pattern(i)[j] \notin Param => path[j] = Pattern(i)[j]
  BY <1>0 DEF Fits
<1>c. Len(Pattern(i)) \in 1 .. 5
  BY <1>0, PatternDomain
<1>d. /\ Pattern(i)[1] \notin Param => path[1] = Pattern(i)[1]
      /\ Len(Pattern(i)) \in {3, 4, 5} /\ Pattern(i)[3] \notin Param => path[3] = Pattern(i)[3]
      /\ Len(Pattern(i)) = 5 /\ Pattern(i)[5] \notin Param => path[5] = Pattern(i)[5]
  BY <1>a, <1>b, <1>c
<1>1. CASE i = 1
  <2>1. Len(path) = 3 /\ path[1] = "queues" /\ path[3] = "jobs"
    BY <1>a, <1>d, <1>1, RoutePlaces, Separate
  <2> QED
    BY <1>0, <1>1, <2>1, RouteMethods
<1>2. CASE i = 2
  <2>1. Len(path) = 3 /\ path[1] = "queues" /\ path[3] = "jobs"
    BY <1>a, <1>d, <1>2, RoutePlaces, Separate
  <2> QED
    BY <1>0, <1>2, <2>1, RouteMethods
<1>3. CASE i = 3
  <2>1. Len(path) = 4 /\ path[1] = "queues" /\ path[3] = "jobs"
    BY <1>a, <1>d, <1>3, RoutePlaces, Separate
  <2> QED
    BY <1>0, <1>3, <2>1, RouteMethods
<1>4. CASE i = 4
  <2>1. Len(path) = 1
    BY <1>a, <1>d, <1>4, RoutePlaces, Separate
  <2> QED
    BY <1>0, <1>4, <2>1, RouteMethods
<1>5. CASE i = 5
  <2>1. Len(path) = 1
    BY <1>a, <1>d, <1>5, RoutePlaces, Separate
  <2> QED
    BY <1>0, <1>5, <2>1, RouteMethods
<1>6. CASE i = 6
  <2>1. Len(path) = 2
    BY <1>a, <1>d, <1>6, RoutePlaces, Separate
  <2> QED
    BY <1>0, <1>6, <2>1, RouteMethods
<1>7. CASE i = 7
  <2>1. Len(path) = 5 /\ path[1] = "queues" /\ path[5] = "progress"
    BY <1>a, <1>d, <1>7, RoutePlaces, Separate
  <2> QED
    BY <1>0, <1>7, <2>1, RouteMethods
<1>8. CASE i = 8
  <2>1. Len(path) = 5 /\ path[1] = "queues" /\ path[5] = "logs"
    BY <1>a, <1>d, <1>8, RoutePlaces, Separate
  <2> QED
    BY <1>0, <1>8, <2>1, RouteMethods
<1>9. CASE i = 9
  <2>1. Len(path) = 5 /\ path[1] = "queues" /\ path[5] = "logs"
    BY <1>a, <1>d, <1>9, RoutePlaces, Separate
  <2> QED
    BY <1>0, <1>9, <2>1, RouteMethods
<1>10. CASE i = 10
  <2>1. Len(path) = 3 /\ path[1] = "ws"
    BY <1>a, <1>d, <1>10, RoutePlaces, Separate
  <2> QED
    BY <1>0, <1>10, <2>1, RouteMethods
<1>11. CASE i = 11
  <2>1. Len(path) = 5 /\ path[1] = "ws"
    BY <1>a, <1>d, <1>11, RoutePlaces, Separate
  <2> QED
    BY <1>0, <1>11, <2>1, RouteMethods
<1>12. CASE i = 12
  <2>1. Len(path) = 4 /\ path[1] = "ws"
    BY <1>a, <1>d, <1>12, RoutePlaces, Separate
  <2> QED
    BY <1>0, <1>12, <2>1, RouteMethods
<1> QED
  BY <1>0, <1>1, <1>2, <1>3, <1>4, <1>5, <1>6, <1>7, <1>8, <1>9, <1>10, <1>11, <1>12

LEMMA OneCandidate ==
  ASSUME NEW path, NEW method,
         NEW i \in Candidates(path, method), NEW j \in Candidates(path, method)
  PROVE  i = j
  BY Recognised, SMTT(60)

LEMMA TheCandidate ==
  ASSUME NEW path, NEW method, NEW i \in Candidates(path, method)
  PROVE  Candidates(path, method) = {i} /\ Min(Candidates(path, method)) = i /\ i \in 1 .. 12
<1>1. i \in 1 .. 12
  BY RouteTable DEF Candidates
<1>2. Candidates(path, method) = {i}
  BY OneCandidate
<1> QED
  BY <1>1, <1>2 DEF Min

\* Only the WebSocket routes are registered without an authorisation.
LEMMA HttpRoutesAuthorise ==
  \A i \in DOMAIN routes : routes[i].kind = "http" => routes[i].auth # "none"
  BY RouteTable, SMTT(60) DEF HttpRoute, WebSocketRoute

\* What the parameters of a fitting path are.
LEMMA ParamsByPlace ==
  ASSUME NEW path, NEW i \in 1 .. 12, NEW j \in DOMAIN Pattern(i), Pattern(i)[j] \in Param
  PROVE  /\ Pattern(i)[j] \in DOMAIN Params(Pattern(i), path)
         /\ Params(Pattern(i), path)[Pattern(i)[j]] = Decoded[path[j]]
<1> DEFINE p == Pattern(i)
<1>1. \A k \in DOMAIN p : p[k] = p[j] => k = j
  BY PatternFacts, RouteTable DEF Patterns
<1>2. (CHOOSE k \in DOMAIN p : p[k] = p[j]) = j
  BY <1>1
<1> HIDE DEF p
<1> QED
  BY <1>2 DEF Params, p

LEMMA ParamsAreDecoded ==
  ASSUME NEW path, NEW i \in 1 .. 12, NEW q \in DOMAIN Params(Pattern(i), path)
  PROVE  \E j \in DOMAIN Pattern(i) : Params(Pattern(i), path)[q] = Decoded[path[j]]
<1>1. PICK j \in DOMAIN Pattern(i) : Pattern(i)[j] = q /\ q \in Param
  BY DEF Params
<1> QED
  BY <1>1, ParamsByPlace

\* fetchHandler of a request that fits a route.
LEMMA FetchFound ==
  ASSUME NEW r, NEW i \in Candidates(r.path, r.method)
  PROVE  LET params == Params(Pattern(i), r.path) IN
    fetchHandler(r) =
      IF Malformed \in {params[p] : p \in DOMAIN params} THEN Code(500)
      ELSE IF routes[i].auth # "none" /\ ~r.authorised THEN Code(401)
      ELSE IF routes[i].kind = "http"
           THEN [status |-> 200, route |-> routes[i], params |-> params]
      ELSE IF r.upgradable THEN UpgradeData(routes[i], params)
      ELSE Code(500)
<1>1. Candidates(r.path, r.method) # {} /\ Min(Candidates(r.path, r.method)) = i
  BY TheCandidate
<1>2. r.path # <<>>
  BY Recognised
<1> DEFINE F(m) ==
      LET params == Params(routes[m].pattern, r.path) IN
        IF Malformed \in {params[p] : p \in DOMAIN params} THEN Code(500)
        ELSE IF routes[m].auth # "none" /\ ~r.authorised THEN Code(401)
        ELSE IF routes[m].kind = "http"
             THEN [status |-> 200, route |-> routes[m], params |-> params]
        ELSE IF r.upgradable THEN UpgradeData(routes[m], params)
        ELSE Code(500)
<1>3. fetchHandler(r) =
        IF r.path = <<>> /\ r.method = "GET" THEN Code(200)
        ELSE IF Candidates(r.path, r.method) = {} THEN Code(404)
        ELSE F(Min(Candidates(r.path, r.method)))
  BY Zenon DEF fetchHandler
<1> HIDE DEF F
<1>4. fetchHandler(r) = F(i)
  BY <1>1, <1>2, <1>3
<1> QED
  BY <1>4, Zenon DEF F, Pattern

\* A handler is reached through the route that the request fits.
LEMMA FetchRouted ==
  ASSUME NEW r, "route" \in DOMAIN fetchHandler(r)
  PROVE  \E i \in Candidates(r.path, r.method) :
           /\ fetchHandler(r).route = routes[i]
           /\ fetchHandler(r).params = Params(Pattern(i), r.path)
           /\ routes[i].auth = "none" \/ r.authorised
<1>1. \A n : "route" \notin DOMAIN Code(n)
  BY DEF Code
<1>2. Candidates(r.path, r.method) # {}
  BY <1>1 DEF fetchHandler
<1>3. PICK i \in Candidates(r.path, r.method) : TRUE
  BY <1>2
<1> DEFINE params == Params(Pattern(i), r.path)
<1>4. CASE fetchHandler(r) = [status |-> 200, route |-> routes[i], params |-> params]
           /\ (routes[i].auth = "none" \/ r.authorised)
  BY <1>4
<1>5. CASE fetchHandler(r) = UpgradeData(routes[i], params)
           /\ (routes[i].auth = "none" \/ r.authorised)
  BY <1>5 DEF UpgradeData
<1> QED
  BY <1>1, <1>4, <1>5, FetchFound

-----------------------------------------------------------------------------
\* The validators.

LEMMA GivenIsPositive ==
  ASSUME NEW v, PositiveIfGiven(v)
  PROVE  Falsy(v) \/ v.kind \in {"positive", "large"}
  BY DEF PositiveIfGiven, Falsy, Integral, Numbers, Negative

\* What is empty has no fields.
LEMMA EmptyHasNone ==
  ASSUME NEW v, Indexed(v), Falsy(v), NEW f
  PROVE  f \notin DOMAIN v.fields /\ ~Defined(Get(v, f)) /\ Falsy(Get(v, f))
  BY DEF Indexed, Get, Undefined, Plain, Defined, Falsy

\* The options with a number that may be left out.
LEMMA NumberSuits ==
  ASSUME NEW f \in {"delay", "attempts", "concurrency", "maxStalledCount", "count", "age",
                    "timeout", "limit"},
         NEW v, PositiveIfGiven(v)
  PROVE  Suits(f, v)
  BY GivenIsPositive DEF Suits, Documented, Lenient

LEMMA DeduplicationSuits ==
  ASSUME NEW v, Indexed(v), validateDeduplicationOpts(v)
  PROVE  v.kind = "object" /\ FieldsSuit(v, {"id", "ttl"})
<1>1. IsString(Get(v, "id"))
  BY DEF validateDeduplicationOpts
<1>2. v.kind = "object"
  BY <1>1 DEF Indexed, Get, Undefined, Plain, IsString, Texts
<1>3. Suits("id", Get(v, "id"))
  BY <1>1 DEF Suits, Documented, IsString
<1>4. ASSUME Defined(Get(v, "ttl")) PROVE Suits("ttl", Get(v, "ttl"))
  <2>1. IsNumber(Get(v, "ttl")) /\ Get(v, "ttl").kind \notin Negative
    BY <1>4 DEF validateDeduplicationOpts
  <2> QED
    BY <2>1 DEF Suits, Documented, IsNumber, Numbers, Negative
<1> QED
  BY <1>2, <1>3, <1>4 DEF FieldsSuit

LEMMA JobOptionSuits ==
  ASSUME NEW o, validateJobOpts(o), NEW f \in JobOption \ Untested, Indexed(Get(o, f)),
         Defined(Get(o, f))
  PROVE  Suits(f, Get(o, f))
<1>1. CASE f \in {"delay", "attempts"}
  BY <1>1, NumberSuits DEF validateJobOpts
<1>2. CASE f = "priority"
  BY <1>2 DEF validateJobOpts, Suits, Documented
<1>3. CASE f = "lifo"
  BY <1>3 DEF validateJobOpts, Suits, Documented, Defined
<1>4. CASE f = "jobId"
  BY <1>4 DEF validateJobOpts, Suits, Documented, Lenient, IsString
<1>5. CASE f = "backoff"
  BY <1>5 DEF validateJobOpts, validateBackoffOpts, Suits, Documented, Lenient
<1>6. CASE f = "deduplication"
  <2>1. Falsy(Get(o, f)) \/ validateDeduplicationOpts(Get(o, f))
    BY <1>6 DEF validateJobOpts
  <2>2. Falsy(Get(o, f)) \/ Get(o, f).kind = "object"
    BY <2>1, DeduplicationSuits
  <2> QED
    BY <1>6, <2>2 DEF Suits, Documented, Lenient
<1> QED
  BY <1>1, <1>2, <1>3, <1>4, <1>5, <1>6 DEF JobOption, Untested

\* A backoff that is an object was looked at.
LEMMA BackoffIsWhole ==
  ASSUME NEW o, validateJobOpts(o), Get(o, "backoff").kind = "object"
  PROVE  BackoffSuits(Get(o, "backoff"))
<1> DEFINE b == Get(o, "backoff")
<1>1. validateBackoffOpts(b)
  BY DEF validateJobOpts, Falsy
<1> HIDE DEF b
<1>2. BackoffSuits(b)
  BY <1>1 DEF validateBackoffOpts, BackoffSuits, IsNumber
<1> QED
  BY <1>2 DEF b

\* A rate limiter that is there is whole.
LEMMA LimiterIsWhole ==
  ASSUME NEW o, validateWorkerOptions(o), Indexed(Get(o, "limiter"))
  PROVE  /\ Falsy(Get(o, "limiter")) \/ Get(o, "limiter").kind = "object"
         /\ Get(o, "limiter").kind = "object" =>
              \A f \in {"max", "duration"} : Get(Get(o, "limiter"), f).kind \in Documented(f)
<1> DEFINE v == Get(o, "limiter")
<1>1. Falsy(v) \/ validateLimiter(v)
  BY DEF validateWorkerOptions
<1>2. Indexed(v) /\ (v.kind = "object" => ~Falsy(v))
  BY DEF Falsy
<1> HIDE DEF v
<1>3. ASSUME validateLimiter(v)
      PROVE  v.kind = "object" /\ \A f \in {"max", "duration"} : Get(v, f).kind \in Documented(f)
  <2>1. \A f \in {"max", "duration"} : ~Falsy(Get(v, f)) /\ PositiveIfGiven(Get(v, f))
    BY <1>3 DEF validateLimiter
  <2>2. \A f \in {"max", "duration"} : Get(v, f).kind \in {"positive", "large"}
    BY <2>1, GivenIsPositive
  <2>3. \A f \in {"max", "duration"} : Documented(f) = {"positive", "large"}
    BY DEF Documented
  <2>4. "max" \in DOMAIN v.fields
    BY <2>1 DEF Get, Undefined, Plain, Falsy
  <2> QED
    BY <1>2, <2>2, <2>3, <2>4 DEF Indexed
<1> QED
  BY <1>1, <1>2, <1>3 DEF v

\* A worker that throws has an empty option.
LEMMA ThrowsOnEmpty ==
  ASSUME NEW o, validateWorkerOptions(o), WorkerThrows(o)
  PROVE  \E f \in {"concurrency", "maxStalledCount"} :
           Defined(Get(o, f)) /\ Falsy(Get(o, f))
<1>1. /\ Falsy(Get(o, "concurrency")) \/ Get(o, "concurrency").kind \in {"positive", "large"}
      /\ Falsy(Get(o, "maxStalledCount")) \/ Get(o, "maxStalledCount").kind \in {"positive", "large"}
  BY GivenIsPositive DEF validateWorkerOptions
<1> QED
  BY <1>1 DEF WorkerThrows, Numbers, Negative

\* The options of what a validator accepts.
LEMMA AcceptedOptions ==
  ASSUME NEW by \in {"job", "metadata"}, NEW v, AcceptedBy(by, v)
  PROVE  \/ Falsy(Get(v, "opts"))
         \/ by = "job" /\ validateJobOpts(Get(v, "opts"))
         \/ by = "metadata" /\ validateWorkerOptions(Get(v, "opts"))
<1>1. CASE by = "job"
  <2>1. validateJob(v)
    BY <1>1 DEF AcceptedBy
  <2> QED
    BY <1>1, <2>1 DEF validateJob
<1>2. CASE by = "metadata"
  <2>1. validateWorkerMetadata(v)
    BY <1>2 DEF AcceptedBy
  <2> QED
    BY <1>2, <2>1 DEF validateWorkerMetadata
<1> QED
  BY <1>1, <1>2

-----------------------------------------------------------------------------
\* The pages.

Least(a, b) == IF a < b THEN a ELSE b

Consecutive(s) == \A i \in 1 .. Len(s) - 1 : s[i + 1] = s[i] + 1

\* The range first .. last of a list of n entries.
LEMMA LrangeFacts ==
  ASSUME NEW n \in Nat, NEW first \in Nat, NEW last \in Nat
  PROVE  /\ Least(n, last + 1) <= first => Lrange(n, first, last) = <<>>
         /\ Least(n, last + 1) > first =>
              /\ Lrange(n, first, last) \in Seq(Int)
              /\ Len(Lrange(n, first, last)) = Least(n, last + 1) - first
              /\ \A i \in 1 .. Least(n, last + 1) - first : Lrange(n, first, last)[i] = first + i
<1> DEFINE k == Least(n, last + 1) - first
           page == [i \in 1 .. k |-> first + i]
<1>1. Least(n, last + 1) \in Nat /\ k \in Int
  BY DEF Least
<1>2. Lrange(n, first, last) = page
  BY DEF Lrange, Least
<1>3. CASE k <= 0
  <2>1. 1 .. k = 1 .. 0
    BY <1>1, <1>3
  <2>2. page = [i \in 1 .. 0 |-> first + i]
    BY <2>1
  <2>3. page = <<>>
    BY <2>2
  <2> QED
    BY <1>1, <1>2, <1>3, <2>3
<1>4. CASE k > 0
  <2>1. k \in Nat
    BY <1>1, <1>4
  <2>2. page \in Seq(Int) /\ Len(page) = k /\ \A i \in 1 .. k : page[i] = first + i
    <3> HIDE DEF k
    <3> QED
      BY <2>1
  <2> QED
    BY <1>1, <1>2, <1>4, <2>2
<1> QED
  BY <1>1, <1>3, <1>4

LEMMA ConcatConsecutive ==
  ASSUME NEW s \in Seq(Int), NEW t \in Seq(Int), Consecutive(s), Consecutive(t),
         s # <<>>, t # <<>>, t[1] = s[Len(s)] + 1
  PROVE  /\ s \o t \in Seq(Int) /\ s \o t # <<>> /\ Consecutive(s \o t)
         /\ (s \o t)[Len(s \o t)] = t[Len(t)]
<1> DEFINE b == s \o t
<1>1. Len(s) \in Nat \ {0} /\ Len(t) \in Nat \ {0}
  OBVIOUS
<1>2. b \in Seq(Int) /\ Len(b) = Len(s) + Len(t)
  OBVIOUS
<1>3. \A i \in 1 .. Len(s) : b[i] = s[i]
  OBVIOUS
<1>4. \A i \in 1 .. Len(t) : b[Len(s) + i] = t[i]
  OBVIOUS
<1> HIDE DEF b
<1>5. ASSUME NEW i \in 1 .. Len(b) - 1 PROVE b[i + 1] = b[i] + 1
  <2>1. CASE i < Len(s)
    <3>1. i \in 1 .. Len(s) - 1 /\ i \in 1 .. Len(s) /\ i + 1 \in 1 .. Len(s)
      BY <1>1, <2>1
    <3>2. s[i + 1] = s[i] + 1
      BY <3>1 DEF Consecutive
    <3> QED
      BY <1>3, <3>1, <3>2
  <2>2. CASE i = Len(s)
    <3>1. b[Len(s) + 1] = t[1]
      BY <1>1, <1>4
    <3>2. b[i] = s[Len(s)]
      BY <1>1, <1>3, <2>2
    <3> QED
      BY <2>2, <3>1, <3>2
  <2>3. CASE i > Len(s)
    <3> DEFINE j == i - Len(s)
    <3>0. i \in Int /\ 1 <= i /\ i <= Len(s) + Len(t) - 1
      BY <1>1, <1>2
    <3>1. j \in 1 .. Len(t) - 1 /\ j + 1 \in 1 .. Len(t)
      BY <1>1, <2>3, <3>0
    <3>2. t[j + 1] = t[j] + 1
      BY <3>1 DEF Consecutive
    <3>3. b[Len(s) + j] = t[j] /\ b[Len(s) + (j + 1)] = t[j + 1]
      BY <1>4, <3>1
    <3>4. Len(s) + j = i /\ Len(s) + (j + 1) = i + 1
      BY <1>1
    <3> QED
      BY <3>2, <3>3, <3>4
  <2> QED
    BY <1>1, <1>2, <2>1, <2>2, <2>3
<1>6. b[Len(b)] = t[Len(t)] /\ b # <<>>
  BY <1>1, <1>2, <1>4
<1> QED
  BY <1>2, <1>5, <1>6 DEF Consecutive, b

\* What a walk has seen of a list of n entries, when its last page was
\* start .. start + length - 1: consecutive entries, up to the end of the page
\* or of the list, and nothing only if the list ended before.
Walked(seen, n, start, length) ==
  /\ seen \in Seq(Int) /\ Consecutive(seen)
  /\ length > 0 =>
       /\ seen = <<>> => n <= start
       /\ seen # <<>> => seen[Len(seen)] = Least(n, start + length)

LEMMA PageWalked ==
  ASSUME NEW n \in Nat, NEW start \in Nat, NEW length \in Nat,
         NEW page, page = Lrange(n, start, Last(start, length))
  PROVE  /\ Walked(page, n, start, length)
         /\ length > 0 => (page = <<>> <=> n <= start)
         /\ page # <<>> /\ (start # 0 \/ length # 0) =>
              page[1] = start + 1 /\ Len(page) <= length
<1>1. CASE start = 0 /\ length = 0
  <2>1. page = [i \in 1 .. n |-> i]
    BY <1>1 DEF Last, Lrange
  <2>2. page \in Seq(Int) /\ Len(page) = n /\ \A i \in 1 .. n : page[i] = i
    BY <2>1
  <2> QED
    BY <2>2, <1>1 DEF Walked, Consecutive
<1>2. CASE start + length - 1 \in Nat
  <2> DEFINE end == Least(n, start + length)
  <2>0. /\ Last(start, length) \in Nat /\ Last(start, length) + 1 = start + length
        /\ end \in Nat /\ end <= n /\ end <= start + length /\ (end = n \/ end = start + length)
    BY <1>2 DEF Last, Least
  <2>1. /\ end <= start => page = <<>>
        /\ end > start => /\ page \in Seq(Int) /\ Len(page) = end - start
                          /\ \A i \in 1 .. end - start : page[i] = start + i
    BY <2>0, LrangeFacts
  <2>2. CASE end <= start
    <3>1. page = <<>> /\ (length > 0 => n <= start)
      BY <2>0, <2>1, <2>2
    <3> QED
      BY <3>1 DEF Walked, Consecutive
  <2>3. CASE end > start
    <3> HIDE DEF end
    <3>1. page \in Seq(Int) /\ Len(page) = end - start /\ Len(page) > 0 /\ page # <<>>
      BY <2>0, <2>1, <2>3
    <3>2. \A i \in 1 .. Len(page) : page[i] = start + i
      BY <2>1, <2>3, <3>1
    <3>3. Consecutive(page)
      BY <3>1, <3>2 DEF Consecutive
    <3>4. page[Len(page)] = end /\ page[1] = start + 1
      BY <2>0, <3>1, <3>2
    <3>5. ~(n <= start) /\ Len(page) <= length
      BY <2>0, <2>3, <3>1
    <3> QED
      BY <3>1, <3>3, <3>4, <3>5 DEF Walked, end
  <2> QED
    BY <2>0, <2>2, <2>3
<1> QED
  BY <1>1, <1>2

LEMMA NextWalked ==
  ASSUME NEW n \in Nat, NEW start \in Nat, NEW length \in Nat \ {0},
         NEW seen, Walked(seen, n, start, length),
         NEW page, page = Lrange(n, start + length, Last(start + length, length))
  PROVE  Walked(seen \o page, n, start + length, length)
<1> DEFINE next == start + length
<1>1. next \in Nat /\ length \in Nat /\ length > 0
  OBVIOUS
<1>2. page = Lrange(n, next, Last(next, length))
  OBVIOUS
<1> HIDE DEF next
<1>7. /\ Walked(page, n, next, length) /\ (length > 0 => (page = <<>> <=> n <= next))
      /\ page # <<>> /\ (next # 0 \/ length # 0) => page[1] = next + 1 /\ Len(page) <= length
  BY <1>1, <1>2, PageWalked
<1>3. seen \in Seq(Int) /\ Consecutive(seen)
  BY DEF Walked
<1>4. CASE n <= next
  <2>1. seen \o page = seen
    BY <1>1, <1>7, <1>3, <1>4
  <2>2. Least(n, start + length) = n /\ Least(n, next + length) = n
    BY <1>1, <1>4 DEF Least, next
  <2> QED
    BY <2>1, <2>2, <1>1, <1>4 DEF Walked, next
<1>5. CASE n > next
  <2>1. page # <<>> /\ page \in Seq(Int) /\ Consecutive(page)
    BY <1>1, <1>7, <1>5 DEF Walked
  <2>2. seen # <<>> /\ seen[Len(seen)] = next
    BY <1>1, <1>5 DEF Walked, Least, next
  <2>3. page[Len(page)] = Least(n, next + length)
    BY <1>1, <1>7, <2>1 DEF Walked
  <2> QED
    BY <1>1, <1>7, <1>3, <2>1, <2>2, <2>3, ConcatConsecutive DEF Walked, next
<1> QED
  BY <1>1, <1>4, <1>5

-----------------------------------------------------------------------------
\* The invariant: what the input of a behaviour is, and what a step has made of
\* it.

InputInv ==
  \/ \E r \in HttpRequest : input = [about |-> "route", request |-> r]
  \/ \E by \in Validator, v \in JsonValue : input = [about |-> "body", by |-> by, value |-> v]
  \/ \E c \in Sent \cup Other, f \in Fault :
       input = [about |-> "command", command |-> c, fault |-> f]
  \/ \E size \in List, s \in Int \cup {NaN}, n \in Length :
       input = [about |-> "page", size |-> size, start |-> s, length |-> n]

WalkInv ==
  /\ output = [page |-> Page(input.size, input.start, input.length), seen |-> output.seen]
  /\ validatePagination(input.start, input.length) =>
       /\ DOMAIN output.seen = DOMAIN input.size
       /\ \A s \in DOMAIN input.size :
            Walked(output.seen[s], input.size[s], input.start, input.length)

OutputInv == answered =>
  CASE input.about = "route"   -> output = fetchHandler(input.request)
    [] input.about = "body"    -> output = AcceptedBy(input.by, input.value)
    [] input.about = "command" -> output = [ran |-> Runs(input.command, input.fault),
                                            call |-> ResultOf(AnswerTo(input.command, input.fault))]
    [] input.about = "page"    -> WalkInv

RequestInv == InputInv /\ answered \in BOOLEAN /\ OutputInv

\* What is known of a page.
LEMMA PageInput ==
  ASSUME InputInv, input.about = "page"
  PROVE  /\ \A s \in DOMAIN input.size : input.size[s] \in Nat
         /\ input.start \in Int \cup {NaN} /\ input.length \in Int \cup {NaN}
  BY RequestAssumption DEF InputInv

LEMMA ValidPage ==
  ASSUME InputInv, input.about = "page", validatePagination(input.start, input.length)
  PROVE  /\ input.start \in Nat /\ input.length \in Nat /\ input.length <= Limit
         /\ Page(input.size, input.start, input.length) =
              [s \in DOMAIN input.size |->
                 Lrange(input.size[s], input.start, Last(input.start, input.length))]
  BY PageInput, PaginationAssumption DEF validatePagination, Page

\* A page that is not refused is valid.
LEMMA NotRefused ==
  ASSUME Page(input.size, input.start, input.length) # Refused(input.size)
  PROVE  validatePagination(input.start, input.length)
  BY DEF Page

LEMMA FirstPageKeeps ==
  ASSUME RequestInv, FirstPage
  PROVE  RequestInv'
<1>1. input.about = "page" /\ ~answered /\ answered' = TRUE /\ input' = input
  BY DEF FirstPage, Answers
<1> DEFINE page == Page(input.size, input.start, input.length)
<1>2. output' = [page |-> page, seen |-> page]
  BY DEF FirstPage
<1>3. InputInv
  BY DEF RequestInv
<1>4. ASSUME validatePagination(input.start, input.length)
      PROVE  /\ DOMAIN page = DOMAIN input.size
             /\ \A s \in DOMAIN input.size :
                  Walked(page[s], input.size[s], input.start, input.length)
  <2>1. /\ input.start \in Nat /\ input.length \in Nat
        /\ page = [s \in DOMAIN input.size |->
                   Lrange(input.size[s], input.start, Last(input.start, input.length))]
    BY <1>1, <1>3, <1>4, ValidPage
  <2> HIDE DEF page
  <2>2. DOMAIN page = DOMAIN input.size
    BY <2>1
  <2>3. ASSUME NEW s \in DOMAIN input.size
        PROVE  Walked(page[s], input.size[s], input.start, input.length)
    <3>1. page[s] = Lrange(input.size[s], input.start, Last(input.start, input.length))
      BY <2>1
    <3>2. input.size[s] \in Nat
      BY <1>1, <1>3, PageInput
    <3> QED
      BY <2>1, <3>1, <3>2, PageWalked
  <2> QED
    BY <2>2, <2>3
<1> HIDE DEF page
<1>5. output'.page = page /\ output'.seen = page /\ output' = [page |-> page, seen |-> output'.seen]
  BY <1>2
<1>6. WalkInv'
  BY <1>1, <1>4, <1>5 DEF WalkInv, page
<1>7. InputInv'
  BY <1>1, <1>3 DEF InputInv
<1> QED
  BY <1>1, <1>6, <1>7 DEF RequestInv, OutputInv

LEMMA NextPageKeeps ==
  ASSUME RequestInv, NextPage
  PROVE  RequestInv'
<1>1. input.about = "page" /\ answered /\ answered' = answered /\ input.length > 0
  BY DEF NextPage
<1>2. InputInv /\ WalkInv
  BY <1>1 DEF RequestInv, OutputInv
<1>3. validatePagination(input.start, input.length)
  BY <1>2, NotRefused DEF NextPage, WalkInv
<1>4. PICK size \in List, s \in Int \cup {NaN}, n \in Length :
        input = [about |-> "page", size |-> size, start |-> s, length |-> n]
  BY <1>1, <1>2 DEF InputInv
<1>5. input.start \in Nat /\ input.length \in Nat \ {0} /\ input.length <= Limit
  BY <1>1, <1>2, <1>3, ValidPage
<1>6. input' = [about |-> "page", size |-> size, start |-> s + n, length |-> n]
  BY <1>4 DEF NextPage
<1>7. s \in Nat /\ n \in Nat \ {0} /\ n <= Limit /\ s + n \in Nat
  BY <1>4, <1>5
<1>8. InputInv'
  BY <1>4, <1>6, <1>7 DEF InputInv
<1>9. validatePagination(s + n, n)
  BY <1>7, PaginationAssumption DEF validatePagination
<1> DEFINE page == Page(size, s + n, n)
<1>10. page = [l \in DOMAIN size |-> Lrange(size[l], s + n, Last(s + n, n))]
  BY <1>9 DEF Page
<1>11. output' = [page |-> page, seen |-> [l \in DOMAIN page |-> output.seen[l] \o page[l]]]
  BY <1>4, <1>6 DEF NextPage
<1>12. \A l \in DOMAIN size : size[l] \in Nat
  BY RequestAssumption
<1> HIDE DEF page
<1>13. DOMAIN page = DOMAIN size /\ \A l \in DOMAIN size : page[l] = Lrange(size[l], s + n, Last(s + n, n))
  BY <1>10
<1>14. \A l \in DOMAIN size : Walked(output.seen[l], size[l], s, n)
  BY <1>2, <1>3, <1>4 DEF WalkInv
<1>15. \A l \in DOMAIN size : Walked(output.seen[l] \o page[l], size[l], s + n, n)
  BY <1>7, <1>12, <1>13, <1>14, NextWalked
<1>16. WalkInv'
  <2>1. output'.seen = [l \in DOMAIN size |-> output.seen[l] \o page[l]] /\ output'.page = page
        /\ output' = [page |-> page, seen |-> output'.seen]
    BY <1>11, <1>13
  <2>2. input'.size = size /\ input'.start = s + n /\ input'.length = n
    BY <1>6
  <2> QED
    BY <1>15, <2>1, <2>2 DEF WalkInv, page
<1> QED
  BY <1>1, <1>6, <1>8, <1>16 DEF RequestInv, OutputInv

\* In every state: the input is one that a client can send, and the output is
\* what fetchHandler, the validators, QueueController.message or the range of a
\* list make of it; a walk has seen consecutive entries up to where it is.
THEOREM RequestInvariant == RequestSpec => []RequestInv
<1>1. RequestInit => RequestInv
  BY RequestAssumption DEF RequestInit, RequestInv, InputInv, OutputInv
<1>2. RequestInv /\ [RequestNext]_requestVars => RequestInv'
  <2> SUFFICES ASSUME RequestInv, [RequestNext]_requestVars PROVE RequestInv'
    OBVIOUS
  <2>1. CASE Route
    BY <2>1 DEF Route, Answers, RequestInv, InputInv, OutputInv
  <2>2. CASE Validate
    BY <2>2 DEF Validate, Answers, RequestInv, InputInv, OutputInv
  <2>3. CASE Command
    BY <2>3 DEF Command, Answers, RequestInv, InputInv, OutputInv
  <2>4. CASE FirstPage
    BY <2>4, FirstPageKeeps
  <2>5. CASE NextPage
    BY <2>5, NextPageKeeps
  <2>6. CASE UNCHANGED requestVars
    BY <2>6 DEF requestVars, RequestInv, InputInv, OutputInv, WalkInv
  <2> QED
    BY <2>1, <2>2, <2>3, <2>4, <2>5, <2>6 DEF RequestNext
<1> QED
  BY <1>1, <1>2, PTL DEF RequestSpec

\* The promise of the Bun client is rejected exactly when the method of the
\* Queue did not run or threw with a text, or threw null; after an error without
\* one it resolves.  The calls that commands.ts has a tuple for resolve with what
\* the method returned.  For any methods of the Queue and kinds of argument, on
\* each path of QueueController.message (queue.ts:31-63, queue-client.ts:27-38).
THEOREM OutcomesAreTold == RequestSpec => []OutcomeIsTold
<1>1. ASSUME RequestInv, answered, input.about = "command"
      PROVE  output = [ran |-> Runs(input.command, input.fault),
                       call |-> ResultOf(AnswerTo(input.command, input.fault))]
  BY <1>1 DEF RequestInv, OutputInv
<1>2. RequestInv => SuccessIsSuccess
  BY <1>1, CommandOutcome DEF SuccessIsSuccess
<1>3. ASSUME RequestInv, answered, input.about = "command",
             input.command \in Served, input.fault = Fine
      PROVE  output.call = [resolved |-> Returned(input.command)]
  <2>1. Runs(input.command, input.fault)
    BY <1>3, ServedFits DEF Runs, Fine, NoQueue
  <2>2. AnswerTo(input.command, input.fault) = OkAnswer(input.command)
    BY <1>3, <2>1 DEF AnswerTo, Runs
  <2>3. ResultOf(OkAnswer(input.command)) = [resolved |-> Returned(input.command)]
    <3>1. CASE Returned(input.command) = "undefined"
      BY <3>1 DEF ResultOf, OkAnswer, Empty, Silence
    <3>2. CASE Returned(input.command) # "undefined"
      BY <3>2 DEF ResultOf, OkAnswer, Silence
    <3> QED
      BY <3>1, <3>2
  <2> QED
    BY <1>1, <1>3, <2>2, <2>3
<1>4. RequestInv => OutcomeIsTold
  BY <1>2, <1>3 DEF OutcomeIsTold, ServedResolves
<1> QED
  BY <1>4, RequestInvariant, PTL

\* Who pages through getJobs or getLogs sees every entry once, in bounded pages,
\* for any number of lists of any size, any limit and any page length
\* (queue-http-controller.ts:54-88, queue.validators.ts:182-194).
THEOREM PagesCover == RequestSpec => []PagesCoverLists
<1>1. ASSUME RequestInv PROVE PagesCoverLists
  <2> SUFFICES ASSUME Paged, NEW s \in DOMAIN input.size
        PROVE /\ \A i \in 1 .. Len(output.seen[s]) - 1 : output.seen[s][i + 1] = output.seen[s][i] + 1
              /\ input.length > 0 /\ output.page[s] = <<>> /\ output.seen[s] # <<>> =>
                   output.seen[s][Len(output.seen[s])] = input.size[s]
              /\ <<input.start, input.length>> # <<0, 0>> => Len(output.page[s]) <= Limit
    BY DEF PagesCoverLists, PagesMeet, WalkSeesAll, PageWithinLimit
  <2>1. InputInv /\ WalkInv /\ input.about = "page"
    BY <1>1 DEF Paged, RequestInv, OutputInv
  <2>2. validatePagination(input.start, input.length)
    BY <2>1, NotRefused DEF Paged, WalkInv
  <2>3. input.start \in Nat /\ input.length \in Nat /\ input.length <= Limit /\ input.size[s] \in Nat
    BY <2>1, <2>2, ValidPage, PageInput
  <2>4. output.page[s] = Lrange(input.size[s], input.start, Last(input.start, input.length))
    <3>1. output.page = Page(input.size, input.start, input.length)
      BY <2>1 DEF WalkInv
    <3> QED
      BY <2>1, <2>2, <3>1, ValidPage
  <2>5. Walked(output.seen[s], input.size[s], input.start, input.length)
    BY <2>1, <2>2 DEF WalkInv
  <2>6. /\ Walked(output.page[s], input.size[s], input.start, input.length)
        /\ input.length > 0 => (output.page[s] = <<>> <=> input.size[s] <= input.start)
        /\ output.page[s] # <<>> /\ (input.start # 0 \/ input.length # 0) =>
             output.page[s][1] = input.start + 1 /\ Len(output.page[s]) <= input.length
    BY <2>3, <2>4, PageWalked
  <2>7. output.page[s] = <<>> => Len(output.page[s]) = 0
    OBVIOUS
  <2>8. output.page[s] # <<>> /\ <<input.start, input.length>> # <<0, 0>> => Len(output.page[s]) <= Limit
    <3>1. output.page[s] \in Seq(Int)
      BY <2>6 DEF Walked
    <3> QED
      BY <2>3, <2>6, <3>1, PaginationAssumption
  <2>9. input.size[s] <= input.start => Least(input.size[s], input.start + input.length) = input.size[s]
    BY <2>3 DEF Least
  <2> QED
    BY <2>3, <2>5, <2>6, <2>7, <2>8, <2>9, PaginationAssumption DEF Walked, Consecutive
<1> QED
  BY <1>1, RequestInvariant, PTL

\* Whatever the JSON of a body of addJobs or addWorker, or of repeat options,
\* what passes its validator has the documented kinds, to exact exceptions: what
\* is empty and behind `opts.x &&`, and removeOnComplete and removeOnFail of a
\* job, which no test looks at.  Metadata that BullMQ refuses after all has an
\* empty concurrency or maxStalledCount (queue.validators.ts,
\* workers.validators.ts).
THEOREM ValidatorsAreSound == RequestSpec => []AcceptedIsValid
<1>1. ASSUME RequestInv, NEW by \in {"job", "metadata", "repeat"}, Accepted(by)
      PROVE  AcceptedBy(by, input.value) /\ input.value \in JsonValue
  <2>1. answered /\ input.about = "body" /\ input.by = by /\ output
    BY <1>1 DEF Accepted
  <2>2. output = AcceptedBy(by, input.value)
    BY <1>1, <2>1 DEF RequestInv, OutputInv
  <2>3. input.value \in JsonValue
    BY <1>1, <2>1 DEF RequestInv, InputInv
  <2> QED
    BY <2>1, <2>2, <2>3
\* The options and what is in them are values of JSON.
<1>2. ASSUME RequestInv, NEW by \in {"job", "metadata"}, Accepted(by)
      PROVE  Indexed(Opts) /\ \A f : Indexed(Get(Opts, f))
  <2>1. input.value \in JsonValue
    BY <1>1, <1>2
  <2>2. Indexed(Undefined) /\ DOMAIN Undefined.fields = {}
    BY DEF Undefined, Plain, Indexed
  <2>3. CASE "opts" \in DOMAIN input.value.fields
    <3>1. Opts = input.value.fields["opts"]
      BY <2>3 DEF Opts, Get
    <3>2. Indexed(Opts) /\ \A f \in DOMAIN Opts.fields : Indexed(Opts.fields[f])
      BY <2>1, <2>3, <3>1, RequestAssumption
    <3> QED
      BY <2>2, <3>2 DEF Get
  <2>4. CASE "opts" \notin DOMAIN input.value.fields
    <3>1. Opts = Undefined
      BY <2>4 DEF Opts, Get
    <3> QED
      BY <2>2, <3>1 DEF Get
  <2> QED
    BY <2>3, <2>4
<1>3. ASSUME RequestInv, Accepted("job")
      PROVE  /\ DOMAIN Opts.fields \subseteq JobOption
             /\ FieldsSuit(Opts, JobOption \ Untested)
             /\ FieldsSuit(Get(Opts, "deduplication"), {"id", "ttl"})
             /\ Get(Opts, "backoff").kind = "object" => BackoffSuits(Get(Opts, "backoff"))
  <2>1. Indexed(Opts) /\ \A f : Indexed(Get(Opts, f))
    BY <1>2, <1>3
  <2>2. AcceptedBy("job", input.value)
    BY <1>1, <1>3
  <2>3. CASE Falsy(Opts)
    <3>1. \A f : f \notin DOMAIN Opts.fields /\ Falsy(Get(Opts, f)) /\ ~Defined(Get(Opts, f))
      BY <2>1, <2>3, EmptyHasNone
    <3>2. ~Defined(Get(Get(Opts, "deduplication"), "id"))
          /\ ~Defined(Get(Get(Opts, "deduplication"), "ttl"))
      BY <2>1, <3>1, EmptyHasNone
    <3>3. Get(Opts, "backoff").kind # "object"
      BY <3>1 DEF Defined, Falsy
    <3> QED
      BY <3>1, <3>2, <3>3 DEF FieldsSuit
  <2>4. CASE ~Falsy(Opts)
    <3>1. validateJobOpts(Opts)
      BY <2>2, <2>4, AcceptedOptions DEF Opts
    <3>2. FieldsSuit(Opts, JobOption \ Untested)
      BY <2>1, <3>1, JobOptionSuits DEF FieldsSuit
    <3>3. FieldsSuit(Get(Opts, "deduplication"), {"id", "ttl"})
      <4>1. Falsy(Get(Opts, "deduplication")) \/ validateDeduplicationOpts(Get(Opts, "deduplication"))
        BY <3>1 DEF validateJobOpts
      <4>2. CASE Falsy(Get(Opts, "deduplication"))
        BY <2>1, <4>2, EmptyHasNone DEF FieldsSuit
      <4> QED
        BY <2>1, <4>1, <4>2, DeduplicationSuits
    <3>4. DOMAIN Opts.fields \subseteq JobOption
      BY <3>1 DEF validateJobOpts, Only
    <3> QED
      BY <3>1, <3>2, <3>3, <3>4, BackoffIsWhole
  <2> QED
    BY <2>3, <2>4
<1>4. ASSUME RequestInv, Accepted("metadata")
      PROVE  Falsy(Opts) \/ validateWorkerOptions(Opts)
  BY <1>1, <1>4, AcceptedOptions DEF Opts
<1>5. ASSUME RequestInv, Accepted("metadata")
      PROVE  /\ FieldsSuit(Opts, {"concurrency", "maxStalledCount", "limiter"})
             /\ \A f \in Untested : FieldsSuit(Get(Opts, f), {"count", "age"})
             /\ Get(Opts, "limiter").kind = "object" =>
                  \A f \in {"max", "duration"} :
                    Get(Get(Opts, "limiter"), f).kind \in Documented(f)
             /\ FieldsSuit(Get(input.value, "endpoint"), {"timeout"})
  <2>1. Indexed(Opts) /\ \A f : Indexed(Get(Opts, f))
    BY <1>2, <1>5
  <2>2. FieldsSuit(Get(input.value, "endpoint"), {"timeout"})
    <3>1. validateWorkerMetadata(input.value)
      BY <1>1, <1>5 DEF AcceptedBy
    <3>2. PositiveIfGiven(Get(Get(input.value, "endpoint"), "timeout"))
      BY <3>1 DEF validateWorkerMetadata, validateWorkerEndpoint
    <3> QED
      BY <3>2, NumberSuits DEF FieldsSuit
  <2>3. CASE Falsy(Opts)
    <3>1. \A f : Falsy(Get(Opts, f)) /\ ~Defined(Get(Opts, f))
      BY <2>1, <2>3, EmptyHasNone
    <3>2. \A f, g : ~Defined(Get(Get(Opts, f), g))
      BY <2>1, <3>1, EmptyHasNone
    <3>3. Get(Opts, "limiter").kind # "object"
      BY <3>1 DEF Defined
    <3> QED
      BY <2>2, <3>1, <3>2, <3>3 DEF FieldsSuit
  <2>4. CASE validateWorkerOptions(Opts)
    <3>1. FieldsSuit(Opts, {"concurrency", "maxStalledCount", "limiter"})
      <4>1. /\ Suits("concurrency", Get(Opts, "concurrency"))
            /\ Suits("maxStalledCount", Get(Opts, "maxStalledCount"))
        BY <2>4, NumberSuits DEF validateWorkerOptions
      <4>2. Suits("limiter", Get(Opts, "limiter"))
        BY <2>1, <2>4, LimiterIsWhole DEF Suits, Documented, Lenient
      <4> QED
        BY <4>1, <4>2 DEF FieldsSuit
    <3>2. ASSUME NEW f \in Untested PROVE FieldsSuit(Get(Opts, f), {"count", "age"})
      <4>1. Falsy(Get(Opts, f)) \/ validateRemoveOnFinish(Get(Opts, f))
        BY <2>4 DEF validateWorkerOptions, Untested
      <4>2. CASE Falsy(Get(Opts, f))
        BY <2>1, <4>2, EmptyHasNone DEF FieldsSuit
      <4>3. CASE validateRemoveOnFinish(Get(Opts, f))
        BY <4>3, NumberSuits DEF FieldsSuit, validateRemoveOnFinish
      <4> QED
        BY <4>1, <4>2, <4>3
    <3> QED
      BY <2>1, <2>2, <2>4, <3>1, <3>2, LimiterIsWhole
  <2> QED
    BY <1>4, <1>5, <2>3, <2>4
<1>6. ASSUME RequestInv, Accepted("repeat")
      PROVE  /\ Get(input.value, "every").kind \in Documented("every")
             /\ FieldsSuit(input.value, {"limit", "immediately", "key"})
  <2> DEFINE v == input.value
  <2>1. validateRepeatOpts(v)
    BY <1>1, <1>6 DEF AcceptedBy
  <2> HIDE DEF v
  <2>2. Get(v, "every").kind \in Documented("every")
    BY <2>1, GivenIsPositive DEF validateRepeatOpts, Documented
  <2>3. Suits("limit", Get(v, "limit"))
    BY <2>1, NumberSuits DEF validateRepeatOpts
  <2>4. Defined(Get(v, "immediately")) => Suits("immediately", Get(v, "immediately"))
    BY <2>1 DEF validateRepeatOpts, Defined, Suits, Documented
  <2>5. Suits("key", Get(v, "key"))
    BY <2>1 DEF validateRepeatOpts, Suits, Documented, Lenient, IsString
  <2> QED
    BY <2>2, <2>3, <2>4, <2>5 DEF FieldsSuit, v
<1>7. ASSUME RequestInv, Accepted("metadata"), WorkerThrows(Opts)
      PROVE  \E f \in {"concurrency", "maxStalledCount"} :
               Defined(Get(Opts, f)) /\ Falsy(Get(Opts, f))
  <2>1. CASE Falsy(Opts)
    <3>1. \A f : ~Defined(Get(Opts, f))
      BY <1>2, <1>7, <2>1, EmptyHasNone
    <3> QED
      BY <1>7, <3>1 DEF WorkerThrows
  <2> QED
    BY <1>4, <1>7, <2>1, ThrowsOnEmpty
<1>8. RequestInv => AcceptedIsValid
  BY <1>3, <1>5, <1>6, <1>7
     DEF AcceptedIsValid, JobOptionsSuit, MetadataSuits, RepeatSuits, PoisonIsEmpty
<1> QED
  BY <1>8, RequestInvariant, PTL

-----------------------------------------------------------------------------
\* The names in a decoded path, put back into the pattern.
LEMMA PathRebuilt ==
  ASSUME NEW path \in Seq(DOMAIN Decoded), NEW i \in 1 .. 12, Fits(Pattern(i), path)
  PROVE  [j \in DOMAIN Pattern(i) |->
            IF Pattern(i)[j] \in Param
            THEN Params(Pattern(i), path)[Pattern(i)[j]] ELSE Pattern(i)[j]]
         = [j \in DOMAIN path |-> Decoded[path[j]]]
<1> DEFINE p == Pattern(i)
<1>1. DOMAIN p = DOMAIN path
  <2>1. DOMAIN p = 1 .. Len(p) /\ Len(p) = Len(path)
    BY PatternDomain DEF Fits
  <2> QED
    BY <2>1
<1>2. ASSUME NEW j \in DOMAIN p
      PROVE  (IF p[j] \in Param THEN Params(p, path)[p[j]] ELSE p[j]) = Decoded[path[j]]
  <2>1. CASE p[j] \in Param
    BY <2>1, ParamsByPlace
  <2>2. CASE p[j] \notin Param
    <3>1. path[j] = p[j]
      BY <2>2 DEF Fits
    <3>2. p[j] \in Literal
      BY <2>2, PatternFacts, RouteTable DEF Patterns
    <3>3. path[j] \in DOMAIN Decoded
      BY <1>1
    <3> QED
      BY <2>2, <3>1, <3>2, <3>3, DecodingAssumption
  <2> QED
    BY <2>1, <2>2
<1> HIDE DEF p
<1> QED
  BY <1>1, <1>2 DEF p

LEMMA OpenedCases ==
  ASSUME NEW path
  PROVE  Opened(path) # "nothing" =>
         \/ Len(path) = 3 /\ Opened(path) = "queue"
         \/ Len(path) = 4 /\ Opened(path) = "queue-events" /\ path[4] = "events"
         \/ Len(path) = 5 /\ Opened(path) = "worker" /\ path[4] = "process" /\ path[5] # EmptySegment
<1>1. 3 # 4 /\ 3 # 5 /\ 4 # 5
  OBVIOUS
<1> QED
  BY <1>1, Zenon DEF Opened

\* A path that a client opens fits the route it means.
LEMMA OpenedFits ==
  ASSUME NEW path \in Seq(DOMAIN Decoded), NEW method,
         Len(path) \in 3 .. 5, path[1] = "ws", path[2] = "queues", path[3] # EmptySegment,
         Opened(path) \in {"queue", "queue-events", "worker"}
  PROVE  \E i \in Candidates(path, method) :
           /\ i \in {10, 11, 12} /\ routes[i].name = Opened(path)
           /\ Opened(path) = "worker" => i = 11 /\ Len(path) = 5
<1>1. ":queueName" \in Param /\ ":concurrency" \in Param
      /\ "ws" \notin Param /\ "queues" \notin Param /\ "events" \notin Param /\ "process" \notin Param
  BY DEF Param
<1>2. /\ routes[10].name = "queue" /\ routes[10].method = "any"
      /\ routes[11].name = "worker" /\ routes[11].method = "any"
      /\ routes[12].name = "queue-events" /\ routes[12].method = "any"
      /\ 10 \in DOMAIN routes /\ 11 \in DOMAIN routes /\ 12 \in DOMAIN routes
  BY RouteTable DEF WebSocketRoute
<1>3. /\ DOMAIN Pattern(10) = 1 .. Len(Pattern(10))
      /\ DOMAIN Pattern(11) = 1 .. Len(Pattern(11))
      /\ DOMAIN Pattern(12) = 1 .. Len(Pattern(12))
  <2>1. 10 \in 1 .. 12 /\ 11 \in 1 .. 12 /\ 12 \in 1 .. 12
    OBVIOUS
  <2> QED
    BY <2>1, PatternDomain
<1>7. \/ Len(path) = 3 /\ Opened(path) = "queue"
      \/ Len(path) = 4 /\ Opened(path) = "queue-events" /\ path[4] = "events"
      \/ Len(path) = 5 /\ Opened(path) = "worker" /\ path[4] = "process" /\ path[5] # EmptySegment
  BY OpenedCases
<1>4. CASE Len(path) = 3
  <2>1. Opened(path) = "queue"
    BY <1>4, <1>7
  <2>8. DOMAIN Pattern(10) = {1, 2, 3} /\ Len(Pattern(10)) = 3
    BY <1>3, RoutePlaces
  <2>9. Fits(Pattern(10), path)
    BY <1>1, <1>4, <2>8, RoutePlaces DEF Fits
  <2> QED
    BY <1>2, <2>1, <2>9 DEF Candidates, Pattern
<1>5. CASE Len(path) = 4
  <2>2. path[4] = "events" /\ Opened(path) = "queue-events"
    BY <1>5, <1>7
  <2>8. DOMAIN Pattern(12) = {1, 2, 3, 4} /\ Len(Pattern(12)) = 4
    BY <1>3, RoutePlaces
  <2>9. Fits(Pattern(12), path)
    BY <1>1, <1>5, <2>2, <2>8, RoutePlaces DEF Fits
  <2> QED
    BY <1>2, <2>2, <2>9 DEF Candidates, Pattern
<1>6. CASE Len(path) = 5
  <2>2. path[4] = "process" /\ path[5] # EmptySegment /\ Opened(path) = "worker"
    BY <1>6, <1>7
  <2>8. DOMAIN Pattern(11) = {1, 2, 3, 4, 5} /\ Len(Pattern(11)) = 5
    BY <1>3, RoutePlaces
  <2>9. Fits(Pattern(11), path)
    BY <1>1, <1>6, <2>2, <2>8, RoutePlaces DEF Fits
  <2> QED
    BY <1>2, <1>6, <2>2, <2>9 DEF Candidates, Pattern
<1> QED
  BY <1>4, <1>5, <1>6

\* What such a client gets.
LEMMA OpenedAnswer ==
  ASSUME NEW r, NEW i \in Candidates(r.path, r.method), i \in {10, 11, 12},
         r.path \in Seq(DOMAIN Decoded), r.upgradable,
         \A j \in DOMAIN r.path : Decoded[r.path[j]] # Malformed
  PROVE  /\ fetchHandler(r) = UpgradeData(routes[i], Params(Pattern(i), r.path))
         /\ Params(Pattern(i), r.path)[":queueName"] = Decoded[r.path[3]]
         /\ i = 11 => Concurrency(Params(Pattern(i), r.path)) =
                        IF Number[Decoded[r.path[5]]] = 0 THEN 1 ELSE Number[Decoded[r.path[5]]]
<1> DEFINE params == Params(Pattern(i), r.path)
<1>1. i \in 1 .. 12 /\ DOMAIN Pattern(i) = DOMAIN r.path
  <2>1. i \in 1 .. 12
    OBVIOUS
  <2>2. DOMAIN Pattern(i) = 1 .. Len(Pattern(i))
    BY <2>1, PatternDomain
  <2>3. Len(Pattern(i)) = Len(r.path)
    BY DEF Candidates, Fits, Pattern
  <2> QED
    BY <2>1, <2>2, <2>3
<1>2. \A q \in DOMAIN params : params[q] # Malformed
  BY <1>1, ParamsAreDecoded
<1>3. routes[i].auth = "none" /\ routes[i].kind = "ws"
  BY RouteTable DEF WebSocketRoute
<1>4. fetchHandler(r) = UpgradeData(routes[i], params)
  BY <1>2, <1>3, FetchFound
<1>5. 3 \in DOMAIN Pattern(i) /\ Pattern(i)[3] = ":queueName"
  <2>1. Len(Pattern(i)) \in {3, 4, 5} /\ Pattern(i)[3] = ":queueName"
    BY RoutePlaces
  <2>2. DOMAIN Pattern(i) = 1 .. Len(Pattern(i))
    BY <1>1, PatternDomain
  <2> QED
    BY <2>1, <2>2
<1>6. i = 11 => 5 \in DOMAIN Pattern(i) /\ Pattern(i)[5] = ":concurrency"
  <2>1. i = 11 => Len(Pattern(i)) = 5 /\ Pattern(i)[5] = ":concurrency"
    BY RoutePlaces
  <2>2. DOMAIN Pattern(i) = 1 .. Len(Pattern(i))
    BY <1>1, PatternDomain
  <2> QED
    BY <2>1, <2>2
<1>7. ":queueName" \in Param /\ ":concurrency" \in Param
  BY DEF Param
<1>8. params[":queueName"] = Decoded[r.path[3]]
  BY <1>1, <1>5, <1>7, ParamsByPlace
<1>9. i = 11 => ":concurrency" \in DOMAIN params /\ params[":concurrency"] = Decoded[r.path[5]]
  BY <1>1, <1>6, <1>7, ParamsByPlace
<1> HIDE DEF params
<1>10. i = 11 => Concurrency(params) =
               IF Number[Decoded[r.path[5]]] = 0 THEN 1 ELSE Number[Decoded[r.path[5]]]
  BY <1>9 DEF Concurrency
<1> QED
  BY <1>4, <1>8, <1>10 DEF params

\* For every path, of any length and any segments: at most one route fits, the
\* handler gets the decoded names, no HTTP handler is reached without its
\* authorisation, and a path the clients open is upgraded to the controller, queue
\* and concurrency it means (router-matcher.ts, fetch-handler.ts, routes/).
THEOREM RequestsAreRouted == RequestSpec => []RoutingIsSound
<1>1. OneRoute
  BY OneCandidate DEF OneRoute
<1>2. ASSUME RequestInv, answered, input.about = "route"
      PROVE  /\ output = fetchHandler(input.request)
             /\ input.request.path \in Seq(DOMAIN Decoded)
  BY <1>2, RequestAssumption DEF RequestInv, OutputInv, InputInv
<1> DEFINE path == input.request.path
           method == input.request.method
<1>3. ASSUME RequestInv, Routed
      PROVE  /\ Rebuilt = [j \in DOMAIN path |-> Decoded[path[j]]]
             /\ output.route.kind = "http" => input.request.authorised
  <2>1. output = fetchHandler(input.request) /\ path \in Seq(DOMAIN Decoded)
        /\ "route" \in DOMAIN fetchHandler(input.request)
    BY <1>2, <1>3 DEF Routed
  <2>2. PICK i \in Candidates(path, method) :
          /\ output.route = routes[i]
          /\ output.params = Params(Pattern(i), path)
          /\ routes[i].auth = "none" \/ input.request.authorised
    BY <2>1, FetchRouted
  <2>3. i \in 1 .. 12 /\ i \in DOMAIN routes /\ Fits(Pattern(i), path)
        /\ output.route.pattern = Pattern(i)
    BY <2>2, TheCandidate, RouteTable DEF Candidates, Pattern
  <2>4. Rebuilt = [j \in DOMAIN path |-> Decoded[path[j]]]
    BY <2>1, <2>2, <2>3, PathRebuilt DEF Rebuilt
  <2> QED
    BY <2>2, <2>3, <2>4, HttpRoutesAuthorise
<1>4. RequestInv => NamesRoundTrip /\ HandlersNeedAuthorisation
  BY <1>3 DEF NamesRoundTrip, HandlersNeedAuthorisation
<1>5. ASSUME RequestInv PROVE ClientsAreUpgraded
  <2> SUFFICES ASSUME answered, input.about = "route", input.request.upgradable,
                      Len(path) \in 3 .. 5, path[1] = "ws", path[2] = "queues", path[3] # EmptySegment,
                      \A j \in DOMAIN path : Decoded[path[j]] # Malformed,
                      Opened(path) \in {"queue", "queue-events", "worker"}
        PROVE /\ Routed /\ output.status = 101
              /\ output.route.name = Opened(path)
              /\ output.params[":queueName"] = Decoded[path[3]]
              /\ Opened(path) = "worker" /\ Number[Decoded[path[5]]] # 0 =>
                   output.concurrency = Number[Decoded[path[5]]]
    BY DEF ClientsAreUpgraded
  <2>1. output = fetchHandler(input.request) /\ path \in Seq(DOMAIN Decoded)
    BY <1>2, <1>5
  <2>2. PICK i \in Candidates(path, method) :
          /\ i \in {10, 11, 12} /\ routes[i].name = Opened(path)
          /\ Opened(path) = "worker" => i = 11 /\ Len(path) = 5
    BY <2>1, OpenedFits
  <2>3. /\ output = UpgradeData(routes[i], Params(Pattern(i), path))
        /\ Params(Pattern(i), path)[":queueName"] = Decoded[path[3]]
        /\ i = 11 => Concurrency(Params(Pattern(i), path)) =
                       IF Number[Decoded[path[5]]] = 0 THEN 1 ELSE Number[Decoded[path[5]]]
    BY <2>1, <2>2, OpenedAnswer
  <2> QED
    BY <2>2, <2>3 DEF UpgradeData, Routed
<1> QED
  <2>1. RequestInv => RoutingIsSound
    BY <1>1, <1>4, <1>5 DEF RoutingIsSound
  <2> QED
    BY <2>1, RequestInvariant, PTL
==============================================================================
