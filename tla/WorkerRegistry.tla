--------------------------- MODULE WorkerRegistry ---------------------------
(***************************************************************************)
(* The HTTP worker registry of bullmq-proxy                                *)
(* (src/controllers/http/worker-http-controller.ts).                       *)
(*                                                                         *)
(* A hash in Redis holds, for each queue, the metadata of the one worker   *)
(* the queue should have; a capped stream announces which queue changed.   *)
(* Every proxy process keeps one BullMQ Worker per queue in memory.  It    *)
(* reads the whole hash when it starts and from then on follows the        *)
(* stream; any proxy may also receive the HTTP requests that change the    *)
(* hash, and then moves the SAME variable lastEventId that the listener    *)
(* reads the stream from.                                                  *)
(*                                                                         *)
(* One action is what a process or Redis does between two awaits.          *)
(***************************************************************************)
EXTENDS Integers, Sequences

CONSTANTS
  Proxy,        \* proxy processes sharing one Redis
  Admin,        \* the proxies that receive POST /workers and DELETE /workers/:q
  Queue,        \* queue names
  Version,      \* worker metadata values (a value and its SHA-256 are one thing)
  Poison,       \* metadata the validator accepts and BullMQ's Worker refuses
  None,         \* no metadata / undefined
  MaxLen,       \* config.maxLenWorkerMetadataStream
  HscanRepeats, \* whether HSCAN may return a field more than once
  MaxOps,       \* bound: HTTP requests that change the registry
  MaxFaults,    \* bound: faults (signals, crashes, resets, error replies, cleanings)
  MaxInflight   \* bound: commands a proxy has in its pipeline

ASSUME RegistryAssumption ==
  /\ Admin \subseteq Proxy
  /\ Poison \subseteq Version
  /\ None \notin Version
  /\ MaxLen \in Nat \ {0}
  /\ HscanRepeats \in BOOLEAN
  /\ MaxOps \in Nat /\ MaxFaults \in Nat /\ MaxInflight \in Nat

VARIABLES
  \* ---- Redis
  meta,         \* the hash: queue -> metadata or None
  events,       \* every stream entry ever added; the id of an entry is its index
  trimmed,      \* entries 1..trimmed are no longer in the stream
  \* ---- each process
  phase,        \* startProxy: down, loading, serving, or failed to start
  shut,         \* gracefulShutdown: no, closing the workers, workers closed
  workers,      \* the keys of the map `workers`
  shas,         \* the map `metadatasShas`
  running,      \* number of Worker objects made for a queue and not close()d
  closing,      \* keys whose Worker in the map has been close()d
  mustScan,     \* fields HSCAN still has to return before it may end
  lastEventId,  \* the module variable of that name
  listening,    \* `running` of workerStreamListener
  pc,           \* where workerStreamListener is
  pos, hi,      \* it works on entry pos of a batch that ends with entry hi;
                \* during an XREAD both are the id the XREAD was issued with
  got,          \* what its HGET returned
  sent,         \* script calls not yet executed by Redis (FIFO connection)
  replies,      \* executed calls whose reply the handler has not taken
  \* ---- ghost and bounds
  lost,         \* why the listener of a process may have missed an entry
  ops, faults

redisVars    == <<meta, events, trimmed>>
workerVars   == <<workers, shas, running, closing>>
listenerVars == <<listening, pc, pos, hi, got>>
httpVars     == <<sent, replies, ops>>
vars == <<redisVars, phase, shut, workerVars, mustScan, lastEventId,
          listenerVars, httpVars, lost, faults>>

-----------------------------------------------------------------------------
Larger(m, n) == IF m < n THEN n ELSE m

Command == [op : {"add"}, queue : Queue, version : Version \ {None}]
             \cup [op : {"remove"}, queue : Queue, version : {None}]

\* The reply of a script: the id of its entry, 0 for the nil of removeWorker.
Reply == [cmd : Command, id : Nat]

\* The queue named by the entry the listener of p is working on.
Current(p) == events[pos[p]]

Init ==
  /\ meta = [q \in Queue |-> None]
  /\ events = <<>>
  /\ trimmed = 0
  /\ phase = [p \in Proxy |-> "down"]
  /\ shut = [p \in Proxy |-> "no"]
  /\ workers = [p \in Proxy |-> {}]
  /\ shas = [p \in Proxy |-> [q \in Queue |-> None]]
  /\ running = [p \in Proxy |-> [q \in Queue |-> 0]]
  /\ closing = [p \in Proxy |-> {}]
  /\ mustScan = [p \in Proxy |-> {}]
  /\ lastEventId = [p \in Proxy |-> 0]
  /\ listening = [p \in Proxy |-> FALSE]
  /\ pc = [p \in Proxy |-> "off"]
  /\ pos = [p \in Proxy |-> 0]
  /\ hi = [p \in Proxy |-> 0]
  /\ got = [p \in Proxy |-> None]
  /\ sent = [p \in Proxy |-> <<>>]
  /\ replies = [p \in Proxy |-> <<>>]
  /\ lost = [p \in Proxy |-> {}]
  /\ ops = 0
  /\ faults = 0

Fault == faults < MaxFaults /\ faults' = faults + 1

-----------------------------------------------------------------------------
(* Starting: init, loadWorkers.                                            *)

(***************************************************************************)
(* XREVRANGE takes the newest id, then HSCAN begins.  With an empty stream *)
(* the code reads from '0': nothing in the stream is older than the next   *)
(* entry, so the newest id stands for '0' too.  HSCAN returns every field  *)
(* that stays in the hash from its start to its end; one added in between  *)
(* it may or may not return, which covers the gap between the two calls.   *)
(***************************************************************************)
Start(p) ==
  /\ phase[p] = "down"
  /\ phase' = [phase EXCEPT ![p] = "loading"]
  /\ lastEventId' = [lastEventId EXCEPT ![p] = Len(events)]
  /\ mustScan' = [mustScan EXCEPT ![p] = {q \in Queue : meta[q] # None}]
  /\ lost' = [lost EXCEPT ![p] = {}]
  /\ UNCHANGED <<redisVars, shut, workerVars, listenerVars, httpVars, faults>>

\* HSCAN returns field q: the data handler makes a worker, whatever the map
\* held before (bound: a field comes back at most twice).
LoadWorker(p, q) ==
  /\ phase[p] = "loading"
  /\ meta[q] \notin Poison \cup {None}
  /\ q \in workers[p] => HscanRepeats /\ running[p][q] < 2
  /\ workers' = [workers EXCEPT ![p] = @ \cup {q}]
  /\ shas' = [shas EXCEPT ![p][q] = meta[q]]
  /\ running' = [running EXCEPT ![p][q] = @ + 1]
  /\ closing' = [closing EXCEPT ![p] = @ \ {q}]
  /\ mustScan' = [mustScan EXCEPT ![p] = @ \ {q}]
  /\ UNCHANGED <<redisVars, phase, shut, lastEventId, listenerVars, httpVars,
                 lost, faults>>

\* The constructor throws in the data handler, or HSCAN fails: init never
\* resolves or rejects, so the server never starts; the process stays alive.
LoadFail(p) ==
  /\ phase[p] = "loading"
  /\ \/ \E q \in Queue : meta[q] \in Poison /\ UNCHANGED faults
     \/ Fault
  /\ phase' = [phase EXCEPT ![p] = "failed"]
  /\ mustScan' = [mustScan EXCEPT ![p] = {}]
  /\ UNCHANGED <<redisVars, shut, workerVars, lastEventId, listenerVars,
                 httpVars, lost>>

\* Mutant: XREVRANGE after HSCAN instead of before it.
FirstIdLate(p) == Len(events)

\* The id the listener starts from: the one XREVRANGE returned before HSCAN.
FirstId(p) == lastEventId[p]

\* HSCAN ends: the listener is started, not awaited, and issues its first
\* XREAD; the HTTP server starts.  A signal handled before this point has
\* fired its abort event already, so `running` is true all the same.
LoadDone(p) ==
  /\ phase[p] = "loading"
  /\ mustScan[p] = {}
  /\ phase' = [phase EXCEPT ![p] = "serving"]
  /\ listening' = [listening EXCEPT ![p] = TRUE]
  /\ pc' = [pc EXCEPT ![p] = "xread"]
  /\ pos' = [pos EXCEPT ![p] = FirstId(p)]
  /\ hi' = [hi EXCEPT ![p] = FirstId(p)]
  /\ UNCHANGED <<redisVars, shut, workerVars, mustScan, lastEventId, got,
                 httpVars, lost, faults>>

-----------------------------------------------------------------------------
(* The HTTP handlers addWorker and removeWorker, and the Lua scripts.      *)

Send(p, cmd) ==
  /\ phase[p] = "serving"
  /\ ops < MaxOps
  /\ Len(sent[p]) + Len(replies[p]) < MaxInflight
  /\ sent' = [sent EXCEPT ![p] = Append(@, cmd)]
  /\ ops' = ops + 1
  /\ UNCHANGED <<redisVars, phase, shut, workerVars, mustScan, lastEventId,
                 listenerVars, replies, lost, faults>>

\* Metadata the validator refuses is answered 400 and changes nothing.
AddWorker(p, q, v) == Send(p, [op |-> "add", queue |-> q, version |-> v])

RemoveWorker(p, q) == Send(p, [op |-> "remove", queue |-> q, version |-> None])

\* Mutant: a script that forgets XADD.
AnnounceNothing(q) == UNCHANGED <<events, trimmed>>

\* XADD with MAXLEN inside the scripts.
Announce(q) ==
  /\ events' = Append(events, q)
  /\ trimmed' = Larger(trimmed, Len(events) + 1 - MaxLen)

\* Redis executes the oldest call of p's connection, as one atomic script.
UpdateWorkerMetadata(p) ==
  LET cmd == Head(sent[p])
  IN  /\ sent[p] # <<>> /\ cmd.op = "add"
      /\ meta' = [meta EXCEPT ![cmd.queue] = cmd.version]
      /\ Announce(cmd.queue)
      /\ sent' = [sent EXCEPT ![p] = Tail(@)]
      /\ replies' = [replies EXCEPT ![p] =
                       Append(@, [cmd |-> cmd, id |-> Len(events) + 1])]
      /\ UNCHANGED <<phase, shut, workerVars, mustScan, lastEventId,
                     listenerVars, ops, lost, faults>>

RemoveWorkerMetadata(p) ==
  LET cmd == Head(sent[p])
      q   == cmd.queue
  IN  /\ sent[p] # <<>> /\ cmd.op = "remove"
      /\ meta' = [meta EXCEPT ![q] = None]
      /\ IF meta[q] # None THEN Announce(q) ELSE UNCHANGED <<events, trimmed>>
      /\ mustScan' = [r \in Proxy |-> mustScan[r] \ {q}]
      /\ sent' = [sent EXCEPT ![p] = Tail(@)]
      /\ replies' = [replies EXCEPT ![p] =
           Append(@, [cmd |-> cmd,
                      id  |-> IF meta[q] # None THEN Len(events) + 1 ELSE 0])]
      /\ UNCHANGED <<phase, shut, workerVars, lastEventId, listenerVars, ops,
                     lost, faults>>

\* The handler resumes and assigns lastEventId, wherever the listener is.  A
\* nil reply ends in 404, or in 500 when result[1] throws: no assignment.
HandlerReply(p) ==
  /\ replies[p] # <<>>
  /\ LET id == Head(replies[p]).id
     IN  lastEventId' = [lastEventId EXCEPT ![p] = IF id = 0 THEN @ ELSE id]
  /\ replies' = [replies EXCEPT ![p] = Tail(@)]
  /\ UNCHANGED <<redisVars, phase, shut, workerVars, mustScan, listenerVars,
                 sent, ops, lost, faults>>

\* The connection drops.  On reconnection ioredis sends again every call
\* without a reply, executed or not; when it gives up they all fail (500).
ConnectionReset(p) ==
  /\ Fault
  /\ sent[p] # <<>> \/ replies[p] # <<>>
  /\ sent' \in {[sent EXCEPT ![p] =
                   [i \in 1..Len(replies[p]) |-> replies[p][i].cmd] \o @],
                [sent EXCEPT ![p] = <<>>]}
  /\ replies' = [replies EXCEPT ![p] = <<>>]
  /\ UNCHANGED <<redisVars, phase, shut, workerVars, mustScan, lastEventId,
                 listenerVars, ops, lost>>

\* cleanMetadata: DEL of both keys in one transaction, without an entry.
CleanMetadata ==
  /\ Fault
  /\ meta' = [q \in Queue |-> None]
  /\ trimmed' = Len(events)
  /\ mustScan' = [p \in Proxy |-> {}]
  /\ lost' = [p \in Proxy |-> lost[p] \cup {"cleaned"}]
  /\ UNCHANGED <<events, phase, shut, workerVars, lastEventId, listenerVars,
                 httpVars>>

-----------------------------------------------------------------------------
(* workerStreamListener.  The replies of XREAD and HGET travel on          *)
(* connections that retry for ever, so losing one is being served later.   *)

\* Redis serves the XREAD: the entries after the cursor it still has.
XreadServe(p) ==
  /\ pc[p] = "xread" /\ listening[p]
  /\ pos[p] < Len(events) /\ trimmed < Len(events)
  /\ pc' = [pc EXCEPT ![p] = "reply"]
  /\ pos' = [pos EXCEPT ![p] = Larger(pos[p], trimmed)]
  /\ hi' = [hi EXCEPT ![p] = Len(events)]
  /\ lost' = [lost EXCEPT ![p] =
                IF pos[p] < trimmed THEN @ \cup {"trimmed"} ELSE @]
  /\ UNCHANGED <<redisVars, phase, shut, workerVars, mustScan, lastEventId,
                 listening, got, httpVars, faults>>

\* workerStreamBlockingTime passes without an entry: a nil reply.
XreadTimeout(p) ==
  /\ pc[p] = "xread" /\ listening[p]
  /\ pos[p] = Len(events) \/ trimmed = Len(events)
  /\ pc' = [pc EXCEPT ![p] = "reply"]
  /\ UNCHANGED <<redisVars, phase, shut, workerVars, mustScan, lastEventId,
                 listening, pos, hi, got, httpVars, lost, faults>>

\* Mutant: one entry past the end of the batch.
NextEntryPastEnd(p) ==
  /\ pos[p] <= hi[p]
  /\ pos' = [pos EXCEPT ![p] = @ + 1]
  /\ lastEventId' = [lastEventId EXCEPT ![p] = pos[p] + 1]
  /\ pc' = [pc EXCEPT ![p] = "hget"]
  /\ UNCHANGED <<hi, lost>>

\* What follows a handled entry: take the next one of the batch ...
NextEntry(p) ==
  /\ pos[p] < hi[p]
  /\ pos' = [pos EXCEPT ![p] = @ + 1]
  /\ lastEventId' = [lastEventId EXCEPT ![p] = pos[p] + 1]
  /\ pc' = [pc EXCEPT ![p] = "hget"]
  /\ UNCHANGED <<hi, lost>>

\* ... or, the batch being spent, leave the loop ...
LeaveLoop(p) ==
  /\ pos[p] = hi[p] /\ ~listening[p]
  /\ pc' = [pc EXCEPT ![p] = "done"]
  /\ UNCHANGED <<pos, hi, lastEventId, lost>>

\* Mutant: XREAD from '$', the end of the stream.
CursorAtEnd(p) == Len(events)

\* The id given to XREAD: what lastEventId is NOW.
Cursor(p) == lastEventId[p]

\* ... or read the stream again.
ReadAgain(p) ==
  /\ pos[p] = hi[p] /\ listening[p]
  /\ pc' = [pc EXCEPT ![p] = "xread"]
  /\ pos' = [pos EXCEPT ![p] = Cursor(p)]
  /\ hi' = [hi EXCEPT ![p] = Cursor(p)]
  /\ lost' = [lost EXCEPT ![p] =
                IF pos[p] < Cursor(p) THEN @ \cup {"skipped"} ELSE @]
  /\ UNCHANGED lastEventId

Advance(p) ==
  /\ NextEntry(p) \/ LeaveLoop(p) \/ ReadAgain(p)
  /\ got' = [got EXCEPT ![p] = None]
  /\ UNCHANGED <<redisVars, phase, shut, mustScan, listening, httpVars, faults>>

TakeReply(p) == pc[p] = "reply" /\ Advance(p) /\ UNCHANGED workerVars

\* abort disconnects the blocking client: its XREAD rejects and the loop ends.
ListenerAborted(p) ==
  /\ pc[p] \in {"xread", "reply"} /\ ~listening[p]
  /\ pc' = [pc EXCEPT ![p] = "done"]
  /\ UNCHANGED <<redisVars, phase, shut, workerVars, mustScan, lastEventId,
                 listening, pos, hi, got, httpVars, lost, faults>>

\* XREAD or HGET is answered with an error: the listener rejects, nobody
\* catches it, and it is never started again.
ListenerError(p) ==
  /\ pc[p] \in {"xread", "hget"} /\ listening[p]
  /\ Fault
  /\ pc' = [pc EXCEPT ![p] = "dead"]
  /\ UNCHANGED <<redisVars, phase, shut, workerVars, mustScan, lastEventId,
                 listening, pos, hi, got, httpVars, lost>>

HgetServe(p) ==
  /\ pc[p] = "hget"
  /\ got' = [got EXCEPT ![p] = meta[Current(p)]]
  /\ pc' = [pc EXCEPT ![p] = "hgot"]
  /\ UNCHANGED <<redisVars, phase, shut, workerVars, mustScan, lastEventId,
                 listening, pos, hi, httpVars, lost, faults>>

\* The worker in place already runs this metadata, or there is none to remove.
HandleNothing(p) ==
  /\ pc[p] = "hgot"
  /\ IF got[p] = None THEN Current(p) \notin workers[p]
                      ELSE got[p] = shas[p][Current(p)]
  /\ Advance(p)
  /\ UNCHANGED workerVars

\* How many open Worker objects close() finds in the map entry of q.
OpenInMap(p, q) == IF q \in workers[p] \ closing[p] THEN 1 ELSE 0

\* Mutant: the old worker is not closed.
ReplaceNoClose(p, q) == running' = [running EXCEPT ![p][q] = @ + 1]

\* One Worker object more; the one in the map, if any is open there, closed.
Replace(p, q) == running' = [running EXCEPT ![p][q] = @ + 1 - OpenInMap(p, q)]

\* The new worker is made and put in the maps, then the old one is closed.
HandleUpdate(p) ==
  LET q == Current(p)
  IN  /\ pc[p] = "hgot"
      /\ got[p] \notin Poison \cup {None} /\ got[p] # shas[p][q]
      /\ workers' = [workers EXCEPT ![p] = @ \cup {q}]
      /\ shas' = [shas EXCEPT ![p][q] = got[p]]
      /\ Replace(p, q)
      /\ closing' = [closing EXCEPT ![p] = @ \ {q}]
      /\ IF q \in workers[p]
         THEN /\ pc' = [pc EXCEPT ![p] = "close"]
              /\ UNCHANGED <<redisVars, phase, shut, mustScan, lastEventId,
                             listening, pos, hi, got, httpVars, lost,
                             faults>>
         ELSE Advance(p)

\* The Worker constructor throws: the listener rejects.
HandlePoison(p) ==
  /\ pc[p] = "hgot"
  /\ got[p] \in Poison /\ got[p] # shas[p][Current(p)]
  /\ pc' = [pc EXCEPT ![p] = "dead"]
  /\ UNCHANGED <<redisVars, phase, shut, workerVars, mustScan, lastEventId,
                 listening, pos, hi, got, httpVars, lost, faults>>

\* Mutant: the else branch bound to the inner if.
RemovedOrSame(p) == got[p] \in {None, shas[p][Current(p)]}

\* HGET found no metadata.
Removed(p) == got[p] = None

\* The worker is close()d now and forgotten when close() resolves.
HandleRemoval(p) ==
  LET q == Current(p)
  IN  /\ pc[p] = "hgot" /\ Removed(p) /\ q \in workers[p]
      /\ running' = [running EXCEPT ![p][q] = @ - OpenInMap(p, q)]
      /\ closing' = [closing EXCEPT ![p] = @ \cup {q}]
      /\ pc' = [pc EXCEPT ![p] = "remove"]
      /\ UNCHANGED <<redisVars, phase, shut, workers, shas, mustScan,
                     lastEventId, listening, pos, hi, got, httpVars,
                     lost, faults>>

CloseDone(p) == pc[p] = "close" /\ Advance(p) /\ UNCHANGED workerVars

\* Mutant: only the worker is deleted, its SHA stays.
ForgetWorkerOnly(p, q) ==
  /\ workers' = [workers EXCEPT ![p] = @ \ {q}]
  /\ closing' = [closing EXCEPT ![p] = @ \ {q}]
  /\ UNCHANGED <<shas, running>>

\* Both maps lose the queue.
Forget(p, q) ==
  /\ workers' = [workers EXCEPT ![p] = @ \ {q}]
  /\ shas' = [shas EXCEPT ![p][q] = None]
  /\ closing' = [closing EXCEPT ![p] = @ \ {q}]
  /\ UNCHANGED running

RemoveDone(p) == pc[p] = "remove" /\ Forget(p, Current(p)) /\ Advance(p)

-----------------------------------------------------------------------------
(* Stopping: gracefulShutdown, or a crash.                                 *)

\* SIGINT or SIGTERM: abort the listener and close() every worker in the map;
\* Promise.all of no close() resolves at once.
GracefulShutdown(p) ==
  /\ phase[p] # "down" /\ shut[p] = "no"
  /\ Fault
  /\ shut' = [shut EXCEPT ![p] = IF workers[p] = {} THEN "closed" ELSE "closing"]
  /\ listening' = [listening EXCEPT ![p] = FALSE]
  /\ running' = [running EXCEPT ![p] =
                   [q \in Queue |-> @[q] - OpenInMap(p, q)]]
  /\ closing' = [closing EXCEPT ![p] = workers[p]]
  /\ UNCHANGED <<redisVars, phase, workers, shas, mustScan, lastEventId, pc,
                 pos, hi, got, httpVars, lost>>

\* All those close() calls have resolved: 'Workers closed'.
WorkersClosed(p) ==
  /\ shut[p] = "closing"
  /\ shut' = [shut EXCEPT ![p] = "closed"]
  /\ UNCHANGED <<redisVars, phase, workerVars, mustScan, lastEventId,
                 listenerVars, httpVars, lost, faults>>

\* The process ends and its memory, pipeline and Worker objects with it.
Terminate(p) ==
  /\ phase' = [phase EXCEPT ![p] = "down"]
  /\ shut' = [shut EXCEPT ![p] = "no"]
  /\ workers' = [workers EXCEPT ![p] = {}]
  /\ shas' = [shas EXCEPT ![p] = [q \in Queue |-> None]]
  /\ running' = [running EXCEPT ![p] = [q \in Queue |-> 0]]
  /\ closing' = [closing EXCEPT ![p] = {}]
  /\ mustScan' = [mustScan EXCEPT ![p] = {}]
  /\ lastEventId' = [lastEventId EXCEPT ![p] = 0]
  /\ listening' = [listening EXCEPT ![p] = FALSE]
  /\ pc' = [pc EXCEPT ![p] = "off"]
  /\ pos' = [pos EXCEPT ![p] = 0]
  /\ hi' = [hi EXCEPT ![p] = 0]
  /\ got' = [got EXCEPT ![p] = None]
  /\ sent' = [sent EXCEPT ![p] = <<>>]
  /\ replies' = [replies EXCEPT ![p] = <<>>]
  /\ lost' = [lost EXCEPT ![p] = {}]
  /\ UNCHANGED <<redisVars, ops>>

Exit(p) == shut[p] = "closed" /\ Terminate(p) /\ UNCHANGED faults

\* The process is killed, or the machine fails.
Crash(p) == phase[p] # "down" /\ Terminate(p) /\ Fault

-----------------------------------------------------------------------------
Loading(p) ==
  Start(p) \/ LoadFail(p) \/ LoadDone(p) \/ \E q \in Queue : LoadWorker(p, q)

Scripts(p) == UpdateWorkerMetadata(p) \/ RemoveWorkerMetadata(p)

Requests(p) ==
  /\ p \in Admin
  /\ \E q \in Queue : RemoveWorker(p, q) \/ \E v \in Version : AddWorker(p, q, v)

\* What Redis and the event loop do for the listener without any fault.
Listener(p) ==
  \/ XreadServe(p) \/ XreadTimeout(p) \/ TakeReply(p) \/ ListenerAborted(p)
  \/ HgetServe(p) \/ HandleNothing(p) \/ HandleUpdate(p) \/ HandlePoison(p)
  \/ HandleRemoval(p) \/ CloseDone(p) \/ RemoveDone(p)

Stopping(p) == GracefulShutdown(p) \/ WorkersClosed(p) \/ Exit(p) \/ Crash(p)

Next ==
  \/ CleanMetadata
  \/ \E p \in Proxy : \/ Loading(p) \/ Requests(p) \/ Scripts(p)
                      \/ HandlerReply(p) \/ ConnectionReset(p)
                      \/ Listener(p) \/ ListenerError(p) \/ Stopping(p)

Spec == Init /\ [][Next]_vars

\* A loading process goes on loading, a listener goes on, Redis answers, and a
\* shutdown that began ends.  Nobody has to start, ask, fail or send a signal.
Fairness ==
  \A p \in Proxy :
    /\ WF_vars(\E q \in mustScan[p] : LoadWorker(p, q))
    /\ WF_vars(LoadDone(p))
    /\ WF_vars(Listener(p))
    /\ WF_vars(Scripts(p))
    /\ WF_vars(HandlerReply(p))
    /\ WF_vars(WorkersClosed(p) \/ Exit(p))

FairSpec == Spec /\ Fairness

-----------------------------------------------------------------------------
(* Properties.                                                             *)

Phases == {"down", "loading", "serving", "failed"}
ListenerSteps == {"xread", "reply", "hget", "hgot", "close", "remove"}
Causes == {"skipped", "trimmed", "cleaned"}

\* Every variable has its type: what the Redis keys hold, which values the
\* module variables of the controller take and where its coroutines can be.
TypeOK ==
  /\ meta \in [Queue -> Version \cup {None}]
  /\ events \in Seq(Queue)
  /\ trimmed \in 0..Len(events)
  /\ phase \in [Proxy -> Phases]
  /\ shut \in [Proxy -> {"no", "closing", "closed"}]
  /\ workers \in [Proxy -> SUBSET Queue]
  /\ shas \in [Proxy -> [Queue -> Version \cup {None}]]
  /\ running \in [Proxy -> [Queue -> Int]]
  /\ closing \in [Proxy -> SUBSET Queue]
  /\ mustScan \in [Proxy -> SUBSET Queue]
  /\ lastEventId \in [Proxy -> 0..Len(events)]
  /\ listening \in [Proxy -> BOOLEAN]
  /\ pc \in [Proxy -> ListenerSteps \cup {"off", "done", "dead"}]
  /\ pos \in [Proxy -> 0..Len(events)]
  /\ hi \in [Proxy -> 0..Len(events)]
  /\ got \in [Proxy -> Version \cup {None}]
  /\ sent \in [Proxy -> Seq(Command)]
  /\ replies \in [Proxy -> Seq(Reply)]
  /\ lost \in [Proxy -> SUBSET Causes]
  /\ ops \in Nat /\ faults \in Nat

\* The process follows the registry: it loads it, or its listener is alive.
Following(p) == phase[p] = "loading" \/ pc[p] \in ListenerSteps

\* The last entry whose queue the process has looked up since it was added.
HandledUpTo(p) ==
  CASE phase[p] = "loading" -> lastEventId[p]
    [] pc[p] = "hget"       -> pos[p] - 1
    [] OTHER                -> pos[p]

\* The stream still tells a reader of the entries after id that q changed.
Announced(q, id) == \E i \in id + 1 .. Len(events) : events[i] = q

\* p has read the current metadata of q and is about to act on it.
InHand(p, q) ==
  \/ phase[p] = "loading" /\ q \in mustScan[p]
  \/ /\ pc[p] \in {"hgot", "remove"}
     /\ q = Current(p) /\ got[p] = meta[q]

(***************************************************************************)
(* A process whose worker for a queue is not the registered one is still   *)
(* going to hear of the change, unless its listener is dead or one of the  *)
(* three named causes took an entry from it: it moved lastEventId past an  *)
(* unread entry, MAXLEN trimmed one, or the metadata was cleaned.  This is *)
(* what XREVRANGE before HSCAN, HGET at the time an entry is handled and   *)
(* HSET with XADD in one script are for.                                   *)
(***************************************************************************)
NoSilentStaleness ==
  \A p \in Proxy, q \in Queue :
    (Following(p) /\ lost[p] = {} /\ shas[p][q] # meta[q])
      => Announced(q, HandledUpTo(p)) \/ InHand(p, q)

\* A proxy that receives no registry request never moves lastEventId past an
\* entry its listener has not handled: only lines 259 and 309 can do that.
ReplicaNeverSkips ==
  \A p \in Proxy \ Admin : "skipped" \notin lost[p]

\* The open Worker objects of a queue that the map does not hold.
Unreferenced(p, q) == running[p][q] - OpenInMap(p, q)

\* HSCAN returns the field of a queue again whose worker is open in the map.
FieldRepeated(p, q) ==
  /\ phase[p] = "loading" /\ q \in workers[p] \ closing[p]
  /\ running'[p][q] = running[p][q] + 1

\* A Worker object comes to run unreferenced only when HSCAN repeats a field
\* (line 201 overwrites the map), and from then on only the end of the process
\* ends it: no replacement, removal, resent call or shutdown leaks a worker or
\* closes one twice.
NoLeakedWorker ==
  [][\A p \in Proxy, q \in Queue :
       Unreferenced(p, q)' # Unreferenced(p, q)
         => phase'[p] = "down" \/ FieldRepeated(p, q)]_vars

\* "notify all listeners about the change" (the comment in addWorker): a live
\* listener that has not applied a change is still going to read about it.
EveryListenerNotified ==
  \A p \in Proxy, q \in Queue :
    (pc[p] \in ListenerSteps /\ shas[p][q] # meta[q])
      => Announced(q, HandledUpTo(p)) \/ InHand(p, q)

\* Updating a worker never leaves its queue unserved: the last open worker of
\* a queue is closed only for metadata that was seen to be removed, or at the
\* end of the process.  The code makes the new worker before closing the old.
NoServiceGap ==
  [][\A p \in Proxy, q \in Queue :
       (running[p][q] > 0 /\ running'[p][q] <= 0)
         => \/ shut'[p] # "no" \/ phase'[p] = "down"
            \/ pc'[p] = "remove" /\ got[p] = None]_vars

\* After the last request and fault every live listener that missed no entry
\* runs exactly the registered workers.
EventuallyConsistent ==
  <>[](\A p \in Proxy, q \in Queue :
         pc[p] \in ListenerSteps /\ lost[p] = {} => shas[p][q] = meta[q])

-----------------------------------------------------------------------------
(* What a step needs to know of a reachable state: the inductive invariant *)
(* of the proofs, in parts.                                                *)

\* The listener is off until the process serves, and only a serving process
\* has calls on their way; every id a reply carries is that of an entry.
ControlInv ==
  \A p \in Proxy :
    /\ phase[p] = "serving" <=> pc[p] # "off"
    /\ phase[p] # "serving" => sent[p] = <<>> /\ replies[p] = <<>>
    /\ p \notin Admin => sent[p] = <<>> /\ replies[p] = <<>>
    /\ \A i \in 1..Len(replies[p]) : replies[p][i].id <= Len(events)

\* The batch of a listener: an entry is in work, or the batch is spent.
BatchInv ==
  \A p \in Proxy :
    /\ pos[p] <= hi[p]
    /\ pc[p] \in {"hget", "hgot", "close", "remove"} => pos[p] # 0
    /\ pc[p] = "xread" => pos[p] = hi[p]

\* The two maps have the same keys, a worker that is being removed is in them,
\* and a process that starts has none.
MapsInv ==
  \A p \in Proxy :
    /\ phase[p] = "down" => workers[p] = {}
    /\ \A q \in Queue : q \in workers[p] <=> shas[p][q] # None
    /\ closing[p] \subseteq workers[p]
    /\ pc[p] = "remove" => got[p] = None /\ Current(p) \in closing[p]

\* HSCAN only owes fields that are in the hash.
ScanInv == \A p \in Proxy : \A q \in mustScan[p] : meta[q] # None

\* Metadata that changed after it was read is announced again.
GotFresh ==
  \A p \in Proxy :
    (pc[p] \in {"hgot", "remove"} /\ lost[p] = {} /\ got[p] # meta[Current(p)])
      => Announced(Current(p), pos[p])

\* Without handlers lastEventId is never ahead of the listener.
ReplicaBehind ==
  \A p \in Proxy \ Admin : pc[p] \in ListenerSteps => lastEventId[p] <= pos[p]

\* Together with NoSilentStaleness and ReplicaNeverSkips these are inductive.
RegistryInv ==
  /\ TypeOK /\ ControlInv /\ BatchInv /\ MapsInv /\ ScanInv /\ GotFresh /\ ReplicaBehind
=============================================================================
