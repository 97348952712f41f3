# Verification of bullmq-proxy

bullmq-proxy puts BullMQ queues behind HTTP and WebSockets. It keeps no data of
its own except a registry of HTTP workers in Redis; what is hard in it is the
coordination of several proxy processes through that registry, and of requests,
answers, timers and closes on connections that come and go. This directory holds
TLA+ models of its parts and of its Bun and Go clients, the TLC runs that check
them on small instances and TLAPS proofs of their main properties for every
instance.

Paths below are relative to the repository's root; `worker-http-controller.ts`
and the like are under `src/`.

## 1. The system

| component | state it keeps | operations | what makes it correct |
|---|---|---|---|
| HTTP worker registry (`controllers/http/worker-http-controller.ts`) | Redis hash queue -> metadata, capped Redis stream of changed queues; per process: the maps `workers` and `metadatasShas`, the variable `lastEventId`, the listener | `init`/`loadWorkers`, `addWorker`, `removeWorker`, `getWorkers`, `workerStreamListener`, `cleanMetadata`, `gracefulShutdownWorkers` | every process runs, for each queue, the one worker the hash names; a change is not missed; no worker escapes the map; an update does not leave its queue unserved |
| Job processor (same file, `workerFromMetadata`) | abort timer of a call | fetch of the endpoint, abort, body | a job completes only with an accepted answer; its call ends; the exit cuts no job it waited for |
| Message broker (`controllers/websocket/message-broker.ts`) | `messageId`, pending promises, timers, listeners | `sendData`, `processMessage`, timeout, `close` | each promise is settled once, in bounded time, by its own answer |
| WebSocket worker (`controllers/websocket/worker.ts`, `controllers/utils.ts`) | a BullMQ `Worker` and a broker per connection | `open`, `message`, `close`, processor, `send` | a job is completed with its own result; jobs come back whatever the client does; a dead connection leaves no worker |
| WebSocket queue (`controllers/websocket/queue.ts`, `controllers/commands.ts`) | a `Queue` per connection | `open`, `message`, `close` | each command is answered once, with its id and its true outcome; the `Queue` of a dead connection is closed |
| WebSocket queue events (`controllers/websocket/queue-events.ts`) | a `QueueEvents` per connection | `open`, `close` | the events asked for are sent |
| Queue cache (`cache.ts`, `utils/queue-factory.ts`) | an LRU map name -> `Queue` | `get`, `put`, `remove`, `clear`, `getQueue`, `cleanCache` | bounded, evicts the least recently used, hands out open queues, loses none but by eviction |
| Queue and job HTTP controllers, authorisation (`controllers/http/*`, `authware/*`) | none; they hold a cached `Queue` over their awaits | one BullMQ call each | only who held a job's lock changes it; refused requests change nothing; bulks are all or nothing; pages cover the lists |
| Routing, fetch handler, validators | route table | `match`, `fetchHandler`, `validate*` | one route per path, the right names, no way round the authorisation; what is accepted is of the documented kind, to exact exceptions |
| Startup and shutdown (`index.ts`, `proxy.ts`, `config.ts`) | two Redis connections, signal handlers | start, SIGINT/SIGTERM, exit | a process comes up on what earlier ones left in Redis, to exact exceptions; a signal leads to the exit |
| Bun client (`clients/bun`) | one reconnecting WebSocket, a broker for its own requests | `open`, `close`, reconnect, `callProcessor`, queue methods | answers reach the request they belong to; every call settles; close is final |
| Go client (`clients/golang`) | connection, two mutexes, a channel per call | `SendWebSocketMessage`, `listenForResponses`, `Respond`, `listen` | every call gets its own answer or returns within its timeout |

How they interact. `startProxy` runs `WorkerHttpController.init` and only then
opens the server. `fetchHandler` matches the route, authorises, and either
upgrades to a WebSocket (a controller object per route) or calls an HTTP
handler. HTTP handlers share the queue cache; the worker handlers run Lua
scripts that change the hash and append to the stream in one step, and every
process, the one that received the request included, learns of the change from
the stream alone. The handlers of a process and its listener share
`lastEventId`. A WebSocket worker hands each job to its connection's broker and
waits for the answer; an HTTP worker calls its endpoint. A signal closes the
workers in the map, cleans the queue cache, quits Redis and exits.

What is hard: the awaits. Between any two of them other handlers, the listener,
other processes, timers, dropped connections, crashes and signals act. The
sections below say which of these each model has. PROJECT.json lists the hazards
by line with the properties that watch them.

## 2. Modules

| module | what it is |
|---|---|
| `WorkerRegistry` | the registry: Redis, any number of proxies, their listeners, handlers, faults |
| `HttpWorker` | the jobs of an HTTP worker: endpoint calls, replacement, shutdown |
| `HttpJobs` | HTTP requests about jobs: authorisation, validation, lock, BullMQ call |
| `QueueCache` | `LRUCache` and `getQueue`/`cleanCache` with requests and shutdown; implements `RecencyCache` |
| `RecencyCache` | abstract: what a least recently used cache promises |
| `Startup` | starts of a proxy under its configuration, on a Redis that outlives it |
| `MessageBroker` | the broker, against an arbitrary other end |
| `WsWorker` | WebSocket worker, broker (EXTENDS `MessageBroker`), network and Bun worker client composed; implements `MessageBroker` |
| `QueueSession` | Bun queue client, its reconnecting socket and broker (EXTENDS `MessageBroker`), and the queue controller of the proxy; implements `MessageBroker` |
| `GoWsClient` | calls of the Go client: goroutines, mutexes, channels, reader |
| `GoWorker` | the Go worker and the proxy's processor (EXTENDS `MessageBroker`) |
| `GoProgram` | both (EXTENDS them): the jobs that calls add are the jobs the worker runs |
| `RouteMatcher`, `Validators`, `QueueCommands`, `Pagination` | pure operators |
| `Requests` | what those decide about a request, one step per request |
| `WorkerRegistry_proofs`, `MessageBroker_proofs`, `WsWorker_proofs`, `QueueSession_proofs`, `QueueCache_proofs` | proofs about the module of that name |
| `HttpRequests_proofs` | proofs about `HttpJobs` and `Requests` with its operators |
| `Process_proofs` | proofs about `HttpWorker` and `Startup` |
| `GoProgram_proofs` | proofs about `GoWsClient`, `GoWorker` and `GoProgram` |
| `MC*` | names of the model values, inputs and symmetry sets for TLC |

One action is what the code does between two awaits, or what Redis, the network
or BullMQ does in one step. Each module is parameterised by CONSTANTS with a
named ASSUME where one is needed; constants called `Max...` are bounds. An
operator that a comment calls a mutant is a plausible bug of the operator after
it; PROJECT.json says which property refutes it.

### 2.1 WorkerRegistry

State. `meta` is the hash, `events` the stream (the id of an entry is its
index), `trimmed` the part MAXLEN or a cleaning removed. Per process: `phase`
and `shut` (life cycle), `workers`/`shas` (the two maps), `running`/`closing`
(the Worker objects that exist, in the map or not), `mustScan` (fields the HSCAN
under way still owes), `lastEventId`, and the listener: `listening`, `pc`, the
batch `pos..hi` it works on, `got` (the answer of its HGET). `sent` and
`replies` are the pipeline of its connection: script calls Redis has not run,
and replies the handler has not taken. Metadata and its SHA-256 are one value.
`lost` is a ghost: the reasons for which this process may legitimately have
missed an entry (`skip`: a handler moved `lastEventId`; `trim`; `clean`).

Actions. Startup: `Start` (XREVRANGE, begin of HSCAN), `LoadWorker` (a field),
`LoadFail`, `LoadDone`. Requests: `AddWorker`, `RemoveWorker` (up to the await),
`UpdateWorkerMetadata`, `RemoveWorkerMetadata` (Redis runs the script),
`HandlerReply` (after the await: assigns `lastEventId`), `ConnectionReset`
(resent or failed calls), `CleanMetadata`. Listener: `XreadServe`,
`XreadTimeout`, `TakeReply`, `HgetServe`, `HandleNothing`, `HandleUpdate`,
`HandlePoison` (the Worker constructor throws), `HandleRemoval`, `CloseDone`,
`RemoveDone`, `ListenerAborted`, `ListenerError`. Life cycle:
`GracefulShutdown`, `WorkersClosed`, `Terminate`, `Exit`, `Crash` (with restart
through `Start`).

Simplifications. HSCAN returns every field that stays in the hash during the scan
and may return others. Whether it may return a field twice is the constant
`HscanRepeats`, true in `registry_single`: `LoadWorker` then overwrites the map and
the first object runs on, up to one per queue. The gap between XREVRANGE and the
first HSCAN call is covered by that freedom. A script call is resent by ioredis or
fails; both are outcomes of `ConnectionReset`. Authorisation, validation and the
text of answers are left out: only requests that pass are modelled, and `Poison` is
the metadata that passes the validator but not BullMQ (a concurrency of 0, section
5).

### 2.2 HttpWorker

One queue in one process. A job is `waiting`, `calling` (fetch is under way and
its abort timer, the set `timer`, runs), `body` (the headers are there; the code
returns the promise of the body, so its `finally` has cleared the timer),
`completed` or `failed`; `made` counts its attempts, which BullMQ repeats.
`stalled` are jobs whose body never ends. `worker` is the state of each Worker
object, `inMap` the one in the map, `listener` the object whose close the
listener awaits in `Update` (new before old) and `Remove`. Each signal runs its
own `gracefulShutdown`: `GracefulShutdown` takes its `snapshot` of the map,
then `WorkersClosed`, `CacheCleaned` (a second `quit` may reject), `Exit`, which
stops everything. What the metadata says, and how the listener learns of it, is
in `WorkerRegistry`.

### 2.3 HttpJobs

Each request runs through `Receive` (token), `GetLock` (`authForWorkers` awaits
Redis), `BadName`, `ReadBody` (parse and validation, in the order of the
handler), `Call` (BullMQ's effect and the answer in one step), or one of the
failures. `lock`, `fresh`, `exists` are BullMQ's: jobs are taken by attempts with
new tokens, released, expire and are removed at any moment. `held` is a ghost:
requests whose token held their job's lock since they arrived. Bodies are
sequences of valid and invalid jobs, or unreadable. A queue with a bad name has no
lock that the model knows: `GetLock` may let such a request through, and `BadName`
refuses it.

### 2.4 QueueCache and RecencyCache

`cache` is the JavaScript Map, entries in insertion order; the `Queue` objects
are numbered and `open`, `closing` or `closed`. `getQueue` has no await, so
hit and miss are one action each; `Respond` is the end of a handler that held the
queue. `Clean` empties the map and starts the closes in one step, since every
`remove` deletes before it awaits; requests go on meanwhile. `evicted` (ghost)
are the objects `put` dropped without a close. `RecencyCache` has a set of keys
and the relation "used after"; the refinement gives it the order of the last
`getQueue` calls, kept in the ghost `used`, not the order of the Map: that the Map
evicts by that order is what is checked and proved.

### 2.5 Startup

`env` is which of `REDIS_URL` and `WORKER_METADATA_KEY` are set. Redis keeps a
type per key, the queues `stored` in the hash, those among them whose metadata
`Worker` refuses (`poisoned`), and, as a ghost, those whose last change has no entry
of the stream (`unannounced`). Processes are started one after the other over it
(`Start`), with a connection that is `connecting` or `ready` and may drop.
`LoadLastId` and `LoadWorkers` are the two awaits of `loadWorkers`; a command of
the wrong type fails, and poisoned metadata throws in the data handler of the scan,
after which its promise never settles (`hung`). `AddWorker` and `RemoveWorker` are
the two scripts, which keep their first call when the second, `Announce`, fails.
What the running process does with what is stored is in `WorkerRegistry` and not
here. `KeysInv` says why a start can meet a key of the wrong type: only if hash and
stream share it.

### 2.6 MessageBroker

State: the four tables of the class, JavaScript's live `timers`, and for each id
the promise sendData returned with its value. Actions are the calls `SendData`,
`SendNoAck`, `ProcessMessage`, `CloseBroker` and the callback `Timeout`; `emit`
runs the listener in the same step, as Node's EventEmitter does. `closedAt`
(ghost) is the next id at the last close. The environment may answer any id at
any time, several times, before and after the close; three modules extend this
one and replace the environment by real ends.

### 2.7 WsWorker

Each connection is a broker, a link, the server's side and a BullMQ worker; the
client is one processor behind `instance`, the connection of the moment. A job
goes `waiting`, `fetched` (BullMQ gave it to a worker), `active` (its request is
sent), then `completed`, `failed` or `waiting` again. `down` and `up` are sets:
`send` repeats a refused write after a second, so order is not kept. `LinkFails`
loses what is on its way; `ServerNotices` and `ClientNotices` are independent, so
the client may be back on a new connection while the server still serves the old
one. An answer records the job and the connection its request came from.
`Connect` may leave a broker without a worker (the constructor threw in
`openWorker`, which nobody awaits). BullMQ's side (`Fetch`, retry, `close`
waiting for its jobs) is external and modelled from its use. A `close()` of the
client that throws because there is no instance between two connections changes
nothing, and is no action.

### 2.8 QueueSession

The client of `queue-client.ts`, `utils.ts` and `ws-autoreconnect.ts`:
`connecting` is the promise of the first connection, which every call awaits and
nothing renews, `mb` its one broker, `sock` the sockets it has opened, `instance`
the one in use, `retry` its reconnect timer. A call is `StartCall` (up to its
await), `SendCall` or `RefuseCall` (after it); the guard `Idle` makes promise
continuations run before the next event, as in JavaScript. `OpenFails`,
`Breaks`, `ClientNotices`, `Reconnect`, `UserClose` are the life of a socket. At
the other end each connection has a `queue`; `Receive` and `Finish` are `message`
before and after its await, so a command may finish on a queue that is closing;
one that throws may have had its effect. `ran` counts the effects. The client
takes its broker from the package `@taskforcesh/message-broker`
(`queue-client.ts:2`), whose code is not in the repository; it is taken to be the
broker of the proxy, timer included. `SessionInv` is
made of what holds of the client (`ConnectionInv`), of the calls that are sent
(`SentInv`) and of the messages and commands under way (`UnderWayInv`).

### 2.9 The Go client

`GoWsClient`: calls of `SendWebSocketMessage` as goroutines. Ids and channels are
under `pendingMsgLock`, the write under `writeMutex`, which the deferred unlock
holds until the call returns, so calls are answered one by one. `Read` takes an
answer under `pendingMsgLock` and offers it to an unbuffered channel; `Receive` is
the rendezvous. `Break` is the failure of the connection. An error that the proxy
sends as bare text (`queue.ts:58`) does not fit the reader's struct and is dropped
like a lost message; `AddJob` may fail on what it unmarshals. `GoWorker`: messages
of the proxy are a sequence; `Listen` or `ListenForResponses`, the goroutine every
connection starts, takes the next one, and the second drops it. `Respond` sends what
the Go function returned. The other end is the processor of `worker.ts` over
`MessageBroker`. `GoProgram` runs both: `ProcessAdded` is `Process` of a job that a
call has added.

### 2.10 Requests

`RouteMatcher` has the route tables, `match` (decoded segments, parameters by
position) and `fetchHandler`; `Validators` every test of both validator files over
kinds of value (absent, null, zero, negative, fraction, text, ...);
`QueueCommands` the methods of the Bun client, the schema of `commands.ts`, the
answers of `queue.ts` and how the client reads them: an object `err` for a refused
message, a bare text, possibly empty, for a thrown error, `ok`, or neither field,
since JSON leaves out what is undefined, or no answer at all when what was thrown is
null; the client tests `if (err)`. `WorkerThrows` is what BullMQ's constructor
refuses (external). `Pagination` has the range of a page for statuses that exist,
and Redis's reading of a range. `Requests`
chooses an input in `RequestInit`, and a step answers it; `NextPage` walks on to
the next page. Paths, what `decodeURI` makes of a segment, bodies, lists and pages
are constants. Their assumptions are facts about what they stand for: `decodeURI`
leaves the literals of the patterns alone (`DecodingAssumption`), a path consists
of segments, in JSON only an object has fields beside indices and nothing empty
has any (`RequestAssumption`), the limit is a natural number and NaN is no
integer (`PaginationAssumption`).

## 3. Runs

| run | instance | shows |
|---|---|---|
| `registry_single` | 1 proxy, 2 queues, 2 versions and a poison one, MAXLEN 2, 3 requests, 2 faults, scans that repeat fields | `NoSilentStaleness`: a live process whose worker differs from the hash still has the entry ahead, unless a skip, trim or cleaning took it. `NoLeakedWorker`: a worker comes to run outside the map only when a scan repeats its field, and stays until the process ends. `NoServiceGap`: an update never stops the old worker before the new one runs. `RegistryInv`: types and the invariants the proofs use |
| `registry_replica` | 2 proxies, one of which receives no request; 2 queues, 3 requests, MAXLEN 2; fairness | `ReplicaNeverSkips`: such a proxy handles every entry it reads past. `NoSilentStaleness` with the startup scan of one process racing with the changes of another. `EventuallyConsistent`: in the end every live listener that missed nothing runs what the hash says |
| `registry_skip` | 1 proxy, no faults | counterexample to "notify all listeners about the change" (section 5) |
| `http_worker` | 2 jobs with 2 attempts, a worker and its replacement, 2 signals; fairness | `HttpWorkerInv`: a running job belongs to a worker that is not closed, timers run exactly while headers are awaited, a job completes only with an accepted answer. `NoJobCutByExit`: 'Workers closed' is true of the workers it found. `CallEndsUnlessStalled`, `ExitsUnlessStalled`: only a stalled body holds a job, a listener or the exit |
| `http_jobs` | 2 requests, 2 jobs, 3 tokens, 2 takes | `WritersHeldLock`: progress and logs come from tokens that held the lock of that job. `AllOrNothing`: refused requests wrote nothing, `addJobs` adds all or none. `HttpJobsInv`: order of check and effect |
| `cache` | 3 names, 2 places, 2 requests, 4 queues made | `CacheInv`: bounded, no name twice, no closing queue handed out. `QueuesAccounted`: an open queue is cached or was evicted, so that cleanCache leaves only evicted queues and later ones. `ImplementsRecencyCache` |
| `startup` | 3 starts, 2 drops, 2 queues, every setting of the two variables; fairness | `StartupInv`: a start fails only with its connection or for one of the two variables, and hangs only over metadata that `Worker` refuses; no change of the hash is left unannounced unless the keys are one. `StartsUnlessDropped`: otherwise it ends up serving |
| `ws_worker` | 2 connections, 2 jobs, 2 attempts, concurrency 2, 3 messages a connection | `OwnResult`, `RequestsMatchJobs` |
| `ws_worker_liveness` | the same with 1 attempt and 2 messages; fairness | `EveryJobReturns`, `ClosedClientLeavesNoWorker`; `NoForgottenPromise`: a waiting promise has timer, listener and entry. `IdsAreNotReused`: a settled promise stays as it is. `WsInv`, the invariant of the proofs |
| `session` | 2 calls, 2 connections, 2 brokers available, 2 messages a broker; fairness | `SessionInv`: one connection at a time. `ReturnMeansEffect`: a call gets its own answer, one that returned took effect once, one refused never. `CloseIsFinal`, `EveryCallSettles`, `QueuesEndWithConnections` |
| `go` | 2 calls, whose jobs have 1 attempt; fairness | `GoInv`, `AddedAsReported`: answers go to their calls. `GoWorkerInv`: jobs complete with what their own attempt returned. `ReturnsUnlessLate`: calls return unless the reader stopped on a late answer. `AddedJobsEnd`: jobs end although the wrong goroutine reads |
| `requests` | every path of up to 5 segments from a small alphabet; every kind of value in up to 2 options, each body given to every validator; every command with every fault; lists of up to 5, pages of up to 4 | `RoutingIsSound`: one route, names kept, HTTP handlers only for authorised requests, clients get their controller. `AcceptedIsValid`: what validators let through is of a documented kind, but for the values and fields they do not test. `OutcomeIsTold`: a call resolves exactly when its method ran and did not throw, but for errors without a message. `PagesCoverLists` |

Why the bounds are enough. Registry: staleness needs at most one entry read and
two racing changes of a queue; two queues let an entry of one be skipped by a
reply about the other; three requests exceed MAXLEN 2, so the stream is trimmed
under a slow listener; two faults allow a crash and a second fault after the
restart. The replica needs one writer. HTTP worker: one replacement makes an old
and a new worker, two signals race in the shutdown, the second job waits behind
the first or runs with the other worker. HTTP jobs: the second request overtakes
the first, the second take gives a job to another token. Cache: one name more
than places, one object more than names. Startup: the third start meets what two
processes left. WebSocket worker: crossing answers need two connections and two
jobs; a second attempt lets the same job be asked twice. Session: two calls share
a connection or are separated by a reconnection. Go: two calls contend for each
mutex, and the late answer of one meets the other; an attempt that was given up
meets the next through the second job. Requests: routes have at most five
segments, options are tested one by one and guarded by at most one other, and a
page meets its neighbours and both ends of a list. `Max...` bounds sit in
guards; a state where they are reached only stops the environment.

Deadlock is checked where the system can always go on (`registry_replica`: the
XREAD of a listener that is never stopped times out). Elsewhere the system may
legitimately stop (every process exited, every call returned, every bound used
up), and the cfg says so.

Symmetry is used over queues and good versions in `registry_single`, jobs in
`ws_worker`, requests and jobs in `http_jobs`, never with liveness.

Fairness, and what justifies it. `registry_replica`: Redis serves the commands
of a process, replies reach it, and its event loop goes on; nothing forces a
request, a fault or a start. `http_worker`: abort timers fire, a body ends,
breaks or stalls, promises continue; nothing forces BullMQ, the endpoint's
headers, the registry or a signal. `ws_worker_liveness`: the server's event loop
(timers, continuations, `close`) and Bun reporting a dead or closed socket, which
its idle timeout guarantees; no fairness for the client or the network.
`session`: promise continuations, the broker's timers, the end of a connection
attempt, both ends noticing a dead socket, BullMQ's `Queue.close`; no answer of
the proxy is forced, nor a reconnection. `go`: goroutines of a call go on when they
can, `time.After` fires, BullMQ hands out jobs, the proxy's timers fire, somebody
reads the worker's connection; the processor function and the answers to calls
are not forced. `startup`: Redis is there in the end, and the event loop goes on.

Several properties name an exception, and each is one the code has: `stalled`,
`LateAnswer`, `Refused`, `SharedKey` and `poisoned`, `FieldRepeated`, `Unseen`,
`Untested` and falsy values, an older connection in `OwnResult`, the page 0 .. -1,
`evicted`. An excused case is one the property does not watch. Section 5 says what
lies behind them; without them TLC finds the counterexamples described there.

## 4. Proofs

Every safety and action property that a run checks is also a theorem, for every
value of the constants under the named assumptions. The invariants that are not
inductive by themselves are strengthened as follows.

`WorkerRegistry_proofs`: `TypeCorrect`; `RegistryInvariant` (types, control
states, the batch, the maps, the scan, freshness of HGET); `StalenessAnnounced`
(`NoSilentStaleness`); `ReplicaReadsAll` (`ReplicaNeverSkips`);
`WorkersAccounted` (`NoLeakedWorker`, whatever a scan repeats);
`UpdatesKeepServing` (`NoServiceGap`). Argument: `NoSilentStaleness` alone is not
inductive. What is needed is that an entry which differs from the process's map
lies strictly ahead of its cursor or is the one in hand with an HGET that will
answer, or has answered, no older value than that entry announced; that during
startup the field is still to be scanned or its entry is newer than the id taken
before; and that replies in the pipeline carry ids of entries that exist.
`RegistryInv` has the first parts, and each part its own lemma per action.
`NoServiceGap` follows from the maps: an old worker is closed after the new one
is in the map, so the last open one goes only in a removal or at an end.

`MessageBroker_proofs`: `BrokerInvariant`, `PromisesAccounted`, `CloseSettles`,
`SettledForGood`. `BrokerInv` is inductive: the waiting promises, the timers and
the pending entries are one set, and the ids not yet given out are in no table.
`WsWorker`, `QueueSession` and `GoProgram` implement `BrokerSpec`
(`ImplementsBroker`, `SessionUsesBroker`, `WorkerUsesBroker`): each of their steps
is a step of the brokers or leaves them alone. Their proofs use `BrokerInv` by
that way and never look into the broker again.

`WsWorker_proofs`: `WsInvariant`, `OwnResults`, `RequestsMatch`, `WsTypes`, and
`PromisesAccountedInWorkers`. `OwnResult` is not inductive: an answer may be in
the network, in the client's processor or in a settled promise long before the
job reads it. `Provenance` follows it on this way: a message to the client fits
the job that waits under its id, an answer on the way or in a promise comes from an
older connection than the one it came through, or fits the waiting job. That
stays true because ids only grow (`Asked`, `FreshIdsUnused`), and it holds at the
client because its instance is its newest connection (`InOrder`). `WsInv` is the
conjunction.

`QueueSession_proofs`: `SessionInvariant` (`SessionInv`), `AnsweredAsRun`
(`ReturnMeansEffect`), `ClosedForGood` (`CloseIsFinal`). The inductive invariant
is `SessionInv`, `ReturnMeansEffect` and `BrokerInv`. An answer is of the call
that has its id since a call keeps its id, all calls share the one broker of the
session, and no call has an id that is not given out (`SentInv`, with
`FreshIdsUnused` of the broker). It took effect once since a command is either on
its way or running, as one copy, and has not run while it is (`UnderWayInv`).
`CloseIsFinal` needs that a client which never connected has no socket and no
retry, and a stopped one neither (`ConnectionInv`).

`GoProgram_proofs`: `CallsAccounted` (`GoInv`), `JobsAreAdded`
(`AddedAsReported`), `JobsGetOwnAnswers` (`GoWorkerInv`), for any number of
goroutines and messages. `GoInv` is inductive by itself: ids grow under the lock,
everything under an id is of its call, and who is in its select holds
`writeMutex`. In `GoWorkerInv`, `AnswersByOwner` says that what travels under an
id is of the job that id was given out for, or that no job asks for it any more;
this holds although a message may be taken by the goroutine that drops it, and
although an attempt that was given up may still answer. `AddedAsReported` needs
that a call has no outcome before it returns, nor a job while its request is still
on the way (`NoneEarly`).

`Process_proofs`: `WorkersOfJobs` (`HttpWorkerInv`), `ExitCutsNone`
(`NoJobCutByExit`), `StartsAndLeavesWhole` (`StartupInv`). For `HttpWorker` the
invariant adds that attempts are left for a job that waits, that a body belongs to
an accepted answer, and `WaitedFor`: what a shutdown has waited for stays closed.
The exit then cuts nothing since a running job has a worker that is not closed.
Steps of jobs and steps of workers are separated (`JobInv`, `ProcInv`), so that
each lemma looks at half the state. `StartupInv` is inductive: `KeysInv` carries
the types of the two keys from one process to the next, so neither a command of a
start nor the second call of a script meets a key of the wrong type.

`HttpRequests_proofs`: `RequestsInOrder` (`HttpJobsInv`), `WritersHeld`
(`WritersHeldLock`), `NothingInPart` (`AllOrNothing`). What has to be carried from
await to await: a request at the lock that would be let through was seen to hold
it (`LockSeen`: tokens are fresh, so a lock that fits now was taken after the
request came, or before and seen), a body at the call was accepted
(`BodyChecked`), and nobody is answered before the end (`Unanswered`).

The same module has the operators behind a request. `RequestInvariant` says what
input and output are in every state; on it rest

* `RequestsAreRouted` (`RoutingIsSound`), for paths of any length and any
  segments: each of the twelve patterns is written out (`RouteTable`,
  `PatternTable`), any two of them differ in length, method or a literal
  (`Separate`), and a path that fits one has the parameters at its places
  (`ParamsAreDecoded`);
* `ValidatorsAreSound` (`AcceptedIsValid`), for any values: a lemma per validator,
  and that only an empty concurrency or maxStalledCount poisons the registry
  (`PoisonIsEmpty`);
* `OutcomesAreTold` (`OutcomeIsTold`), for any methods and kinds of argument: what
  the schema lets run, what JSON leaves of the answer and what the client tests
  agree, but for `Unseen`;
* `PagesCover` (`PagesCoverLists`), for lists of any length and any limit. It
  needs `Walked`: a walk has seen consecutive entries up to the end of the page it
  is at, or of the list, and nothing only if the list ended before.

`QueueCache_proofs`: `CacheInvariant` (`CacheInv`), `NoQueueLost`
(`QueuesAccounted`), `Refinement` (`ImplementsRecencyCache`), over facts about
`RemoveAt`, `Tail` and `Append` stated as lemmas. The invariant adds that cached
and evicted objects are apart and made, that objects not yet made are open, that
during the clean only later objects are cached, and that none is still closing at
its end. The refinement needs `RecentLast`: the entries stand in the order of the
last uses. It assumes `Capacity > 0`; the default is 100 (`config.ts:14`), and
with 0 `put` finds nothing to evict in the empty Map, never compares equal again,
and the Map grows without bound.

Two of the proofs corrected the model. A limiter may have fields of its own, which
`validateLimiter` does not look at: a first form of `AcceptedIsValid` that gave
every nested field a kind was false for a limiter with an `id`, and TLC now has such
a body. `CacheInv` lacked the order of the Map.

Only model-checked: liveness (`EventuallyConsistent`, `EveryJobReturns`,
`ClosedClientLeavesNoWorker`, `CallEndsUnlessStalled`, `ExitsUnlessStalled`,
`EveryCallSettles`, `QueuesEndWithConnections`, `ReturnsUnlessLate`,
`AddedJobsEnd`, `StartsUnlessDropped`). Liveness under fairness and ENABLED are out of
TLAPS's reach. So is induction over data (the library's induction theorems take an
operator); no model here computes by recursion, and what is said of walks and
routes is an invariant of steps or a case analysis over a finite table. No module
that is proved about has a RECURSIVE operator.

## 5. Where the code departs from its documents

One disagreement is kept as a run, `registry_skip`. A handler assigns
`lastEventId` (`worker-http-controller.ts` lines 259, 309) while the listener is
between two XREADs (it waits for HGET, for the close of an old worker, or has just
taken a nil reply). The next XREAD starts after the new entry, and the proxy that
received the request never acts on it. The comment on line 249 says all listeners
are notified.

The others are what the exceptions in the properties and the assumptions of the
theorems stand for. Each was found as a counterexample to the property without
its exception, or read off an operator:

* HSCAN may return a field twice (`FieldRepeated`); `loadWorkers` then overwrites
  the worker in the map, which keeps running (line 201), although "Only one worker
  per queue is allowed".
* A signal while the listener waits for HGET: it makes a worker after the shutdown
  closed the workers (line 24). A worker that is being replaced is out of the map:
  the exit cuts its jobs.
* `response.json()` is returned without await (lines 59-61), so the timer is
  cleared at the headers; a body that stalls holds job, worker and shutdown.
  `worker-endpoint.ts:24` says the job fails at the timeout.
* `authForWorkers` compares the lock once (line 40); progress and logs may be
  written after the lock went to another worker.
* Eviction calls no callback (`cache.ts:39`) and requests refill the cache while
  `cleanCache` runs (`index.ts:78`): those queues are not closed, while
  `queue-factory.ts:21` says "Closes all queues and clears the cache."
* `length=0` with `start=0` asks for 0 .. -1, the whole list
  (`queue-http-controller.ts:85`), against the limit of 100.
* The clients' examples use paths without the prefix `/ws` and get 404
  (`clients/bun/test/test.ts:7`, `clients/golang/tests/queue_test.go:13`).
* `openQueueEvents` subscribes to `ws.data.events` (`queue-events.ts:36`), which no
  upgrade sets: no event is sent.
* A numeric `backoff` is always refused (`queue.validators.ts:99`), though the
  message says it may be a number. `removeOnComplete` and `removeOnFail` of a job are
  not tested at all (lines 138-180).
* An empty concurrency or maxStalledCount (0, null, ...) passes
  (`workers.validators.ts:86`) and makes BullMQ's constructor throw: in a listener,
  which dies of it, and in the HSCAN handler of every later start (line 201), which
  then waits for ever. Line 227 says the metadata are stored "so that the workers are
  re-instantiated after a restart".
* The schema of `commands.ts` lacks `getWorkers`, `getJobLogs`, `updateJobProgress`
  and `addJobLog`, takes no arguments for `getJobCounts` and no null options for `add`.
  An error of a method is sent as bare text (`queue.ts:58`), which the Bun client
  reports as "undefined" and the Go client drops; one with an empty or no message
  resolves the call of the Bun client as if it had succeeded.
* A first connection that fails leaves a rejected promise that every later call of
  the Bun client awaits (`queue-client.ts:54`), though the socket reconnects.
* A late answer stops the Go reader on an unbuffered channel with
  `pendingMsgLock` held (`wsclient.go:88-90`): later calls never return.
* `listenForResponses` reads the Go worker's connection too (`wsclient.go:75-77`)
  and drops job messages; those jobs fail by the proxy's timeouts.
* `workerMetadataStream` is read from `WORKER_METADATA_KEY` (`config.ts:19`): when it
  is set, hash and stream are one key, and no proxy starts again on it.
* With `REDIS_URL` the connection has no offline queue (`index.ts:17`), and the first
  command of a start is refused before it is ready.

## 6. Plan

Done: the modules above. What is worth doing next:

1. An abstract `ReplicatedRegistry` (a register per queue and a replica that
   follows it) with `WorkerRegistry` as its implementation.
2. Composition of `WorkerRegistry` and `HttpWorker` for one process, so that a
   replacement waits for real jobs.
3. The answers of the registry's handlers (404 against 500 in `removeWorker`).

## 7. Not modelled

Logging, banner and interfaces keep no state; tests and benchmarks only drive the
system, and were read as statements of what it should do. The handlers of queue
events are unreachable as long as nothing is subscribed (section 5); the events
client only emits what it receives. BullMQ, ioredis, Redis, Bun and the Go
WebSocket library are modelled only by what the code here uses of them; the panic
of that library on repeated reads of a failed connection is left out.
`messageTimeouts` grows for the life of a connection; nothing in the repository
bounds it, so there is no property about it. Regular expressions of routes are
modelled as their effect on segments, JSON as records.

To run: `tlc -config registry_single.cfg MCWorkerRegistry` and so on (the module
of each run is in PROJECT.json); `tlapm WorkerRegistry_proofs.tla`.
