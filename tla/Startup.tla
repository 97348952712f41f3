------------------------------- MODULE Startup -------------------------------
(***************************************************************************)
(* The start of a proxy (index.ts, startProxy, WorkerHttpController.init)  *)
(* under its configuration (config.ts): with REDIS_URL the connection has  *)
(* no offline queue, and WORKER_METADATA_KEY names the hash and the        *)
(* stream.  Redis and its two keys outlive the processes, which are        *)
(* started one after the other: what one stores, the next one starts from. *)
(* What a proxy does with a stored worker is in WorkerRegistry.            *)
(***************************************************************************)
EXTENDS Integers

CONSTANTS
  Queue,      \* queue names
  MaxStarts,  \* bound: processes started
  MaxDrops    \* bound: failures of the connection

ASSUME BoundAssumption == MaxStarts \in Nat /\ MaxDrops \in Nat

VARIABLES
  env,         \* which of REDIS_URL and WORKER_METADATA_KEY are set
  type,        \* the Redis type of each key
  stored,      \* queues with metadata in the hash
  poisoned,    \* those whose metadata the validator took and Worker refuses
  unannounced, \* queues whose last change of the hash has no stream entry
  link,        \* the state of the connection
  dropped,     \* the connection failed during this start
  proxy,       \* off, loading, scanning, running, failed, hung
  starts, drops

redisVars == <<type, stored, poisoned, unannounced>>
startupVars == <<env, redisVars, link, dropped, proxy, starts, drops>>

\* Mutant: the two keys share a default.
SameKey == "metadata"

workerMetadataKey    == IF "WORKER_METADATA_KEY" \in env THEN "configured" ELSE "metadata"
workerMetadataStream == IF "WORKER_METADATA_KEY" \in env THEN "configured" ELSE "stream"

Key == {"configured", "metadata", "stream"}

StartupInit ==
  /\ env \in SUBSET {"REDIS_URL", "WORKER_METADATA_KEY"}
  /\ type = [k \in Key |-> "none"]
  /\ stored = {} /\ poisoned = {} /\ unannounced = {}
  /\ link = "connecting" /\ dropped = FALSE
  /\ proxy = "off"
  /\ starts = 0 /\ drops = 0

-----------------------------------------------------------------------------
\* enableOfflineQueue: a command waits for a connection that is not ready.
OfflineQueue == "REDIS_URL" \notin env

\* index.ts: startProxy, whose first command is sent before the connection is
\* ready.
Start ==
  /\ proxy = "off" /\ starts < MaxStarts
  /\ starts' = starts + 1
  /\ link' = "connecting" /\ dropped' = FALSE
  /\ proxy' = IF OfflineQueue THEN "loading" ELSE "failed"
  /\ UNCHANGED <<env, redisVars, drops>>

Ready ==
  /\ link = "connecting" /\ proxy # "off"
  /\ link' = "ready"
  /\ UNCHANGED <<env, redisVars, dropped, proxy, starts, drops>>

\* The connection drops or cannot be made; retryStrategy tries again.
ConnectionDrops ==
  /\ proxy # "off" /\ drops < MaxDrops
  /\ link' = "connecting" /\ dropped' = TRUE
  /\ drops' = drops + 1
  /\ UNCHANGED <<env, redisVars, proxy, starts>>

\* maxRetriesPerRequest of a command that waits: startProxy rejects, the error
\* is logged and the process stays.
GivesUp ==
  /\ proxy \in {"loading", "scanning"} /\ link = "connecting" /\ dropped
  /\ proxy' = "failed"
  /\ UNCHANGED <<env, redisVars, link, dropped, starts, drops>>

Is(key, kind) == type[key] \in {"none", kind}

\* loadWorkers: XREVRANGE, which a key of another type refuses.
LoadLastId ==
  /\ proxy = "loading" /\ link = "ready"
  /\ proxy' = IF Is(workerMetadataStream, "stream") THEN "scanning" ELSE "failed"
  /\ UNCHANGED <<env, redisVars, link, dropped, starts, drops>>

\* loadWorkers: HSCAN.  A Worker that throws throws in the data handler: the
\* scan is not read on, neither end nor error comes, and nothing after the
\* await is reached.  Otherwise the listener starts and the server listens.
LoadWorkers ==
  /\ proxy = "scanning" /\ link = "ready"
  /\ proxy' = IF ~Is(workerMetadataKey, "hash") THEN "failed"
              ELSE IF poisoned # {} THEN "hung" ELSE "running"
  /\ UNCHANGED <<env, redisVars, link, dropped, starts, drops>>

\* XADD, the second call of both scripts, once the first has left the types t
\* and changed the metadata of q: what fails here does not undo the first.
Announce(t, q) ==
  IF t[workerMetadataStream] \in {"none", "stream"}
  THEN /\ type' = [t EXCEPT ![workerMetadataStream] = "stream"]
       /\ unannounced' = unannounced \ {q}
  ELSE /\ type' = t
       /\ unannounced' = unannounced \cup {q}

\* updateWorkerMetadata: HSET, then XADD.
AddWorker(q) ==
  /\ proxy = "running" /\ link = "ready" /\ Is(workerMetadataKey, "hash")
  /\ stored' = stored \cup {q}
  /\ \E refused \in BOOLEAN :
       poisoned' = IF refused THEN poisoned \cup {q} ELSE poisoned \ {q}
  /\ Announce([type EXCEPT ![workerMetadataKey] = "hash"], q)
  /\ UNCHANGED <<env, link, dropped, proxy, starts, drops>>

\* removeWorkerMetadata: HDEL, with whose last field the key goes, then XADD.
RemoveWorker(q) ==
  /\ proxy = "running" /\ link = "ready" /\ q \in stored
  /\ stored' = stored \ {q} /\ poisoned' = poisoned \ {q}
  /\ Announce(IF stored' = {} THEN [type EXCEPT ![workerMetadataKey] = "none"] ELSE type, q)
  /\ UNCHANGED <<env, link, dropped, proxy, starts, drops>>

Stop ==
  /\ proxy # "off"
  /\ proxy' = "off"
  /\ UNCHANGED <<env, redisVars, link, dropped, starts, drops>>

StartupNext ==
  \/ Start \/ Ready \/ ConnectionDrops \/ GivesUp
  \/ LoadLastId \/ LoadWorkers
  \/ \E q \in Queue : AddWorker(q) \/ RemoveWorker(q)
  \/ Stop

StartupSpec == StartupInit /\ [][StartupNext]_startupVars

\* Redis is there in the end, and the event loop goes on.
FairStartupSpec ==
  /\ StartupSpec
  /\ WF_startupVars(Ready) /\ WF_startupVars(LoadLastId) /\ WF_startupVars(LoadWorkers)

-----------------------------------------------------------------------------
\* Two ways to configure a proxy have their price.  With REDIS_URL the first
\* command is refused before the connection is ready (index.ts:14-18); with
\* WORKER_METADATA_KEY the hash and the stream are one key (config.ts:18-19).
Refused   == "REDIS_URL" \in env
SharedKey == "WORKER_METADATA_KEY" \in env

\* A start fails only when its own connection did or for those two reasons, and
\* hangs only over stored metadata that Worker refuses: nothing else that
\* earlier processes leave in Redis keeps a later one from starting.
StartsAgain ==
  /\ proxy = "failed" => dropped \/ Refused \/ SharedKey
  /\ proxy = "hung" => poisoned # {}

\* worker-http-controller.ts:249, "Upsert worker metadata and notify all
\* listeners about the change": no change of the hash, by either script, is
\* left without an entry of the stream, unless the keys are one.
ChangesAreAnnounced == unannounced = {} \/ SharedKey

\* Keys of their own keep their types, and a process that got further than its
\* first command was not refused it.
KeysInv ==
  /\ SharedKey \/ (Is(workerMetadataKey, "hash") /\ Is(workerMetadataStream, "stream"))
  /\ Refused => proxy \in {"off", "failed"}

\* Types, and the three above: what a start relies on, and what it leaves behind
\* (index.ts, loadWorkers, updateWorkerMetadata, removeWorkerMetadata).
StartupInv ==
  /\ env \subseteq {"REDIS_URL", "WORKER_METADATA_KEY"}
  /\ type \in [Key -> {"none", "hash", "stream"}]
  /\ poisoned \subseteq stored /\ stored \subseteq Queue /\ unannounced \subseteq Queue
  /\ link \in {"connecting", "ready"} /\ dropped \in BOOLEAN
  /\ proxy \in {"off", "loading", "scanning", "running", "failed", "hung"}
  /\ starts \in 0 .. MaxStarts /\ drops \in 0 .. MaxDrops
  /\ KeysInv /\ StartsAgain /\ ChangesAreAnnounced

\* A process that is started ends up serving or is stopped, unless its connection
\* failed, its configuration is one of the two, or the hash holds metadata that
\* Worker refuses (index.ts, loadWorkers).
StartsUnlessDropped ==
  proxy # "off" ~> \/ proxy \in {"running", "off"}
                   \/ dropped \/ Refused \/ SharedKey \/ poisoned # {}
=============================================================================
