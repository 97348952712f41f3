----------------------------- MODULE QueueCache -----------------------------
(***************************************************************************)
(* The cache of Queue objects the HTTP handlers share: the LRUCache class  *)
(* (src/cache.ts) as src/utils/queue-factory.ts uses it, with the requests *)
(* that keep a Queue over their awaits and the shutdown that cleans it.    *)
(***************************************************************************)
EXTENDS Integers, SequencesExt, FiniteSets

CONSTANTS
  Name,      \* queue names
  Capacity,  \* config.queueCacheSize
  Request,   \* requests being served at a time
  NoQueue,   \* a request that holds no Queue
  MaxMade    \* bound: Queue objects made

ASSUME CacheAssumption ==
  Capacity \in Nat /\ MaxMade \in Nat /\ NoQueue \notin 1 .. MaxMade

VARIABLES
  cache,    \* the entries of the Map, in insertion order
  made,     \* Queue objects made so far: 1 .. made
  state,    \* of each of them: open, closing, closed
  using,    \* the Queue a request works with
  cleaning, \* cleanCache: no, running, done
  before,   \* ghost: objects made when cleanCache was called
  evicted,  \* ghost: objects put() dropped from the cache
  used      \* ghost: names in the order of their last getQueue

vars == <<cache, made, state, using, cleaning, before, evicted, used>>

Object == 1 .. MaxMade
Entry  == [key : Name, value : Object]

Init ==
  /\ cache = <<>>
  /\ made = 0
  /\ state = [o \in Object |-> "open"]
  /\ using = [r \in Request |-> NoQueue]
  /\ cleaning = "no"
  /\ before = 0
  /\ evicted = {}
  /\ used = <<>>

Values(entries) == {entries[i].value : i \in DOMAIN entries}

Entries   == {cache[i] : i \in DOMAIN cache}
Cached(k) == {e \in Entries : e.key = k}

\* delete: the entry of a key, which a Map has at most once.
Without(entries, k) ==
  IF \E i \in DOMAIN entries : entries[i].key = k
  THEN RemoveAt(entries, CHOOSE i \in DOMAIN entries : entries[i].key = k)
  ELSE entries

\* Mutant: a hit leaves the entry where it is.
GetInPlace(e) == cache

\* Mutant: the value is read after the key was deleted.
GetAfterDelete(e) ==
  Append(Without(cache, e.key), [e EXCEPT !.value = NoQueue])

\* get: delete and set move the entry to the end of the Map.
Get(e) == Append(Without(cache, e.key), e)

\* Mutant: evicts when the size has passed the capacity.
EvictLate(entries) ==
  IF Len(entries) > Capacity THEN Tail(entries) ELSE entries

\* The first entry goes when the size equals the capacity; an empty Map has
\* no first key.  Its removeCallback is not called.
Evict(entries) ==
  IF Len(entries) = Capacity /\ entries # <<>> THEN Tail(entries) ELSE entries

\* put.
Put(e) == Append(Evict(Without(cache, e.key)), e)

\* getQueue was called with name n.
Used(n) ==
  used' = Append(IF n \in Range(used)
                 THEN RemoveAt(used, CHOOSE i \in DOMAIN used : used[i] = n) ELSE used, n)

-----------------------------------------------------------------------------
\* getQueue of a request that finds the queue.
GetHit(r, e) ==
  /\ using[r] = NoQueue
  /\ e \in Entries
  /\ cache' = Get(e)
  /\ using' = [using EXCEPT ![r] = e.value]
  /\ Used(e.key)
  /\ UNCHANGED <<made, state, cleaning, before, evicted>>

\* getQueue of a request that does not: a new Queue enters the cache.
GetMiss(r, n) ==
  /\ using[r] = NoQueue
  /\ Cached(n) = {}
  /\ made < MaxMade
  /\ made' = made + 1
  /\ cache' = Put([key |-> n, value |-> made'])
  /\ using' = [using EXCEPT ![r] = made']
  /\ evicted' = evicted \cup (Values(cache) \ Values(cache'))
  /\ Used(n)
  /\ UNCHANGED <<state, cleaning, before>>

\* The last await of the handler is over.
Respond(r) ==
  /\ using[r] # NoQueue
  /\ using' = [using EXCEPT ![r] = NoQueue]
  /\ UNCHANGED <<cache, made, state, cleaning, before, evicted, used>>

\* Mutant: remove awaits the callback before it deletes the key.
RemoveLater == cache

\* remove of every key: deleted before the callback is called.
RemoveAll == <<>>

\* Mutant: the value is looked up after its key was deleted.
RemovedNone == {}

\* The queues whose close begins.
Removed == Values(cache)

\* cleanCache during gracefulShutdown; the server goes on taking requests.
Clean ==
  /\ cleaning = "no"
  /\ cleaning' = "running"
  /\ before' = made
  /\ cache' = RemoveAll
  /\ state' = [o \in Object |->
                 IF o \in Removed THEN "closing" ELSE state[o]]
  /\ UNCHANGED <<made, using, evicted, used>>

\* queue.close() resolves.
QueueClosed(o) ==
  /\ state[o] = "closing"
  /\ state' = [state EXCEPT ![o] = "closed"]
  /\ UNCHANGED <<cache, made, using, cleaning, before, evicted, used>>

\* Promise.all of clear; what follows closes the connections and exits.
CleanDone ==
  /\ cleaning = "running"
  /\ \A o \in Object : state[o] # "closing"
  /\ cleaning' = "done"
  /\ UNCHANGED <<cache, made, state, using, before, evicted, used>>

Next ==
  /\ cleaning # "done"
  /\ \/ \E r \in Request : \/ Respond(r)
                           \/ \E e \in Entries : GetHit(r, e)
                           \/ \E n \in Name : GetMiss(r, n)
     \/ Clean
     \/ \E o \in Object : QueueClosed(o)
     \/ CleanDone

Spec == Init /\ [][Next]_vars

-----------------------------------------------------------------------------
\* Every variable has its type.
TypeOK ==
  /\ cache \in Seq(Entry)
  /\ made \in 0 .. MaxMade
  /\ state \in [Object -> {"open", "closing", "closed"}]
  /\ using \in [Request -> Object \cup {NoQueue}]
  /\ cleaning \in {"no", "running", "done"}
  /\ before \in 0 .. made
  /\ evicted \subseteq 1 .. made
  /\ used \in Seq(Name)

(***************************************************************************)
(* A positive capacity bounds the Map and no name is in it twice, so that  *)
(* two requests for one queue do not get two objects while it stays cached *)
(* (cache.ts:32-43, queue-factory.ts:11-18).                               *)
(***************************************************************************)
Bounded ==
  /\ Capacity > 0 => Len(cache) <= Capacity
  /\ \A i, j \in DOMAIN cache : cache[i].key = cache[j].key => i = j

(***************************************************************************)
(* getQueue never hands out a Queue that is being closed: a queue leaves   *)
(* the cache before its close begins, also while cleanCache waits          *)
(* (cache.ts:45-51).                                                       *)
(***************************************************************************)
CachedQueuesAreOpen == \A e \in Entries : state[e.value] = "open"

\* The last getQueue of j was before that of k.
Earlier(j, k) == \E p, q \in DOMAIN used : p < q /\ used[p] = j /\ used[q] = k

(***************************************************************************)
(* The entries of the Map stand in the order of the last getQueue of their *)
(* names, so that its first key is the one to evict (cache.ts:20-43).      *)
(***************************************************************************)
RecentLast ==
  /\ \A p, q \in DOMAIN used : used[p] = used[q] => p = q
  /\ \A i \in DOMAIN cache : \E p \in DOMAIN used : used[p] = cache[i].key
  /\ \A i, j \in DOMAIN cache : i < j => Earlier(cache[i].key, cache[j].key)

\* What holds of the cache between any two awaits (LRUCache, getQueue).
CacheInv == TypeOK /\ Bounded /\ CachedQueuesAreOpen /\ RecentLast

Held == {e.key : e \in Entries}

(***************************************************************************)
(* Evicting the first key of the Map evicts the queue whose last getQueue  *)
(* is the longest ago, whatever hits and misses came before: the cache     *)
(* implements RecencyCache (cache.ts:20-43).                               *)
(***************************************************************************)
Recency == INSTANCE RecencyCache WITH
  Key   <- Name,
  held  <- Held,
  after <- {p \in Held \X Held : Earlier(p[1], p[2])}

ImplementsRecencyCache == Recency!Spec

(***************************************************************************)
(* No Queue is lost otherwise than by eviction: one that is open is in the *)
(* cache, where cleanCache finds it, or was evicted, and nothing closes it *)
(* then; so that what cleanCache leaves open was evicted, or was made by a *)
(* request after it had begun (cache.ts:36-57, index.ts:78).               *)
(***************************************************************************)
QueuesAccounted ==
  /\ \A o \in 1 .. made : state[o] = "open" <=> o \in Values(cache) \cup evicted
  /\ cleaning = "done" =>
       \A o \in 1 .. made : state[o] = "closed" \/ o \in evicted \/ o > before
=============================================================================
