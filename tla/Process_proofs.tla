--------------------------- MODULE Process_proofs ---------------------------
(***************************************************************************)
(* Proofs about one process of the proxy: its jobs with their workers and  *)
(* its shutdown (HttpWorker), for any jobs, workers, signals, attempts and *)
(* concurrency, and its start (Startup), for any queues and bounds.        *)
(*                                                                         *)
(* Inv adds to JobsAndWorkers what a later step relies on: attempts are    *)
(* left for a job that waits, a body is that of an accepted answer, and    *)
(* what a shutdown has waited for stays closed.  StartupInv is inductive   *)
(* as it stands: a start can fail at a key only if some process gave it    *)
(* another type, which needs a shared key (KeysInv).                       *)
(***************************************************************************)
EXTENDS HttpWorker, Startup, TLAPS

AttemptsLeft   == \A j \in Job : job[j] = "waiting" => made[j] < Attempts
BodyIsAccepted == \A j \in Job : job[j] \in {"body", "completed"} => answer[j] = "ok"
WaitedFor      ==
  \A s \in Signal : shutdown[s] \in {"cache", "quit", "rejected", "exited"} =>
    \A w \in snapshot[s] : worker[w] = "closed"

Inv == JobsAndWorkers /\ AttemptsLeft /\ BodyIsAccepted /\ WaitedFor

USE WorkerAssumption

\* The initial state satisfies the invariant.
LEMMA InitInv == Init => Inv
BY DEF Init, Inv, JobsAndWorkers, TypeOK, TimerWhileCalling, RunningJobsHaveWorkers,
       OpenIsInMap, AttemptsLeft, BodyIsAccepted, WaitedFor

\* The steps of a job leave the workers and the shutdowns alone.
JobInv == /\ job \in [Job -> {"waiting", "calling", "body", "completed", "failed"}]
          /\ by \in [Job -> Worker \cup {None}]
          /\ made \in [Job -> 0 .. Attempts]
          /\ timer \subseteq Job
          /\ answer \in [Job -> {"none", "ok", "refused"}]
          /\ stalled \subseteq Job
          /\ TimerWhileCalling /\ RunningJobsHaveWorkers
          /\ AttemptsLeft /\ BodyIsAccepted

LEMMA JobPart ==
  ASSUME Inv, JobInv', UNCHANGED procVars
  PROVE  Inv'
BY DEF Inv, JobInv, JobsAndWorkers, TypeOK, OpenIsInMap, WaitedFor, procVars

LEMMA FetchInv ==
  ASSUME Inv, NEW j \in Job, NEW w \in Worker, Fetch(j, w)
  PROVE  Inv'
<1>1. made[j] < Attempts
  BY DEF Fetch, Inv, AttemptsLeft
<1>2. made[j] + 1 \in 0 .. Attempts
  BY <1>1 DEF Inv, JobsAndWorkers, TypeOK
<1>3. JobInv'
  BY <1>2 DEF Fetch, SetTimer, JobInv, Inv, JobsAndWorkers, TypeOK, TimerWhileCalling,
              RunningJobsHaveWorkers, AttemptsLeft, BodyIsAccepted, procVars
<1> QED BY <1>3, JobPart DEF Fetch

\* An attempt that failed: the job waits again or has failed.
LEMMA ThrowInv ==
  ASSUME Inv, NEW j \in Job, job[j] \in {"calling", "body"}, Throw(j),
         UNCHANGED <<made, stalled, procVars>>,
         answer' \in [Job -> {"none", "ok", "refused"}],
         \A k \in Job \ {j} : answer'[k] = answer[k]
  PROVE  Inv'
<1>1. JobInv'
  BY DEF Throw, JobInv, Inv, JobsAndWorkers, TypeOK, TimerWhileCalling,
         RunningJobsHaveWorkers, AttemptsLeft, BodyIsAccepted, procVars
<1> QED BY <1>1, JobPart

LEMMA HeadersInv ==
  ASSUME Inv, NEW j \in Job, NEW status \in {"ok", "refused"}, Headers(j, status)
  PROVE  Inv'
<1>1. CASE status \in Accepted(j)
  <2>1. JobInv'
    BY <1>1 DEF Headers, Accepted, JobInv, Inv, JobsAndWorkers, TypeOK, TimerWhileCalling,
                RunningJobsHaveWorkers, AttemptsLeft, BodyIsAccepted, procVars
  <2> QED BY <2>1, JobPart DEF Headers
<1>2. CASE status \notin Accepted(j)
  <2>1. answer' \in [Job -> {"none", "ok", "refused"}] /\ \A k \in Job \ {j} : answer'[k] = answer[k]
    BY DEF Headers, Inv, JobsAndWorkers, TypeOK
  <2> QED BY <1>2, <2>1, ThrowInv DEF Headers
<1> QED BY <1>1, <1>2

LEMMA FetchRejectsInv ==
  ASSUME Inv, NEW j \in Job, FetchRejects(j)
  PROVE  Inv'
<1>1. answer \in [Job -> {"none", "ok", "refused"}]
  BY DEF Inv, JobsAndWorkers, TypeOK
<1> QED BY <1>1, ThrowInv DEF FetchRejects

LEMMA ProcessorInv ==
  ASSUME Inv, NEW j \in Job, Processor(j)
  PROVE  Inv'
<1>0. answer \in [Job -> {"none", "ok", "refused"}]
  BY DEF Inv, JobsAndWorkers, TypeOK
<1>1. CASE Abort(j)
  BY <1>1, FetchRejectsInv DEF Abort
<1>2. CASE BodyEnds(j)
  <2>1. JobInv'
    BY <1>2 DEF BodyEnds, JobInv, Inv, JobsAndWorkers, TypeOK, TimerWhileCalling,
                RunningJobsHaveWorkers, AttemptsLeft, BodyIsAccepted, procVars
  <2> QED BY <1>2, <2>1, JobPart DEF BodyEnds
<1>3. CASE BodyFails(j)
  BY <1>0, <1>3, ThrowInv DEF BodyFails
<1>4. CASE BodyStalls(j)
  <2>1. JobInv'
    BY <1>4 DEF BodyStalls, JobInv, Inv, JobsAndWorkers, TypeOK, TimerWhileCalling,
                RunningJobsHaveWorkers, AttemptsLeft, BodyIsAccepted, procVars
  <2> QED BY <1>4, <2>1, JobPart DEF BodyStalls
<1> QED BY <1>1, <1>2, <1>3, <1>4 DEF Processor

-----------------------------------------------------------------------------
\* The steps of the process leave the jobs alone; they may tell a worker to
\* close, and close one only when it has no active job.
ProcInv == /\ worker \in [Worker -> {"none", "open", "closing", "closed"}]
           /\ inMap \in Worker \cup {None}
           /\ listener \in Worker \cup {"idle", "stopped"}
           /\ shutdown \in [Signal -> {"none", "workers", "cache", "quit", "rejected", "exited"}]
           /\ snapshot \in [Signal -> SUBSET Worker]
           /\ OpenIsInMap /\ WaitedFor

LEMMA ProcPart ==
  ASSUME Inv, ProcInv', UNCHANGED jobVars,
         \A w \in Worker : worker[w] \in {"open", "closing"} =>
           worker'[w] \in {"open", "closing"} \/ Active(w) = {}
  PROVE  Inv'
<1>1. RunningJobsHaveWorkers'
  BY DEF Inv, JobsAndWorkers, RunningJobsHaveWorkers, Active, jobVars
<1> QED BY <1>1 DEF Inv, ProcInv, JobsAndWorkers, TypeOK, TimerWhileCalling, AttemptsLeft,
                    BodyIsAccepted, jobVars

LEMMA UpdateInv ==
  ASSUME Inv, NEW w \in Worker, Update(w)
  PROVE  Inv'
<1>1. ProcInv'
  BY DEF Update, Closing, ProcInv, Inv, JobsAndWorkers, TypeOK, OpenIsInMap, WaitedFor
<1>2. \A v \in Worker : worker[v] \in {"open", "closing"} => worker'[v] \in {"open", "closing"}
  BY DEF Update, Closing, Inv, JobsAndWorkers, TypeOK
<1> QED BY <1>1, <1>2, ProcPart DEF Update

LEMMA RemoveInv ==
  ASSUME Inv, Remove
  PROVE  Inv'
<1>1. ProcInv'
  BY DEF Remove, Closing, ProcInv, Inv, JobsAndWorkers, TypeOK, OpenIsInMap, WaitedFor
<1>2. \A v \in Worker : worker[v] \in {"open", "closing"} => worker'[v] \in {"open", "closing"}
  BY DEF Remove, Closing, Inv, JobsAndWorkers, TypeOK
<1> QED BY <1>1, <1>2, ProcPart DEF Remove

LEMMA ShutdownInv ==
  ASSUME Inv, NEW s \in Signal, GracefulShutdown(s)
  PROVE  Inv'
<1>1. ProcInv'
  BY DEF GracefulShutdown, Closing, ProcInv, Inv, JobsAndWorkers, TypeOK, OpenIsInMap, WaitedFor
<1>2. \A v \in Worker : worker[v] \in {"open", "closing"} => worker'[v] \in {"open", "closing"}
  BY DEF GracefulShutdown, Closing, Inv, JobsAndWorkers, TypeOK
<1> QED BY <1>1, <1>2, ProcPart DEF GracefulShutdown

LEMMA ContinueInv ==
  ASSUME Inv, Continue
  PROVE  Inv'
<1>1. ASSUME NEW w \in Worker, Closed(w) PROVE Inv'
  <2>1. ProcInv'
    BY <1>1 DEF Closed, ProcInv, Inv, JobsAndWorkers, TypeOK, OpenIsInMap, WaitedFor
  <2>2. \A v \in Worker : worker[v] \in {"open", "closing"} =>
          worker'[v] \in {"open", "closing"} \/ Active(v) = {}
    BY <1>1 DEF Closed, Inv, JobsAndWorkers, TypeOK
  <2> QED BY <1>1, <2>1, <2>2, ProcPart DEF Closed
<1>2. CASE CloseAwaited \/ ListenerStops
  <2>1. ProcInv'
    BY <1>2 DEF CloseAwaited, ListenerStops, ProcInv, Inv, JobsAndWorkers, TypeOK, OpenIsInMap,
                WaitedFor
  <2> QED BY <1>2, <2>1, ProcPart DEF CloseAwaited, ListenerStops
<1>3. ASSUME NEW s \in Signal, WorkersClosed(s) PROVE Inv'
  <2>1. ProcInv'
    BY <1>3 DEF WorkersClosed, AllClosed, ProcInv, Inv, JobsAndWorkers, TypeOK, OpenIsInMap,
                WaitedFor
  <2> QED BY <1>3, <2>1, ProcPart DEF WorkersClosed
<1>4. ASSUME NEW s \in Signal, CacheCleaned(s) \/ Exit(s) PROVE Inv'
  <2>1. ProcInv'
    BY <1>4 DEF CacheCleaned, Exit, ProcInv, Inv, JobsAndWorkers, TypeOK, OpenIsInMap, WaitedFor
  <2> QED BY <1>4, <2>1, ProcPart DEF CacheCleaned, Exit
<1> QED BY <1>1, <1>2, <1>3, <1>4 DEF Continue

-----------------------------------------------------------------------------
LEMMA StutterInv == Inv /\ UNCHANGED vars => Inv'
BY DEF Inv, JobsAndWorkers, TypeOK, TimerWhileCalling, RunningJobsHaveWorkers, OpenIsInMap,
       AttemptsLeft, BodyIsAccepted, WaitedFor, vars, jobVars, procVars

LEMMA NextInv == Inv /\ [Next]_vars => Inv'
BY FetchInv, HeadersInv, FetchRejectsInv, ProcessorInv, UpdateInv, RemoveInv, ShutdownInv,
   ContinueInv, StutterInv DEF Next

\* The inductive invariant.
LEMMA Invariance == Spec => []Inv
BY InitInv, NextInv, PTL DEF Spec

\* Types; the abort timer of a call runs exactly while its headers are awaited;
\* a running job belongs to a worker that is not closed; and an open worker is
\* the one in the map (workerFromMetadata, workerStreamListener).
THEOREM WorkersOfJobs == Spec => []HttpWorkerInv
<1>1. Inv => HttpWorkerInv
  BY DEF Inv, HttpWorkerInv, BodyIsAccepted, CompletedMeansAccepted
<1> QED BY <1>1, Invariance, PTL

\* However many signals arrive and whatever the listener replaces meanwhile, a
\* shutdown that goes on to the exit has left no job of the workers it found.
THEOREM ExitCutsNone == Spec => []NoJobCutByExit
<1>1. Inv => NoJobCutByExit
  BY DEF Inv, JobsAndWorkers, TypeOK, RunningJobsHaveWorkers, WaitedFor, NoJobCutByExit
<1> QED BY <1>1, Invariance, PTL

-----------------------------------------------------------------------------
(* The start of a process.                                                 *)

LEMMA StartupInitInv == StartupInit => StartupInv
<1> SUFFICES ASSUME StartupInit PROVE StartupInv
  OBVIOUS
<1>1. workerMetadataKey \in Key /\ workerMetadataStream \in Key
  BY DEF Key, workerMetadataKey, workerMetadataStream
<1>2. type[workerMetadataKey] = "none" /\ type[workerMetadataStream] = "none"
  BY <1>1 DEF StartupInit
<1>3. KeysInv /\ StartsAgain /\ ChangesAreAnnounced
  BY <1>2 DEF StartupInit, KeysInv, StartsAgain, ChangesAreAnnounced, Is
<1>4. type \in [Key -> {"none", "hash", "stream"}]
  BY DEF StartupInit
<1>5. env \subseteq {"REDIS_URL", "WORKER_METADATA_KEY"}
  BY DEF StartupInit
<1>6. starts \in 0 .. MaxStarts /\ drops \in 0 .. MaxDrops
  BY BoundAssumption DEF StartupInit
<1>7. /\ poisoned \subseteq stored /\ stored \subseteq Queue /\ unannounced \subseteq Queue
      /\ link \in {"connecting", "ready"} /\ dropped \in BOOLEAN
      /\ proxy \in {"off", "loading", "scanning", "running", "failed", "hung"}
  BY DEF StartupInit
<1> QED BY <1>3, <1>4, <1>5, <1>6, <1>7 DEF StartupInv

\* Without WORKER_METADATA_KEY the hash and the stream are two keys.
LEMMA TwoKeys ==
  ASSUME ~SharedKey
  PROVE  workerMetadataKey = "metadata" /\ workerMetadataStream = "stream"
BY DEF SharedKey, workerMetadataKey, workerMetadataStream

\* The steps that leave Redis alone.
LEMMA ProcessStepInv ==
  ASSUME StartupInv, UNCHANGED <<env, redisVars>>,
         \/ Start \/ Ready \/ ConnectionDrops \/ GivesUp
         \/ LoadLastId \/ LoadWorkers \/ Stop
  PROVE  StartupInv'
<1> USE BoundAssumption DEF StartupInv
<1>1. UNCHANGED <<env, type, stored, poisoned, unannounced, SharedKey, Refused>>
  BY DEF redisVars, SharedKey, Refused
<1>a. link' \in {"connecting", "ready"} /\ dropped' \in BOOLEAN
  BY DEF Start, Ready, ConnectionDrops, GivesUp, LoadLastId, LoadWorkers, Stop
<1>b. proxy' \in {"off", "loading", "scanning", "running", "failed", "hung"}
  BY DEF Start, Ready, ConnectionDrops, GivesUp, LoadLastId, LoadWorkers, Stop
<1>2. starts' \in 0 .. MaxStarts /\ drops' \in 0 .. MaxDrops
  BY DEF Start, Ready, ConnectionDrops, GivesUp, LoadLastId, LoadWorkers, Stop
<1>3. KeysInv'
  <2>1. Refused => proxy' \in {"off", "failed"}
    BY DEF KeysInv, Start, Ready, ConnectionDrops, GivesUp, LoadLastId, LoadWorkers,
       Stop, OfflineQueue, Refused
  <2> QED BY <1>1, <2>1 DEF KeysInv, Is, workerMetadataKey, workerMetadataStream
<1>4. StartsAgain'
  <2>1. proxy' = "failed" => dropped' \/ Refused \/ SharedKey
    BY DEF StartsAgain, KeysInv, Start, Ready, ConnectionDrops, GivesUp,
       LoadLastId, LoadWorkers, Stop, OfflineQueue, Refused
  <2>2. proxy' = "hung" => poisoned # {}
    BY DEF StartsAgain, Start, Ready, ConnectionDrops, GivesUp, LoadLastId, LoadWorkers, Stop
  <2> QED BY <1>1, <2>1, <2>2 DEF StartsAgain
<1>5. ChangesAreAnnounced'
  BY <1>1 DEF ChangesAreAnnounced
<1> QED BY <1>1, <1>a, <1>b, <1>2, <1>3, <1>4, <1>5

\* The XADD of a script whose first call left the two keys as they have to be:
\* with keys of their own it cannot fail, and nothing stays unannounced.
LEMMA AnnounceInv ==
  ASSUME StartupInv, NEW q \in Queue, NEW t \in [Key -> {"none", "hash", "stream"}],
         Announce(t, q),
         ~SharedKey => t["metadata"] \in {"none", "hash"} /\ t["stream"] = type["stream"],
         stored' \subseteq Queue, poisoned' \subseteq stored', proxy = "running",
         UNCHANGED <<env, link, dropped, proxy, starts, drops>>
  PROVE  StartupInv'
<1> USE DEF StartupInv
<1>1. UNCHANGED <<SharedKey, Refused, workerMetadataKey, workerMetadataStream>>
  BY DEF SharedKey, Refused, workerMetadataKey, workerMetadataStream
<1>2. workerMetadataKey \in Key /\ workerMetadataStream \in Key
  BY DEF Key, workerMetadataKey, workerMetadataStream
<1>3. type' \in [Key -> {"none", "hash", "stream"}] /\ unannounced' \subseteq Queue
  BY <1>2 DEF Announce
<1>4. ASSUME ~SharedKey
      PROVE  /\ unannounced' = {}
             /\ Is(workerMetadataKey, "hash")' /\ Is(workerMetadataStream, "stream")'
  <2>1. workerMetadataKey = "metadata" /\ workerMetadataStream = "stream"
    BY <1>4, TwoKeys
  <2>2. t["stream"] \in {"none", "stream"} /\ unannounced = {}
    BY <1>4, <2>1 DEF KeysInv, Is, ChangesAreAnnounced
  <2>3. unannounced' = unannounced \ {q} /\ type' = [t EXCEPT !["stream"] = "stream"]
    BY <2>1, <2>2 DEF Announce
  <2>4. type'["metadata"] = t["metadata"] /\ type'["stream"] = "stream"
    BY <2>3 DEF Key
  <2> QED BY <1>1, <1>4, <2>1, <2>2, <2>3, <2>4 DEF Is
<1>5. KeysInv' /\ StartsAgain' /\ ChangesAreAnnounced'
  BY <1>1, <1>4 DEF KeysInv, StartsAgain, ChangesAreAnnounced
<1> QED BY <1>3, <1>5

\* What the two scripts leave in Redis.
LEMMA ScriptInv ==
  ASSUME StartupInv, NEW q \in Queue, AddWorker(q) \/ RemoveWorker(q)
  PROVE  StartupInv'
<1> USE DEF StartupInv
<1>0. workerMetadataKey \in Key
  BY DEF Key, workerMetadataKey
<1>1. CASE AddWorker(q)
  <2> DEFINE t == [type EXCEPT ![workerMetadataKey] = "hash"]
  <2>1. Announce(t, q)
    BY <1>1 DEF AddWorker
  <2>2. t \in [Key -> {"none", "hash", "stream"}]
    BY <1>0
  <2>3. ~SharedKey => t["metadata"] \in {"none", "hash"} /\ t["stream"] = type["stream"]
    BY <1>0, TwoKeys DEF Key
  <2>4. stored' \subseteq Queue /\ poisoned' \subseteq stored' /\ proxy = "running"
        /\ UNCHANGED <<env, link, dropped, proxy, starts, drops>>
    BY <1>1 DEF AddWorker
  <2> HIDE DEF t
  <2> QED BY <2>1, <2>2, <2>3, <2>4, AnnounceInv
<1>2. CASE RemoveWorker(q)
  <2> DEFINE t == IF stored' = {} THEN [type EXCEPT ![workerMetadataKey] = "none"] ELSE type
  <2>1. Announce(t, q)
    BY <1>2 DEF RemoveWorker
  <2>2. t \in [Key -> {"none", "hash", "stream"}]
    BY <1>0
  <2>3. ~SharedKey => t["metadata"] \in {"none", "hash"} /\ t["stream"] = type["stream"]
    BY <1>0, TwoKeys DEF Key, KeysInv, Is
  <2>4. stored' \subseteq Queue /\ poisoned' \subseteq stored' /\ proxy = "running"
        /\ UNCHANGED <<env, link, dropped, proxy, starts, drops>>
    BY <1>2 DEF RemoveWorker
  <2> HIDE DEF t
  <2> QED BY <2>1, <2>2, <2>3, <2>4, AnnounceInv
<1> QED BY <1>1, <1>2

LEMMA StartupNextInv == StartupInv /\ [StartupNext]_startupVars => StartupInv'
<1> SUFFICES ASSUME StartupInv, [StartupNext]_startupVars PROVE StartupInv'
  OBVIOUS
<1>1. CASE \E q \in Queue : AddWorker(q) \/ RemoveWorker(q)
  BY <1>1, ScriptInv
<1>2. CASE \/ Start \/ Ready \/ ConnectionDrops \/ GivesUp
           \/ LoadLastId \/ LoadWorkers \/ Stop
  <2>1. UNCHANGED <<env, redisVars>>
    BY <1>2 DEF Start, Ready, ConnectionDrops, GivesUp, LoadLastId, LoadWorkers, Stop
  <2> QED BY <1>2, <2>1, ProcessStepInv
<1>3. CASE UNCHANGED startupVars
  BY <1>3 DEF startupVars, redisVars, StartupInv, KeysInv, StartsAgain,
     ChangesAreAnnounced, Is, workerMetadataKey, workerMetadataStream, Refused, SharedKey
<1> QED BY <1>1, <1>2, <1>3 DEF StartupNext

(***************************************************************************)
(* However often processes start and stop, workers are added and removed   *)
(* and connections drop: a start fails only when its own connection did,   *)
(* or for one of the two settings that make it fail; it hangs only over    *)
(* stored metadata that Worker refuses; and no change of the hash is left  *)
(* without an entry of the stream, unless the keys are one.                *)
(***************************************************************************)
THEOREM StartsAndLeavesWhole == StartupSpec => []StartupInv
BY StartupInitInv, StartupNextInv, PTL DEF StartupSpec
=============================================================================
