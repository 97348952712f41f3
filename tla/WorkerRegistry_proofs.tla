------------------------ MODULE WorkerRegistry_proofs ------------------------
(* Theorems about WorkerRegistry, for every value of its constants.        *)
EXTENDS WorkerRegistry, SequenceTheorems, TLAPS

-----------------------------------------------------------------------------
(* Type correctness.                                                       *)

LEMMA InitType == Init => TypeOK
BY RegistryAssumption DEF Init, TypeOK, Phases, ListenerSteps

\* What Announce does to the stream.
LEMMA AnnounceFacts ==
  ASSUME NEW q \in Queue, events \in Seq(Queue), trimmed \in 0..Len(events),
         Announce(q)
  PROVE  /\ events' \in Seq(Queue)
         /\ Len(events') = Len(events) + 1
         /\ \A i \in 1..Len(events) : events'[i] = events[i]
         /\ events'[Len(events) + 1] = q
         /\ trimmed' \in 0..Len(events')
         /\ trimmed <= trimmed'
BY RegistryAssumption DEF Announce, Larger

\* Taking the oldest call off a connection.
LEMMA HeadOfSent ==
  ASSUME TypeOK, NEW p \in Proxy, sent[p] # <<>>
  PROVE  Head(sent[p]) \in Command /\ Tail(sent[p]) \in Seq(Command)
BY DEF TypeOK

\* The stream only grows, so what was an id stays one.
LEMMA IdsStay ==
  ASSUME NEW m \in Nat, NEW n \in Nat, m <= n,
         NEW f \in [Proxy -> 0..m]
  PROVE  f \in [Proxy -> 0..n]
OBVIOUS

LEMMA ScriptsType ==
  ASSUME TypeOK, NEW p \in Proxy, Scripts(p)
  PROVE  TypeOK'
<1> DEFINE cmd == Head(sent[p])
<1>1. cmd \in Command /\ Tail(sent[p]) \in Seq(Command)
  BY HeadOfSent DEF Scripts, UpdateWorkerMetadata, RemoveWorkerMetadata
<1>2. cmd.queue \in Queue /\ cmd.version \in Version \cup {None}
  BY <1>1 DEF Command
<1>3. CASE UpdateWorkerMetadata(p)
  <2>1. events' \in Seq(Queue) /\ Len(events') = Len(events) + 1 /\ trimmed' \in 0..Len(events')
    BY <1>2, <1>3, AnnounceFacts DEF UpdateWorkerMetadata, TypeOK
  <2>2. meta' \in [Queue -> Version \cup {None}]
    BY <1>2, <1>3 DEF UpdateWorkerMetadata, TypeOK
  <2>3. sent' \in [Proxy -> Seq(Command)]
    BY <1>1, <1>3 DEF UpdateWorkerMetadata, TypeOK
  <2>4. replies' \in [Proxy -> Seq(Reply)]
    <3>1. [cmd |-> cmd, id |-> Len(events) + 1] \in Reply
      BY <1>1 DEF Reply, TypeOK
    <3>2. PICK r \in Reply : replies' = [replies EXCEPT ![p] = Append(@, r)]
      BY <3>1, <1>3 DEF UpdateWorkerMetadata
    <3>3. replies \in [Proxy -> Seq(Reply)]
      BY DEF TypeOK
    <3> QED BY <3>2, <3>3
  <2>5. \A f \in [Proxy -> 0..Len(events)] : f \in [Proxy -> 0..Len(events')]
    BY <2>1, IdsStay DEF TypeOK
  <2>6. /\ lastEventId' \in [Proxy -> 0..Len(events')]
        /\ pos' \in [Proxy -> 0..Len(events')]
        /\ hi' \in [Proxy -> 0..Len(events')]
    BY <2>5, <1>3 DEF UpdateWorkerMetadata, TypeOK, listenerVars
  <2> QED BY <1>3, <2>1, <2>2, <2>3, <2>4, <2>6
          DEF UpdateWorkerMetadata, TypeOK, workerVars, listenerVars
<1>4. CASE RemoveWorkerMetadata(p)
  <2>1. /\ events' \in Seq(Queue) /\ Len(events) <= Len(events')
        /\ trimmed' \in 0..Len(events')
    BY <1>2, <1>4, AnnounceFacts DEF RemoveWorkerMetadata, TypeOK
  <2>2. meta' \in [Queue -> Version \cup {None}]
    BY <1>2, <1>4 DEF RemoveWorkerMetadata, TypeOK
  <2>3. sent' \in [Proxy -> Seq(Command)]
    BY <1>1, <1>4 DEF RemoveWorkerMetadata, TypeOK
  <2>4. replies' \in [Proxy -> Seq(Reply)]
    <3>1. [cmd |-> cmd, id |-> IF meta[cmd.queue] # None
                                 THEN Len(events) + 1 ELSE 0] \in Reply
      BY <1>1 DEF Reply, TypeOK
    <3>2. PICK r \in Reply : replies' = [replies EXCEPT ![p] = Append(@, r)]
      BY <3>1, <1>4 DEF RemoveWorkerMetadata
    <3>3. replies \in [Proxy -> Seq(Reply)]
      BY DEF TypeOK
    <3> QED BY <3>2, <3>3
  <2>5. mustScan' \in [Proxy -> SUBSET Queue]
    BY <1>4 DEF RemoveWorkerMetadata, TypeOK
  <2>6. \A f \in [Proxy -> 0..Len(events)] : f \in [Proxy -> 0..Len(events')]
    BY <2>1, IdsStay DEF TypeOK
  <2>7. /\ lastEventId' \in [Proxy -> 0..Len(events')]
        /\ pos' \in [Proxy -> 0..Len(events')]
        /\ hi' \in [Proxy -> 0..Len(events')]
    BY <2>6, <1>4 DEF RemoveWorkerMetadata, TypeOK, listenerVars
  <2> QED BY <1>4, <2>1, <2>2, <2>3, <2>4, <2>5, <2>7
          DEF RemoveWorkerMetadata, TypeOK, workerVars, listenerVars
<1> QED BY <1>3, <1>4 DEF Scripts

LEMMA LoadingType ==
  ASSUME TypeOK, NEW p \in Proxy, Loading(p)
  PROVE  TypeOK'
<1>1. CASE Start(p)
  BY <1>1, RegistryAssumption
     DEF Start, TypeOK, Phases, ListenerSteps, Causes, Fault, redisVars,
         workerVars, listenerVars, httpVars
<1>2. CASE LoadFail(p)
  BY <1>2, RegistryAssumption
     DEF LoadFail, TypeOK, Phases, ListenerSteps, Causes, Fault, redisVars,
         workerVars, listenerVars, httpVars
<1>3. CASE LoadDone(p)
  BY <1>3, RegistryAssumption
     DEF LoadDone, FirstId, TypeOK, Phases, ListenerSteps, Causes, Fault, redisVars,
         workerVars, listenerVars, httpVars
<1>4. ASSUME NEW q \in Queue, LoadWorker(p, q)
      PROVE  TypeOK'
  BY <1>4, RegistryAssumption
     DEF LoadWorker, TypeOK, Phases, redisVars, listenerVars, httpVars
<1> QED BY <1>1, <1>2, <1>3, <1>4 DEF Loading

LEMMA RequestsType ==
  ASSUME TypeOK, NEW p \in Proxy, Requests(p)
  PROVE  TypeOK'
<1>1. PICK cmd \in Command : Send(p, cmd)
  BY RegistryAssumption DEF Requests, AddWorker, RemoveWorker, Command
<1> QED
  BY <1>1 DEF Send, TypeOK, redisVars, workerVars, listenerVars

LEMMA HandlerReplyType ==
  ASSUME TypeOK, ControlInv, NEW p \in Proxy, HandlerReply(p)
  PROVE  TypeOK'
<1>1. /\ replies[p] # <<>> /\ replies[p] \in Seq(Reply)
      /\ Tail(replies[p]) \in Seq(Reply)
      /\ Head(replies[p]) = replies[p][1] /\ 1 \in 1..Len(replies[p])
  BY DEF HandlerReply, TypeOK
<1>2. Head(replies[p]).id \in 0..Len(events)
  <2>1. replies[p][1] \in Reply
    BY <1>1, ElementOfSeq
  <2>2. replies[p][1].id \in Nat
    BY <2>1 DEF Reply
  <2>3. replies[p][1].id <= Len(events)
    BY <1>1 DEF ControlInv
  <2> QED BY <1>1, <2>2, <2>3 DEF TypeOK
<1> QED
  BY <1>1, <1>2 DEF HandlerReply, TypeOK, redisVars, workerVars, listenerVars

LEMMA ConnectionResetType ==
  ASSUME TypeOK, NEW p \in Proxy, ConnectionReset(p)
  PROVE  TypeOK'
<1> DEFINE resent == [i \in 1..Len(replies[p]) |-> replies[p][i].cmd]
<1>1. resent \in Seq(Command)
  <2>1. \A i \in 1..Len(replies[p]) : replies[p][i].cmd \in Command
    <3>1. replies[p] \in Seq(Reply)
      BY DEF TypeOK
    <3>2. \A i \in 1..Len(replies[p]) : replies[p][i] \in Reply
      BY <3>1, ElementOfSeq
    <3> QED BY <3>2 DEF Reply
  <2>2. Len(replies[p]) \in Nat
    BY DEF TypeOK
  <2> QED BY <2>1, <2>2, IsASeq
<1>2. resent \o sent[p] \in Seq(Command) /\ <<>> \in Seq(Command)
  BY <1>1 DEF TypeOK
<1>3. sent' \in [Proxy -> Seq(Command)]
  <2>1. sent' = [sent EXCEPT ![p] = resent \o @] \/ sent' = [sent EXCEPT ![p] = <<>>]
    BY DEF ConnectionReset
  <2>2. sent \in [Proxy -> Seq(Command)]
    BY DEF TypeOK
  <2> HIDE DEF resent
  <2> QED BY <1>2, <2>1, <2>2
<1>4. replies' \in [Proxy -> Seq(Reply)]
  BY DEF ConnectionReset, TypeOK
<1>5. /\ faults' \in Nat
      /\ UNCHANGED <<redisVars, phase, shut, workerVars, mustScan, lastEventId,
                     listenerVars, ops, lost>>
  BY DEF ConnectionReset, Fault, TypeOK
<1> QED
  BY <1>3, <1>4, <1>5 DEF TypeOK, redisVars, workerVars, listenerVars

LEMMA CleanMetadataType ==
  ASSUME TypeOK, CleanMetadata
  PROVE  TypeOK'
BY RegistryAssumption
   DEF CleanMetadata, Fault, TypeOK, Causes, workerVars, listenerVars, httpVars

\* The common tail of the loop body keeps the types.
LEMMA AdvanceType ==
  ASSUME TypeOK, NEW p \in Proxy, Advance(p)
  PROVE  /\ pc' \in [Proxy -> ListenerSteps \cup {"off", "done", "dead"}]
         /\ lastEventId' \in [Proxy -> 0..Len(events)]
         /\ pos' \in [Proxy -> 0..Len(events)]
         /\ hi' \in [Proxy -> 0..Len(events)]
         /\ got' \in [Proxy -> Version \cup {None}]
         /\ lost' \in [Proxy -> SUBSET Causes]
         /\ UNCHANGED <<redisVars, phase, shut, mustScan, listening, httpVars,
                        faults>>
<1>0. /\ got' \in [Proxy -> Version \cup {None}]
      /\ UNCHANGED <<redisVars, phase, shut, mustScan, listening, httpVars, faults>>
  BY DEF Advance, TypeOK
<1>1. CASE NextEntry(p)
  <2>1. pos[p] + 1 \in 0..Len(events)
    BY <1>1 DEF NextEntry, TypeOK
  <2> QED BY <1>0, <1>1, <2>1 DEF NextEntry, TypeOK, ListenerSteps
<1>2. CASE LeaveLoop(p)
  BY <1>0, <1>2 DEF LeaveLoop, TypeOK, ListenerSteps
<1>3. CASE ReadAgain(p)
  <2>1. lastEventId[p] \in 0..Len(events)
    BY DEF TypeOK
  <2>2. lost' \in [Proxy -> SUBSET Causes]
    BY <1>3 DEF ReadAgain, Cursor, TypeOK, Causes
  <2> QED BY <1>0, <1>3, <2>1, <2>2 DEF ReadAgain, Cursor, TypeOK, ListenerSteps
<1> QED BY <1>1, <1>2, <1>3 DEF Advance

\* An entry in work is one of the stream.
LEMMA CurrentIsQueue ==
  ASSUME TypeOK, BatchInv, NEW p \in Proxy,
         pc[p] \in {"hget", "hgot", "close", "remove"}
  PROVE  Current(p) \in Queue /\ pos[p] \in 1..Len(events)
<1>1. pos[p] \in 1..Len(events)
  BY DEF TypeOK, BatchInv
<1> QED BY <1>1 DEF TypeOK, Current

LEMMA ListenerType ==
  ASSUME TypeOK, BatchInv, NEW p \in Proxy, Listener(p) \/ ListenerError(p)
  PROVE  TypeOK'
<1>0. ASSUME Advance(p), workers' \in [Proxy -> SUBSET Queue],
             shas' \in [Proxy -> [Queue -> Version \cup {None}]],
             running' \in [Proxy -> [Queue -> Int]],
             closing' \in [Proxy -> SUBSET Queue]
      PROVE  TypeOK'
  BY <1>0, AdvanceType DEF TypeOK, redisVars, httpVars
<1>00. Advance(p) /\ UNCHANGED workerVars => TypeOK'
  BY <1>0 DEF TypeOK, workerVars
<1>1. CASE XreadServe(p)
  BY <1>1 DEF XreadServe, Larger, TypeOK, ListenerSteps, Causes, redisVars,
                  workerVars, httpVars
<1>2. CASE XreadTimeout(p)
  BY <1>2 DEF XreadTimeout, TypeOK, ListenerSteps, Causes, redisVars,
                  workerVars, httpVars
<1>3. CASE TakeReply(p) \/ HandleNothing(p) \/ CloseDone(p)
  BY <1>3, <1>00 DEF TakeReply, HandleNothing, CloseDone
<1>4. CASE ListenerAborted(p)
  BY <1>4 DEF ListenerAborted, TypeOK, ListenerSteps, Causes, redisVars,
                  workerVars, httpVars
<1>5. CASE ListenerError(p)
  BY <1>5 DEF ListenerError, Fault, TypeOK, ListenerSteps, Causes, redisVars,
                  workerVars, httpVars
<1>6. CASE HgetServe(p)
  BY <1>6, CurrentIsQueue
     DEF HgetServe, TypeOK, ListenerSteps, redisVars, workerVars, httpVars
<1>7. CASE HandlePoison(p)
  BY <1>7 DEF HandlePoison, TypeOK, redisVars, workerVars, httpVars
<1>8. CASE HandleUpdate(p)
  <2>1. Current(p) \in Queue
    BY <1>8, CurrentIsQueue DEF HandleUpdate, Replace
  <2>2. /\ workers' \in [Proxy -> SUBSET Queue]
        /\ shas' \in [Proxy -> [Queue -> Version \cup {None}]]
        /\ running' \in [Proxy -> [Queue -> Int]]
        /\ closing' \in [Proxy -> SUBSET Queue]
    BY <1>8, <2>1 DEF HandleUpdate, Replace, TypeOK, OpenInMap
  <2>3. CASE Current(p) \in workers[p]
    <3>1. /\ pc' = [pc EXCEPT ![p] = "close"]
          /\ UNCHANGED <<redisVars, phase, shut, mustScan, lastEventId,
                         listening, pos, hi, got, httpVars, lost, faults>>
      BY <1>8, <2>3 DEF HandleUpdate, Replace
    <3>2. pc' \in [Proxy -> ListenerSteps \cup {"off", "done", "dead"}]
      BY <3>1 DEF TypeOK, ListenerSteps
    <3> QED BY <2>2, <3>1, <3>2 DEF TypeOK, redisVars, httpVars
  <2>4. CASE Current(p) \notin workers[p]
    BY <1>0, <1>8, <2>2, <2>4 DEF HandleUpdate, Replace
  <2> QED BY <2>3, <2>4
<1>9. CASE HandleRemoval(p)
  <2>1. Current(p) \in Queue
    BY <1>9, CurrentIsQueue DEF HandleRemoval, Removed
  <2> QED
    BY <1>9, <2>1 DEF HandleRemoval, Removed, TypeOK, OpenInMap, ListenerSteps, redisVars, httpVars
<1>10. CASE RemoveDone(p)
  <2>1. Current(p) \in Queue
    BY <1>10, CurrentIsQueue DEF RemoveDone, Forget
  <2> QED
    BY <1>0, <1>10, <2>1 DEF RemoveDone, Forget, TypeOK
<1> QED
  BY <1>1, <1>2, <1>3, <1>4, <1>5, <1>6, <1>7, <1>8, <1>9, <1>10 DEF Listener

LEMMA TerminateType ==
  ASSUME TypeOK, NEW p \in Proxy, Terminate(p), faults' \in Nat
  PROVE  TypeOK'
BY DEF Terminate, TypeOK, Phases, Causes, redisVars

LEMMA StoppingType ==
  ASSUME TypeOK, NEW p \in Proxy, Stopping(p)
  PROVE  TypeOK'
<1>1. CASE GracefulShutdown(p)
  <2>1. running' \in [Proxy -> [Queue -> Int]]
    BY <1>1 DEF GracefulShutdown, TypeOK, OpenInMap
  <2>2. closing' \in [Proxy -> SUBSET Queue]
    BY <1>1 DEF GracefulShutdown, TypeOK
  <2>3. shut' \in [Proxy -> {"no", "closing", "closed"}]
    BY <1>1 DEF GracefulShutdown, TypeOK
  <2>4. listening' \in [Proxy -> BOOLEAN] /\ faults' \in Nat
    BY <1>1 DEF GracefulShutdown, Fault, TypeOK
  <2> QED BY <1>1, <2>1, <2>2, <2>3, <2>4
          DEF GracefulShutdown, TypeOK, redisVars, httpVars
<1>2. CASE WorkersClosed(p)
  BY <1>2 DEF WorkersClosed, TypeOK, redisVars, workerVars, listenerVars, httpVars
<1>3. CASE Exit(p)
  BY <1>3, TerminateType DEF Exit, TypeOK
<1>4. CASE Crash(p)
  <2>1. faults' \in Nat
    BY <1>4 DEF Crash, Fault, TypeOK
  <2> QED BY <1>4, <2>1, TerminateType DEF Crash
<1> QED BY <1>1, <1>2, <1>3, <1>4 DEF Stopping

-----------------------------------------------------------------------------
(* Where a process is, and the ids of its replies.                         *)

\* ControlInv of one process.
Control(p) ==
  /\ phase[p] = "serving" <=> pc[p] # "off"
  /\ phase[p] # "serving" => sent[p] = <<>> /\ replies[p] = <<>>
  /\ p \notin Admin => sent[p] = <<>> /\ replies[p] = <<>>
  /\ \A i \in 1..Len(replies[p]) : replies[p][i].id <= Len(events)

LEMMA ControlOfEach == ControlInv <=> \A p \in Proxy : Control(p)
BY DEF ControlInv, Control

\* A script appends one reply whose id is no larger than the stream is long.
LEMMA ScriptsControl ==
  ASSUME TypeOK, ControlInv, NEW p \in Proxy, Scripts(p)
  PROVE  ControlInv'
<1> DEFINE cmd == Head(sent[p])
<1>1. cmd \in Command /\ Tail(sent[p]) \in Seq(Command) /\ sent[p] # <<>>
  BY HeadOfSent DEF Scripts, UpdateWorkerMetadata, RemoveWorkerMetadata
<1>2. cmd.queue \in Queue
  BY <1>1 DEF Command
<1>3. Len(events) \in Nat /\ Len(events') \in Nat /\ Len(events) <= Len(events')
  <2>1. Announce(cmd.queue) \/ UNCHANGED <<events, trimmed>>
    BY DEF Scripts, UpdateWorkerMetadata, RemoveWorkerMetadata
  <2>2. events \in Seq(Queue) /\ trimmed \in 0..Len(events) /\ Len(events) \in Nat
    BY DEF TypeOK
  <2>3. Announce(cmd.queue) => Len(events') = Len(events) + 1
    BY <1>2, <2>2, AnnounceFacts
  <2> QED BY <2>1, <2>2, <2>3
<1>4. PICK id \in 0..Len(events') :
        replies' = [replies EXCEPT ![p] = Append(@, [cmd |-> cmd, id |-> id])]
  <2>1. CASE UpdateWorkerMetadata(p)
    <3>1. Len(events') = Len(events) + 1
      BY <1>2, <2>1, AnnounceFacts DEF UpdateWorkerMetadata, TypeOK
    <3>2. Len(events) + 1 \in 0..Len(events')
      BY <1>3, <3>1
    <3>3. replies' = [replies EXCEPT ![p] =
                        Append(@, [cmd |-> cmd, id |-> Len(events) + 1])]
      BY <2>1 DEF UpdateWorkerMetadata
    <3> QED BY <3>2, <3>3
  <2>2. CASE RemoveWorkerMetadata(p)
    <3>1. meta[cmd.queue] # None => Len(events') = Len(events) + 1
      BY <1>2, <2>2, AnnounceFacts DEF RemoveWorkerMetadata, TypeOK
    <3> DEFINE id == IF meta[cmd.queue] # None THEN Len(events) + 1 ELSE 0
    <3>2. id \in 0..Len(events')
      BY <1>3, <3>1
    <3>3. replies' = [replies EXCEPT ![p] = Append(@, [cmd |-> cmd, id |-> id])]
      BY <2>2 DEF RemoveWorkerMetadata
    <3> QED BY <3>2, <3>3
  <2> QED BY <2>1, <2>2 DEF Scripts
<1>5. UNCHANGED <<phase, pc>> /\ sent' = [sent EXCEPT ![p] = Tail(@)]
  BY DEF Scripts, UpdateWorkerMetadata, RemoveWorkerMetadata, listenerVars
<1> HIDE DEF cmd
<1>6. ASSUME NEW r \in Proxy PROVE Control(r)'
  <2>1. CASE r # p
    <3>1. replies'[r] = replies[r] /\ sent'[r] = sent[r]
      BY <1>4, <1>5, <2>1 DEF TypeOK
    <3>2. \A i \in 1..Len(replies[r]) : replies[r][i].id \in Nat
      <4>1. replies[r] \in Seq(Reply)
        BY DEF TypeOK
      <4>2. \A i \in 1..Len(replies[r]) : replies[r][i] \in Reply
        BY <4>1, ElementOfSeq
      <4> QED BY <4>2 DEF Reply
    <3> QED BY <1>3, <1>5, <3>1, <3>2 DEF Control, ControlInv
  <2>2. CASE r = p
    <3>1. phase[p] = "serving" /\ p \in Admin
      BY <1>1 DEF ControlInv
    <3>2. replies[p] \in Seq(Reply)
      BY DEF TypeOK
    <3>3. replies'[p] = Append(replies[p], [cmd |-> cmd, id |-> id])
      BY <1>4 DEF TypeOK
    <3>4. \A i \in 1..Len(replies'[p]) : replies'[p][i].id <= Len(events')
      <4> SUFFICES ASSUME NEW i \in 1..Len(replies'[p])
                   PROVE  replies'[p][i].id <= Len(events')
        OBVIOUS
      <4>1. CASE i = Len(replies[p]) + 1
        BY <1>3, <3>2, <3>3, <4>1
      <4>2. CASE i \in 1..Len(replies[p])
        <5>1. replies'[p][i] = replies[p][i] /\ replies[p][i] \in Reply
          BY <3>2, <3>3, <4>2
        <5>2. replies[p][i].id \in Nat /\ replies[p][i].id <= Len(events)
          BY <4>2, <5>1 DEF Reply, ControlInv
        <5> QED BY <1>3, <5>1, <5>2
      <4> QED BY <3>2, <3>3, <4>1, <4>2
    <3>5. pc'[p] # "off" /\ phase'[p] = "serving"
      BY <1>5, <3>1 DEF ControlInv
    <3> QED BY <2>2, <3>1, <3>4, <3>5 DEF Control
  <2> QED BY <2>1, <2>2
<1> QED BY <1>6 DEF ControlInv, Control

\* A step that leaves the pipelines and the stream alone, and moves the
\* listener of a serving process only from step to step.
LEMMA QuietControl ==
  ASSUME TypeOK, ControlInv, NEW p \in Proxy,
         UNCHANGED <<events, phase, sent, replies>>,
         \A r \in Proxy : pc'[r] = "off" <=> pc[r] = "off"
  PROVE  ControlInv'
BY DEF ControlInv

LEMMA AdvancePc ==
  ASSUME TypeOK, NEW p \in Proxy, Advance(p)
  PROVE  /\ pc'[p] \in {"hget", "done", "xread"}
         /\ \A r \in Proxy \ {p} : pc'[r] = pc[r]
BY DEF Advance, NextEntry, LeaveLoop, ReadAgain, Cursor, TypeOK

LEMMA ListenerControl ==
  ASSUME TypeOK, ControlInv, NEW p \in Proxy, Listener(p) \/ ListenerError(p)
  PROVE  ControlInv'
<1>1. UNCHANGED <<events, phase, sent, replies>>
  BY DEF Listener, ListenerError, XreadServe, XreadTimeout, TakeReply,
         ListenerAborted, HgetServe, HandleNothing, HandleUpdate, Replace, HandlePoison,
         HandleRemoval, Removed, CloseDone, RemoveDone, Forget, Advance, redisVars, httpVars
<1>2. \/ Advance(p)
      \/ \E s \in {"reply", "done", "dead", "hgot", "close", "remove"} :
           pc' = [pc EXCEPT ![p] = s]
  BY DEF Listener, ListenerError, XreadServe, XreadTimeout, TakeReply,
         ListenerAborted, HgetServe, HandleNothing, HandleUpdate, Replace, HandlePoison,
         HandleRemoval, Removed, CloseDone, RemoveDone, Forget
<1>3. pc[p] # "off" /\ pc'[p] # "off" /\ \A r \in Proxy \ {p} : pc'[r] = pc[r]
  <2>1. pc[p] # "off"
    BY DEF Listener, ListenerError, XreadServe, XreadTimeout, TakeReply,
           ListenerAborted, HgetServe, HandleNothing, HandleUpdate, Replace,
           HandlePoison, HandleRemoval, Removed, CloseDone, RemoveDone, Forget
  <2> QED BY <1>2, <2>1, AdvancePc DEF TypeOK
<1> QED BY <1>1, <1>3, QuietControl

LEMMA TerminateControl ==
  ASSUME TypeOK, ControlInv, NEW p \in Proxy, Terminate(p)
  PROVE  ControlInv'
<1> SUFFICES ASSUME NEW r \in Proxy PROVE Control(r)'
  BY ControlOfEach DEF ControlInv, Control
<1>1. CASE r = p
  BY <1>1 DEF Terminate, TypeOK, Control
<1>2. CASE r # p
  BY <1>2 DEF Terminate, TypeOK, Control, ControlInv, redisVars
<1> QED BY <1>1, <1>2

LEMMA ControlStep ==
  ASSUME TypeOK, ControlInv, Next
  PROVE  ControlInv'
<1>1. CASE CleanMetadata
  BY <1>1 DEF CleanMetadata, ControlInv, listenerVars, httpVars
<1>2. ASSUME NEW p \in Proxy, Loading(p) PROVE ControlInv'
  <2>1. ASSUME NEW q \in Queue, LoadWorker(p, q) PROVE ControlInv'
    BY <2>1, QuietControl DEF LoadWorker, redisVars, listenerVars, httpVars
  <2>2. CASE Start(p) \/ LoadFail(p)
    BY <2>2 DEF Start, LoadFail, ControlInv, TypeOK, redisVars, listenerVars, httpVars
  <2>3. CASE LoadDone(p)
    BY <2>3 DEF LoadDone, FirstId, ControlInv, TypeOK, redisVars, httpVars
  <2> QED BY <1>2, <2>1, <2>2, <2>3 DEF Loading
<1>3. ASSUME NEW p \in Proxy, Requests(p) PROVE ControlInv'
  <2>1. PICK cmd \in Command : Send(p, cmd)
    BY <1>3, RegistryAssumption DEF Requests, AddWorker, RemoveWorker, Command
  <2>2. p \in Admin
    BY <1>3 DEF Requests
  <2> QED BY <2>1, <2>2 DEF Send, ControlInv, TypeOK, redisVars, listenerVars
<1>4. ASSUME NEW p \in Proxy, Scripts(p) PROVE ControlInv'
  BY <1>4, ScriptsControl
<1>5. ASSUME NEW p \in Proxy, HandlerReply(p) PROVE ControlInv'
  <2>1. replies[p] # <<>> /\ replies[p] \in Seq(Reply)
    BY <1>5 DEF HandlerReply, TypeOK
  <2>2. /\ UNCHANGED <<events, phase, pc, sent>>
        /\ replies' = [replies EXCEPT ![p] = Tail(@)]
    BY <1>5 DEF HandlerReply, redisVars, listenerVars
  <2>3. phase[p] = "serving" /\ p \in Admin
    BY <2>1 DEF ControlInv
  <2>4. \A i \in 1..Len(replies'[p]) : replies'[p][i].id <= Len(events')
    <3>1. replies'[p] = Tail(replies[p])
      BY <2>2 DEF TypeOK
    <3>2. \A i \in 1..Len(Tail(replies[p])) :
            i + 1 \in 1..Len(replies[p]) /\ Tail(replies[p])[i] = replies[p][i + 1]
      BY <2>1
    <3> QED BY <2>2, <3>1, <3>2 DEF ControlInv
  <2>5. \A r \in Proxy \ {p} : replies'[r] = replies[r]
    BY <2>2 DEF TypeOK
  <2>6. ASSUME NEW r \in Proxy PROVE Control(r)'
    BY <2>2, <2>3, <2>4, <2>5 DEF Control, ControlInv
  <2> QED BY <2>6 DEF ControlInv, Control
<1>6. ASSUME NEW p \in Proxy, ConnectionReset(p) PROVE ControlInv'
  <2>1. /\ UNCHANGED <<events, phase, pc>>
        /\ replies' = [replies EXCEPT ![p] = <<>>]
        /\ \A r \in Proxy \ {p} : sent'[r] = sent[r]
        /\ sent[p] # <<>> \/ replies[p] # <<>>
    BY <1>6 DEF ConnectionReset, TypeOK, redisVars, listenerVars
  <2>2. phase[p] = "serving" /\ p \in Admin
    BY <2>1 DEF ControlInv
  <2>3. ASSUME NEW r \in Proxy PROVE Control(r)'
    BY <2>1, <2>2 DEF Control, ControlInv, TypeOK
  <2> QED BY <2>3 DEF ControlInv, Control
<1>7. ASSUME NEW p \in Proxy, Listener(p) \/ ListenerError(p) PROVE ControlInv'
  BY <1>7, ListenerControl
<1>8. ASSUME NEW p \in Proxy, Stopping(p) PROVE ControlInv'
  <2>1. CASE GracefulShutdown(p) \/ WorkersClosed(p)
    BY <2>1, QuietControl
       DEF GracefulShutdown, WorkersClosed, redisVars, listenerVars, httpVars
  <2>2. CASE Exit(p) \/ Crash(p)
    BY <2>2, TerminateControl DEF Exit, Crash
  <2> QED BY <1>8, <2>1, <2>2 DEF Stopping
<1> QED BY <1>1, <1>2, <1>3, <1>4, <1>5, <1>6, <1>7, <1>8 DEF Next

-----------------------------------------------------------------------------
(* The batch of a listener.                                                *)

\* BatchInv of one process.
Batch(p) ==
  /\ pos[p] <= hi[p]
  /\ pc[p] \in {"hget", "hgot", "close", "remove"} => pos[p] # 0
  /\ pc[p] = "xread" => pos[p] = hi[p]

LEMMA AdvanceBatch ==
  ASSUME TypeOK, BatchInv, NEW p \in Proxy, Advance(p)
  PROVE  BatchInv'
<1> SUFFICES ASSUME NEW r \in Proxy PROVE Batch(r)'
  BY DEF BatchInv, Batch
<1>1. pos[r] \in Nat /\ hi[r] \in Nat /\ lastEventId[r] \in Nat
  BY DEF TypeOK
<1>2. CASE NextEntry(p)
  BY <1>1, <1>2 DEF NextEntry, TypeOK, BatchInv, Batch
<1>3. CASE LeaveLoop(p)
  BY <1>1, <1>3 DEF LeaveLoop, TypeOK, BatchInv, Batch
<1>4. CASE ReadAgain(p)
  BY <1>1, <1>4 DEF ReadAgain, Cursor, TypeOK, BatchInv, Batch
<1> QED BY <1>2, <1>3, <1>4 DEF Advance

LEMMA BatchStep ==
  ASSUME TypeOK, ControlInv, BatchInv, Next
  PROVE  BatchInv'
<1>0. UNCHANGED listenerVars => BatchInv'
  BY DEF BatchInv, listenerVars
<1>1. CASE CleanMetadata
  BY <1>0, <1>1 DEF CleanMetadata
<1>2. ASSUME NEW p \in Proxy, Loading(p) PROVE BatchInv'
  <2>1. CASE Start(p) \/ LoadFail(p) \/ \E q \in Queue : LoadWorker(p, q)
    BY <1>0, <2>1 DEF Start, LoadFail, LoadWorker
  <2>2. CASE LoadDone(p)
    <3>1. ASSUME NEW r \in Proxy PROVE Batch(r)'
      BY <2>2 DEF LoadDone, FirstId, TypeOK, BatchInv, Batch
    <3> QED BY <3>1 DEF BatchInv, Batch
  <2> QED BY <1>2, <2>1, <2>2 DEF Loading
<1>3. ASSUME NEW p \in Proxy, Requests(p) PROVE BatchInv'
  BY <1>0, <1>3 DEF Requests, AddWorker, RemoveWorker, Send
<1>4. ASSUME NEW p \in Proxy, Scripts(p) \/ HandlerReply(p) \/ ConnectionReset(p)
      PROVE  BatchInv'
  BY <1>0, <1>4 DEF Scripts, UpdateWorkerMetadata, RemoveWorkerMetadata,
                    HandlerReply, ConnectionReset
<1>5. ASSUME NEW p \in Proxy, Listener(p) \/ ListenerError(p) PROVE BatchInv'
  <2>1. CASE TakeReply(p) \/ HandleNothing(p) \/ CloseDone(p) \/ RemoveDone(p)
    BY <2>1, AdvanceBatch DEF TakeReply, HandleNothing, CloseDone, RemoveDone, Forget
  <2>2. CASE XreadServe(p)
    <3>1. ASSUME NEW r \in Proxy PROVE Batch(r)'
      <4>1. pos[r] \in 0..Len(events) /\ trimmed \in 0..Len(events)
        BY DEF TypeOK
      <4> QED BY <2>2, <4>1 DEF XreadServe, TypeOK, BatchInv, Batch, Larger
    <3> QED BY <3>1 DEF BatchInv, Batch
  <2>3. CASE \/ XreadTimeout(p) \/ ListenerAborted(p) \/ ListenerError(p)
             \/ HgetServe(p) \/ HandlePoison(p) \/ HandleRemoval(p)
    <3>1. UNCHANGED <<pos, hi>> /\ \A r \in Proxy \ {p} : pc'[r] = pc[r]
      BY <2>3 DEF XreadTimeout, ListenerAborted, ListenerError, HgetServe,
                  HandlePoison, HandleRemoval, Removed, TypeOK
    <3>2. \/ pc'[p] \in {"reply", "done", "dead"}
          \/ pc'[p] \in {"hgot", "remove"} /\ pc[p] \in {"hget", "hgot"}
      BY <2>3 DEF XreadTimeout, ListenerAborted, ListenerError, HgetServe,
                  HandlePoison, HandleRemoval, Removed, TypeOK
    <3>3. ASSUME NEW r \in Proxy PROVE Batch(r)'
      BY <3>1, <3>2 DEF Batch, BatchInv
    <3> QED BY <3>3 DEF BatchInv, Batch
  <2>4. CASE HandleUpdate(p)
    <3>1. CASE pc' = [pc EXCEPT ![p] = "close"] /\ UNCHANGED <<pos, hi>>
      BY <2>4, <3>1 DEF HandleUpdate, Replace, TypeOK, BatchInv
    <3>2. CASE Advance(p)
      BY <3>2, AdvanceBatch
    <3> QED BY <2>4, <3>1, <3>2 DEF HandleUpdate, Replace
  <2> QED BY <1>5, <2>1, <2>2, <2>3, <2>4 DEF Listener
<1>6. ASSUME NEW p \in Proxy, Stopping(p) PROVE BatchInv'
  <2>1. CASE GracefulShutdown(p) \/ WorkersClosed(p)
    BY <2>1 DEF GracefulShutdown, WorkersClosed, BatchInv, listenerVars
  <2>2. CASE Terminate(p)
    BY <2>2 DEF Terminate, TypeOK, BatchInv
  <2> QED BY <1>6, <2>1, <2>2 DEF Stopping, Exit, Crash
<1> QED BY <1>1, <1>2, <1>3, <1>4, <1>5, <1>6 DEF Next

-----------------------------------------------------------------------------
(* The first theorem.                                                      *)

\* What every later proof may take for granted.
Base == TypeOK /\ ControlInv /\ BatchInv

LEMMA BaseInit == Init => Base
<1> SUFFICES ASSUME Init PROVE Base
  OBVIOUS
<1>1. TypeOK
  BY InitType
<1>2. ControlInv /\ BatchInv
  BY DEF Init, ControlInv, BatchInv
<1> QED BY <1>1, <1>2 DEF Base

LEMMA TypeStep ==
  ASSUME TypeOK, ControlInv, BatchInv, Next
  PROVE  TypeOK'
BY CleanMetadataType, LoadingType, RequestsType, ScriptsType, HandlerReplyType,
   ConnectionResetType, ListenerType, StoppingType DEF Next

LEMMA BaseStep == Base /\ [Next]_vars => Base'
<1>1. ASSUME Base, Next PROVE Base'
  BY <1>1, TypeStep, ControlStep, BatchStep DEF Base
<1>2. ASSUME Base, UNCHANGED vars PROVE Base'
  BY <1>2 DEF Base, TypeOK, ControlInv, BatchInv, vars, redisVars, workerVars,
              listenerVars, httpVars
<1> QED BY <1>1, <1>2

\* Every variable keeps its type: no id a process holds is newer than the
\* stream, and the listener only works on entries that exist.
THEOREM TypeCorrect == Spec => []TypeOK
<1>1. Spec => []Base
  BY BaseInit, BaseStep, PTL DEF Spec
<1>2. Base => TypeOK
  BY DEF Base
<1> QED BY <1>1, <1>2, PTL

-----------------------------------------------------------------------------
(* The stream is only ever appended to.                                    *)

\* Either nothing is announced, or one queue is.
LEMMA RedisStep ==
  ASSUME Base, Next
  PROVE  \/ UNCHANGED <<events, trimmed>>
         \/ events' = events /\ trimmed' = Len(events)
         \/ \E p \in Proxy : \E q \in Queue : Scripts(p) /\ Announce(q)
<1>1. CASE CleanMetadata
  BY <1>1 DEF CleanMetadata
<1>2. ASSUME NEW p \in Proxy, Scripts(p)
      PROVE  \/ UNCHANGED <<events, trimmed>>
             \/ \E q \in Queue : Announce(q)
  <2>1. sent[p] # <<>>
    BY <1>2 DEF Scripts, UpdateWorkerMetadata, RemoveWorkerMetadata
  <2>2. Head(sent[p]).queue \in Queue
    BY <2>1, HeadOfSent DEF Command, Base
  <2> QED
    BY <1>2, <2>2 DEF Scripts, UpdateWorkerMetadata, RemoveWorkerMetadata
<1>3. ASSUME NEW p \in Proxy,
             \/ Loading(p) \/ Requests(p) \/ HandlerReply(p) \/ ConnectionReset(p)
             \/ Listener(p) \/ ListenerError(p) \/ Stopping(p)
      PROVE  UNCHANGED redisVars
  <2>1. CASE Loading(p) \/ Requests(p) \/ HandlerReply(p) \/ ConnectionReset(p)
    BY <2>1 DEF Loading, Start, LoadWorker, LoadFail, LoadDone, FirstId, Requests,
                AddWorker, RemoveWorker, Send, HandlerReply, ConnectionReset
  <2>2. CASE Listener(p) \/ ListenerError(p)
    BY <2>2 DEF Listener, ListenerError, XreadServe, XreadTimeout, TakeReply,
                ListenerAborted, HgetServe, HandleNothing, HandleUpdate, Replace,
                HandlePoison, HandleRemoval, Removed, CloseDone, RemoveDone, Forget, Advance
  <2>3. CASE Stopping(p)
    BY <2>3 DEF Stopping, GracefulShutdown, WorkersClosed, Exit, Crash, Terminate
  <2> QED BY <1>3, <2>1, <2>2, <2>3
<1> QED BY <1>1, <1>2, <1>3 DEF Next, redisVars

LEMMA StreamGrows ==
  ASSUME Base, Next
  PROVE  /\ Len(events) \in Nat /\ Len(events') \in Nat
         /\ Len(events) <= Len(events')
         /\ \A i \in 1..Len(events) : events'[i] = events[i]
<1>1. events \in Seq(Queue) /\ trimmed \in 0..Len(events) /\ Len(events) \in Nat
  BY DEF Base, TypeOK
<1>2. CASE events' = events
  BY <1>1, <1>2
<1>3. ASSUME NEW q \in Queue, Announce(q)
      PROVE  /\ Len(events') = Len(events) + 1
             /\ \A i \in 1..Len(events) : events'[i] = events[i]
  BY <1>1, <1>3, AnnounceFacts
<1> QED BY <1>1, <1>2, <1>3, RedisStep

\* The entry in work stays what it is while the listener works on it.
LEMMA CurrentStays ==
  ASSUME Base, Next, NEW p \in Proxy, pos'[p] = pos[p], pos[p] # 0
  PROVE  Current(p)' = Current(p)
<1>1. pos[p] \in 1..Len(events)
  BY DEF Base, TypeOK
<1> QED BY <1>1, StreamGrows DEF Current

-----------------------------------------------------------------------------
(* The maps of a process.                                                  *)

\* MapsInv of one process.
Maps(p) ==
  /\ phase[p] = "down" => workers[p] = {}
  /\ \A q \in Queue : q \in workers[p] <=> shas[p][q] # None
  /\ closing[p] \subseteq workers[p]
  /\ pc[p] = "remove" => got[p] = None /\ Current(p) \in closing[p]

\* A step that leaves the maps of p alone and does not enter "remove".
LEMMA MapsKept ==
  ASSUME Base, Next, NEW p \in Proxy, Maps(p),
         workers'[p] = workers[p], shas'[p] = shas[p], closing'[p] = closing[p],
         phase'[p] = "down" => phase[p] = "down",
         pc'[p] = "remove" => UNCHANGED <<pc[p], pos[p], got[p]>>
  PROVE  Maps(p)'
<1>1. CASE pc'[p] = "remove"
  <2>1. pos[p] # 0
    BY <1>1 DEF Base, BatchInv
  <2> QED BY <1>1, <2>1, CurrentStays DEF Maps
<1>2. CASE pc'[p] # "remove"
  BY <1>2 DEF Maps
<1> QED BY <1>1, <1>2

\* A listener changes its own process only.
LEMMA ListenerIsLocal ==
  ASSUME Base, NEW p \in Proxy, Listener(p) \/ ListenerError(p),
         NEW r \in Proxy \ {p}
  PROVE  /\ workers'[r] = workers[r] /\ shas'[r] = shas[r]
         /\ running'[r] = running[r] /\ closing'[r] = closing[r]
         /\ pc'[r] = pc[r] /\ pos'[r] = pos[r] /\ got'[r] = got[r]
         /\ lastEventId'[r] = lastEventId[r] /\ lost'[r] = lost[r]
         /\ UNCHANGED <<redisVars, phase, mustScan>>
<1> USE DEF Base, TypeOK, workerVars
<1>1. ASSUME Advance(p)
      PROVE  /\ pc'[r] = pc[r] /\ pos'[r] = pos[r] /\ got'[r] = got[r]
             /\ lastEventId'[r] = lastEventId[r] /\ lost'[r] = lost[r]
             /\ UNCHANGED <<redisVars, phase, mustScan>>
  BY <1>1 DEF Advance, NextEntry, LeaveLoop, ReadAgain, Cursor
<1>2. CASE XreadServe(p) \/ XreadTimeout(p) \/ ListenerAborted(p) \/ ListenerError(p)
  BY <1>2 DEF XreadServe, XreadTimeout, ListenerAborted, ListenerError
<1>3. CASE TakeReply(p) \/ HandleNothing(p) \/ CloseDone(p)
  BY <1>1, <1>3 DEF TakeReply, HandleNothing, CloseDone
<1>4. CASE HgetServe(p) \/ HandlePoison(p)
  BY <1>4 DEF HgetServe, HandlePoison
<1>5. CASE HandleUpdate(p)
  BY <1>1, <1>5 DEF HandleUpdate, Replace
<1>6. CASE HandleRemoval(p)
  BY <1>6 DEF HandleRemoval, Removed
<1>7. CASE RemoveDone(p)
  BY <1>1, <1>7 DEF RemoveDone, Forget
<1> QED BY <1>2, <1>3, <1>4, <1>5, <1>6, <1>7 DEF Listener

LEMMA ListenerMaps ==
  ASSUME Base, Next, NEW p \in Proxy, Listener(p) \/ ListenerError(p), Maps(p)
  PROVE  Maps(p)'
<1> USE DEF Base, TypeOK
<1>0. pc[p] # "off" /\ phase[p] = "serving" /\ phase' = phase
  <2>1. pc[p] # "off"
    BY DEF Listener, ListenerError, XreadServe, XreadTimeout, TakeReply,
           ListenerAborted, HgetServe, HandleNothing, HandleUpdate, Replace,
           HandlePoison, HandleRemoval, Removed, CloseDone, RemoveDone, Forget
  <2>2. phase' = phase
    BY DEF Listener, ListenerError, XreadServe, XreadTimeout, TakeReply,
           ListenerAborted, HgetServe, HandleNothing, HandleUpdate, Replace, Advance,
           HandlePoison, HandleRemoval, Removed, CloseDone, RemoveDone, Forget
  <2> QED BY <2>1, <2>2 DEF ControlInv
<1>1. CASE \/ XreadServe(p) \/ XreadTimeout(p) \/ ListenerAborted(p)
           \/ ListenerError(p) \/ HgetServe(p) \/ HandlePoison(p)
  <2>1. pc'[p] # "remove" /\ UNCHANGED workerVars
    BY <1>1 DEF XreadServe, XreadTimeout, ListenerAborted, ListenerError,
                HgetServe, HandlePoison
  <2> QED BY <1>0, <2>1, MapsKept DEF workerVars
<1>2. CASE TakeReply(p) \/ HandleNothing(p) \/ CloseDone(p)
  <2>1. Advance(p) /\ UNCHANGED workerVars
    BY <1>2 DEF TakeReply, HandleNothing, CloseDone
  <2>2. pc'[p] # "remove"
    BY <2>1, AdvancePc
  <2> QED BY <1>0, <2>1, <2>2, MapsKept DEF workerVars
<1>3. CASE HandleUpdate(p)
  <2>1. Current(p) \in Queue
    BY <1>3, CurrentIsQueue DEF HandleUpdate, Replace
  <2>2. pc'[p] # "remove"
    BY <1>3, AdvancePc DEF HandleUpdate, Replace
  <2>3. /\ workers'[p] = workers[p] \cup {Current(p)}
        /\ shas'[p] = [shas[p] EXCEPT ![Current(p)] = got[p]]
        /\ closing'[p] = closing[p] \ {Current(p)}
        /\ got[p] # None
    BY <1>3 DEF HandleUpdate, Replace
  <2> QED BY <1>0, <2>1, <2>2, <2>3 DEF Maps
<1>4. CASE HandleRemoval(p)
  <2>1. Current(p) \in Queue /\ pos[p] # 0
    BY <1>4, CurrentIsQueue DEF HandleRemoval, Removed
  <2>2. Current(p)' = Current(p)
    BY <1>4, <2>1, CurrentStays DEF HandleRemoval, Removed
  <2>3. /\ workers'[p] = workers[p] /\ shas'[p] = shas[p]
        /\ closing'[p] = closing[p] \cup {Current(p)}
        /\ got'[p] = None /\ Current(p) \in workers[p]
    BY <1>4 DEF HandleRemoval, Removed
  <2> QED BY <1>0, <2>2, <2>3 DEF Maps
<1>5. CASE RemoveDone(p)
  <2>1. Current(p) \in Queue
    BY <1>5, CurrentIsQueue DEF RemoveDone, Forget
  <2>2. pc'[p] # "remove"
    BY <1>5, AdvancePc DEF RemoveDone, Forget
  <2>3. /\ workers'[p] = workers[p] \ {Current(p)}
        /\ shas'[p] = [shas[p] EXCEPT ![Current(p)] = None]
        /\ closing'[p] = closing[p] \ {Current(p)}
    BY <1>5 DEF RemoveDone, Forget
  <2> QED BY <1>0, <2>1, <2>2, <2>3 DEF Maps
<1> QED BY <1>1, <1>2, <1>3, <1>4, <1>5 DEF Listener

LEMMA MapsStep ==
  ASSUME Base, MapsInv, Next
  PROVE  MapsInv'
<1> SUFFICES ASSUME NEW r \in Proxy PROVE Maps(r)'
  BY DEF MapsInv, Maps
<1>0. Maps(r)
  BY DEF MapsInv, Maps
<1> USE DEF Base, TypeOK
<1>a. ASSUME UNCHANGED <<workers, shas, closing>>, UNCHANGED <<pc, pos, got>>,
             phase'[r] = "down" => phase[r] = "down"
      PROVE  Maps(r)'
  BY <1>0, <1>a, MapsKept
<1>1. CASE CleanMetadata
  BY <1>1, <1>a DEF CleanMetadata, listenerVars, workerVars
<1>2. ASSUME NEW p \in Proxy, Loading(p) PROVE Maps(r)'
  <2>1. CASE Start(p) \/ LoadFail(p)
    BY <1>a, <2>1 DEF Start, LoadFail, workerVars, listenerVars
  <2>2. CASE LoadDone(p)
    <3>1. pc'[r] = "remove" => UNCHANGED <<pc[r], pos[r], got[r]>>
      BY <2>2 DEF LoadDone, FirstId
    <3>2. phase'[r] = "down" => phase[r] = "down"
      BY <2>2 DEF LoadDone, FirstId
    <3> QED BY <1>0, <2>2, <3>1, <3>2, MapsKept DEF LoadDone, FirstId, workerVars
  <2>3. ASSUME NEW q \in Queue, LoadWorker(p, q) PROVE Maps(r)'
    <3>1. UNCHANGED <<phase, pc, pos, got>>
      BY <2>3 DEF LoadWorker, listenerVars
    <3>2. CASE r # p
      <4>1. workers'[r] = workers[r] /\ shas'[r] = shas[r] /\ closing'[r] = closing[r]
        BY <2>3, <3>2 DEF LoadWorker
      <4> QED BY <1>0, <3>1, <4>1, MapsKept
    <3>3. CASE r = p
      <4>1. pc[p] = "off" /\ phase[p] = "loading"
        BY <2>3 DEF LoadWorker, ControlInv
      <4>2. /\ workers'[p] = workers[p] \cup {q}
            /\ shas'[p] = [shas[p] EXCEPT ![q] = meta[q]]
            /\ closing'[p] = closing[p] \ {q}
            /\ meta[q] # None
        BY <2>3 DEF LoadWorker
      <4> QED BY <1>0, <3>1, <3>3, <4>1, <4>2 DEF Maps
    <3> QED BY <3>2, <3>3
  <2> QED BY <1>2, <2>1, <2>2, <2>3 DEF Loading
<1>3. ASSUME NEW p \in Proxy,
             \/ Requests(p) \/ Scripts(p) \/ HandlerReply(p) \/ ConnectionReset(p)
      PROVE  Maps(r)'
  BY <1>3, <1>a DEF Requests, AddWorker, RemoveWorker, Send, Scripts, workerVars,
     UpdateWorkerMetadata, RemoveWorkerMetadata, HandlerReply, ConnectionReset,
     listenerVars
<1>4. ASSUME NEW p \in Proxy, Listener(p) \/ ListenerError(p) PROVE Maps(r)'
  <2>1. CASE r = p
    BY <1>0, <1>4, <2>1, ListenerMaps
  <2>2. CASE r # p
    <3>1. /\ workers'[r] = workers[r] /\ shas'[r] = shas[r]
          /\ closing'[r] = closing[r] /\ phase'[r] = phase[r]
          /\ UNCHANGED <<pc[r], pos[r], got[r]>>
      BY <1>4, <2>2, ListenerIsLocal
    <3> QED BY <1>0, <3>1, MapsKept
  <2> QED BY <2>1, <2>2
<1>5. ASSUME NEW p \in Proxy, Stopping(p) PROVE Maps(r)'
  <2>1. CASE WorkersClosed(p)
    BY <1>a, <2>1 DEF WorkersClosed, workerVars, listenerVars
  <2>2. CASE GracefulShutdown(p)
    <3>1. UNCHANGED <<workers, shas, pc, pos, got, phase>>
      BY <2>2 DEF GracefulShutdown
    <3>2. closing' = [closing EXCEPT ![p] = workers[p]]
      BY <2>2 DEF GracefulShutdown
    <3>3. pc[r] = "remove" => Current(r)' = Current(r)
      BY <3>1, CurrentStays DEF BatchInv
    <3> QED BY <1>0, <3>1, <3>2, <3>3 DEF Maps
  <2>3. CASE Terminate(p)
    <3>1. CASE r = p
      BY <2>3, <3>1 DEF Terminate, Maps
    <3>2. CASE r # p
      BY <1>0, <2>3, <3>2, MapsKept DEF Terminate
    <3> QED BY <3>1, <3>2
  <2> QED BY <1>5, <2>1, <2>2, <2>3 DEF Stopping, Exit, Crash
<1> QED BY <1>1, <1>2, <1>3, <1>4, <1>5 DEF Next

LEMMA ScanStep ==
  ASSUME Base, ScanInv, Next
  PROVE  ScanInv'
<1> USE DEF Base, TypeOK
<1>1. CASE CleanMetadata
  BY <1>1 DEF CleanMetadata, ScanInv
<1>2. ASSUME NEW p \in Proxy, Scripts(p) PROVE ScanInv'
  <2>1. Head(sent[p]) \in Command
    BY <1>2, HeadOfSent DEF Scripts, UpdateWorkerMetadata, RemoveWorkerMetadata
  <2>2. CASE UpdateWorkerMetadata(p)
    <3>1. Head(sent[p]).version # None
      BY <2>1, <2>2, RegistryAssumption DEF Command, UpdateWorkerMetadata
    <3> QED BY <2>2, <3>1 DEF UpdateWorkerMetadata, ScanInv
  <2>3. CASE RemoveWorkerMetadata(p)
    BY <2>3 DEF RemoveWorkerMetadata, ScanInv
  <2> QED BY <1>2, <2>2, <2>3 DEF Scripts
<1>3. ASSUME NEW p \in Proxy, Loading(p) PROVE ScanInv'
  <2>1. CASE LoadFail(p) \/ LoadDone(p)
    BY <2>1 DEF LoadFail, LoadDone, FirstId, ScanInv, redisVars
  <2>3. CASE Start(p)
    <3>1. /\ meta' = meta
          /\ mustScan' = [mustScan EXCEPT ![p] = {q \in Queue : meta[q] # None}]
      BY <2>3 DEF Start, redisVars
    <3>2. \A x \in Proxy : mustScan'[x] =
             IF x = p THEN {q \in Queue : meta[q] # None} ELSE mustScan[x]
      BY <3>1
    <3> QED BY <3>1, <3>2 DEF ScanInv
  <2>2. ASSUME NEW q \in Queue, LoadWorker(p, q) PROVE ScanInv'
    BY <2>2 DEF LoadWorker, ScanInv, redisVars
  <2> QED BY <1>3, <2>1, <2>2, <2>3 DEF Loading
<1>4. ASSUME NEW p \in Proxy, Stopping(p) PROVE ScanInv'
  BY <1>4 DEF Stopping, GracefulShutdown, WorkersClosed, Exit, Crash, Terminate,
              ScanInv, redisVars
<1>5. ASSUME NEW p \in Proxy, Requests(p) \/ HandlerReply(p) \/ ConnectionReset(p)
      PROVE  ScanInv'
  BY <1>5 DEF Requests, AddWorker, RemoveWorker, Send, HandlerReply,
              ConnectionReset, ScanInv, redisVars
<1>6. ASSUME NEW p \in Proxy, Listener(p) \/ ListenerError(p) PROVE ScanInv'
  BY <1>6 DEF Listener, ListenerError, XreadServe, XreadTimeout, TakeReply,
              ListenerAborted, HgetServe, HandleNothing, HandleUpdate, Replace, Advance,
              HandlePoison, HandleRemoval, Removed, CloseDone, RemoveDone, Forget, ScanInv,
              redisVars
<1> QED BY <1>1, <1>2, <1>3, <1>4, <1>5, <1>6 DEF Next

-----------------------------------------------------------------------------
(* No leaked worker.                                                       *)

\* NoLeakedWorker of one process: its unreferenced workers stay as they are.
Counted(p) == \A q \in Queue : Unreferenced(p, q)' = Unreferenced(p, q)

LEMMA CountedKept ==
  ASSUME NEW p \in Proxy, workers'[p] = workers[p],
         closing'[p] = closing[p], running'[p] = running[p]
  PROVE  Counted(p)
BY DEF Counted, Unreferenced, OpenInMap

LEMMA LeakStep ==
  ASSUME Base, MapsInv, Next, NEW r \in Proxy, NEW x \in Queue,
         ~FieldRepeated(r, x), phase'[r] # "down"
  PROVE  Unreferenced(r, x)' = Unreferenced(r, x)
<1> USE DEF Base, TypeOK
<1> DEFINE Kept == Unreferenced(r, x)' = Unreferenced(r, x)
<1>0. Maps(r) /\ running[r][x] \in Int
  BY DEF MapsInv, Maps
<1>a. ASSUME Counted(r) PROVE Kept
  BY <1>a DEF Counted
<1>1. ASSUME UNCHANGED workerVars PROVE Kept
  BY <1>a, <1>1, CountedKept DEF workerVars
<1>2. ASSUME NEW p \in Proxy, NEW q \in Queue, LoadWorker(p, q) PROVE Kept
  <2>1. CASE r # p
    BY <1>a, <1>2, <2>1, CountedKept DEF LoadWorker
  <2>2. CASE r = p
    <3>1. /\ workers'[p] = workers[p] \cup {q} /\ closing'[p] = closing[p] \ {q}
          /\ running'[p] = [running[p] EXCEPT ![q] = @ + 1]
          /\ phase[p] = "loading"
      BY <1>2 DEF LoadWorker
    <3>2. CASE x # q
      BY <2>2, <3>1, <3>2 DEF Unreferenced, OpenInMap
    <3>3. CASE x = q
      <4>1. running'[r][x] = running[r][x] + 1
        BY <2>2, <3>1, <3>3
      <4>2. OpenInMap(r, x) = 0
        BY <2>2, <3>1, <4>1 DEF FieldRepeated, OpenInMap
      <4>3. OpenInMap(r, x)' = 1
        BY <2>2, <3>1, <3>3 DEF OpenInMap
      <4> QED BY <1>0, <4>1, <4>2, <4>3 DEF Unreferenced
    <3> QED BY <3>2, <3>3
  <2> QED BY <2>1, <2>2
<1>3. ASSUME NEW p \in Proxy, Listener(p) \/ ListenerError(p) PROVE Kept
  <2>1. CASE r # p
    <3>1. /\ workers'[r] = workers[r] /\ closing'[r] = closing[r]
          /\ running'[r] = running[r]
      BY <1>3, <2>1, ListenerIsLocal
    <3> QED BY <1>a, <3>1, CountedKept
  <2>2. CASE r = p /\ HandleUpdate(p)
    <3>1. Current(p) \in Queue
      BY <2>2, CurrentIsQueue DEF HandleUpdate, Replace
    <3>2. /\ workers'[p] = workers[p] \cup {Current(p)}
          /\ closing'[p] = closing[p] \ {Current(p)}
          /\ running'[p] = [running[p] EXCEPT
                              ![Current(p)] = @ + 1 - OpenInMap(p, Current(p))]
      BY <2>2 DEF HandleUpdate, Replace
    <3>3. CASE x # Current(p)
      BY <2>2, <3>2, <3>3 DEF Unreferenced, OpenInMap
    <3>4. CASE x = Current(p)
      <4>1. running'[r][x] = running[r][x] + 1 - OpenInMap(r, x)
        BY <2>2, <3>2, <3>4
      <4>2. OpenInMap(r, x)' = 1
        BY <2>2, <3>2, <3>4 DEF OpenInMap
      <4>3. OpenInMap(r, x) \in {0, 1}
        BY DEF OpenInMap
      <4> QED BY <1>0, <4>1, <4>2, <4>3 DEF Unreferenced
    <3> QED BY <3>3, <3>4
  <2>3. CASE r = p /\ HandleRemoval(p)
    <3>1. Current(p) \in Queue
      BY <2>3, CurrentIsQueue DEF HandleRemoval, Removed
    <3>2. /\ workers'[p] = workers[p]
          /\ closing'[p] = closing[p] \cup {Current(p)}
          /\ running'[p] = [running[p] EXCEPT
                              ![Current(p)] = @ - OpenInMap(p, Current(p))]
      BY <2>3 DEF HandleRemoval, Removed
    <3>3. CASE x # Current(p)
      BY <2>3, <3>2, <3>3 DEF Unreferenced, OpenInMap
    <3>4. CASE x = Current(p)
      <4>1. running'[r][x] = running[r][x] - OpenInMap(r, x)
        BY <2>3, <3>2, <3>4
      <4>2. OpenInMap(r, x)' = 0
        BY <2>3, <3>2, <3>4 DEF OpenInMap
      <4>3. OpenInMap(r, x) \in {0, 1}
        BY DEF OpenInMap
      <4> QED BY <1>0, <4>1, <4>2, <4>3 DEF Unreferenced
    <3> QED BY <3>3, <3>4
  <2>4. CASE r = p /\ RemoveDone(p)
    <3>1. /\ workers'[p] = workers[p] \ {Current(p)}
          /\ closing'[p] = closing[p] \ {Current(p)}
          /\ running' = running /\ Current(p) \in closing[p]
      BY <1>0, <2>4 DEF RemoveDone, Forget, Maps
    <3>2. \A q \in Queue : OpenInMap(p, q)' = OpenInMap(p, q)
      BY <3>1 DEF OpenInMap
    <3> QED BY <2>4, <3>1, <3>2 DEF Unreferenced
  <2>5. CASE \/ XreadServe(p) \/ XreadTimeout(p) \/ TakeReply(p)
             \/ ListenerAborted(p) \/ ListenerError(p) \/ HgetServe(p)
             \/ HandleNothing(p) \/ HandlePoison(p) \/ CloseDone(p)
    BY <1>1, <2>5 DEF XreadServe, XreadTimeout, TakeReply, ListenerAborted,
       ListenerError, HgetServe, HandleNothing, HandlePoison, CloseDone
  <2> QED BY <1>3, <2>1, <2>2, <2>3, <2>4, <2>5 DEF Listener
<1>4. ASSUME NEW p \in Proxy, GracefulShutdown(p) PROVE Kept
  <2>1. CASE r # p
    BY <1>a, <1>4, <2>1, CountedKept DEF GracefulShutdown
  <2>2. CASE r = p
    <3>1. /\ workers'[p] = workers[p] /\ closing'[p] = workers[p]
          /\ running'[p] = [q \in Queue |-> running[p][q] - OpenInMap(p, q)]
      BY <1>4 DEF GracefulShutdown
    <3>2. OpenInMap(r, x)' = 0 /\ OpenInMap(r, x) \in {0, 1}
      BY <2>2, <3>1 DEF OpenInMap
    <3>3. running'[r][x] = running[r][x] - OpenInMap(r, x)
      BY <2>2, <3>1
    <3> QED BY <1>0, <3>2, <3>3 DEF Unreferenced
  <2> QED BY <2>1, <2>2
<1>5. ASSUME NEW p \in Proxy, Terminate(p) PROVE Kept
  <2>1. CASE r # p
    BY <1>a, <1>5, <2>1, CountedKept DEF Terminate
  <2>2. CASE r = p
    BY <1>5, <2>2 DEF Terminate
  <2> QED BY <2>1, <2>2
<1> QED
  BY <1>1, <1>2, <1>3, <1>4, <1>5
     DEF Next, CleanMetadata, Loading, Start, LoadFail, LoadDone, FirstId, Requests,
         AddWorker, RemoveWorker, Send, Scripts, UpdateWorkerMetadata,
         RemoveWorkerMetadata, HandlerReply, ConnectionReset, Stopping,
         WorkersClosed, Exit, Crash

-----------------------------------------------------------------------------
(* No silent staleness.                                                    *)

\* NoSilentStaleness of one process and queue, GotFresh of one process.
Told(p, q) ==
  (Following(p) /\ lost[p] = {} /\ shas[p][q] # meta[q])
    => Announced(q, HandledUpTo(p)) \/ InHand(p, q)

Fresh(p) ==
  (pc[p] \in {"hgot", "remove"} /\ lost[p] = {} /\ got[p] # meta[Current(p)])
    => Announced(Current(p), pos[p])

\* What was announced stays announced.
LEMMA AnnouncedKept ==
  ASSUME Base, Next, NEW q, NEW id \in Nat, Announced(q, id)
  PROVE  Announced(q, id)'
<1>1. PICK i \in id + 1 .. Len(events) : events[i] = q
  BY DEF Announced
<1>2. i \in 1..Len(events) /\ i \in id + 1 .. Len(events')
  BY <1>1, StreamGrows
<1>3. events'[i] = q
  BY <1>1, <1>2, StreamGrows
<1> QED BY <1>2, <1>3 DEF Announced

LEMMA HandledIsId ==
  ASSUME Base, NEW p \in Proxy
  PROVE  HandledUpTo(p) \in Nat /\ HandledUpTo(p) <= Len(events)
<1>1. /\ lastEventId[p] \in 0..Len(events) /\ pos[p] \in 0..Len(events)
      /\ Len(events) \in Nat
  BY DEF Base, TypeOK
<1>2. pc[p] = "hget" => pos[p] # 0
  BY DEF Base, BatchInv
<1> QED BY <1>1, <1>2 DEF HandledUpTo

\* A step that changes neither the process nor the metadata of the queue.
LEMMA ToldKept ==
  ASSUME Base, Next, NEW p \in Proxy, NEW q \in Queue, Told(p, q),
         UNCHANGED <<phase[p], pc[p], pos[p], got[p], lost[p], shas[p][q]>>,
         phase[p] = "loading" => lastEventId'[p] = lastEventId[p],
         meta'[q] = meta[q],
         q \in mustScan[p] => q \in mustScan'[p]
  PROVE  Told(p, q)'
<1> SUFFICES ASSUME Following(p), lost[p] = {}, shas[p][q] # meta[q]
             PROVE  Announced(q, HandledUpTo(p))' \/ InHand(p, q)'
  BY DEF Told, Following
<1>1. HandledUpTo(p)' = HandledUpTo(p)
  BY DEF HandledUpTo
<1>2. CASE Announced(q, HandledUpTo(p))
  BY <1>1, <1>2, HandledIsId, AnnouncedKept DEF Announced
<1>3. CASE InHand(p, q)
  <2>1. CASE phase[p] = "loading" /\ q \in mustScan[p]
    BY <2>1 DEF InHand
  <2>2. CASE pc[p] \in {"hgot", "remove"} /\ q = Current(p) /\ got[p] = meta[q]
    <3>1. pos[p] # 0
      BY <2>2 DEF Base, BatchInv
    <3> QED BY <2>2, <3>1, CurrentStays DEF InHand
  <2> QED BY <1>3, <2>1, <2>2 DEF InHand
<1> QED BY <1>2, <1>3 DEF Told

LEMMA FreshKept ==
  ASSUME Base, Next, NEW p \in Proxy, Fresh(p),
         UNCHANGED <<pc[p], pos[p], got[p], lost[p]>>,
         pc[p] \in {"hgot", "remove"} => meta'[Current(p)] = meta[Current(p)]
  PROVE  Fresh(p)'
<1> SUFFICES ASSUME pc[p] \in {"hgot", "remove"}, lost[p] = {},
                    got'[p] # meta'[Current(p)']
             PROVE  Announced(Current(p), pos[p])'
  BY DEF Fresh
<1>1. pos[p] # 0 /\ pos[p] \in Nat
  BY DEF Base, BatchInv, TypeOK
<1>2. Current(p)' = Current(p)
  BY <1>1, CurrentStays
<1>3. Announced(Current(p), pos[p])
  BY <1>2 DEF Fresh
<1>4. Announced(Current(p), pos[p])' <=> \E i \in pos[p] + 1 .. Len(events') : events'[i] = Current(p)
  BY <1>2 DEF Announced
<1>5. PICK i \in pos[p] + 1 .. Len(events) : events[i] = Current(p)
  BY <1>3 DEF Announced
<1>6. i \in pos[p] + 1 .. Len(events') /\ events'[i] = Current(p)
  BY <1>1, <1>5, StreamGrows
<1> QED BY <1>4, <1>6

\* A step that takes the metadata of q to another value announces q.
LEMMA ScriptsTold ==
  ASSUME Base, ScanInv, Next, NEW p \in Proxy, Scripts(p), NEW r \in Proxy
  PROVE  /\ \A q \in Queue : Told(r, q) => Told(r, q)'
         /\ Fresh(r) => Fresh(r)'
<1>1. Head(sent[p]) \in Command
  BY HeadOfSent DEF Base, Scripts, UpdateWorkerMetadata, RemoveWorkerMetadata
<1>2. PICK c \in Queue : c = Head(sent[p]).queue
  BY <1>1 DEF Command
<1>3. UNCHANGED <<phase, pc, pos, got, lost, shas, lastEventId>>
  BY DEF Scripts, UpdateWorkerMetadata, RemoveWorkerMetadata, workerVars,
         listenerVars
<1>4. \A q \in Queue \ {c} : meta'[q] = meta[q] /\ (q \in mustScan[r] => q \in mustScan'[r])
  <2>1. CASE UpdateWorkerMetadata(p)
    BY <1>2, <2>1 DEF UpdateWorkerMetadata, Base, TypeOK
  <2>2. CASE RemoveWorkerMetadata(p)
    <3>1. meta' = [meta EXCEPT ![c] = None]
      BY <1>2, <2>2 DEF RemoveWorkerMetadata
    <3>2. mustScan'[r] = mustScan[r] \ {c}
      BY <1>2, <2>2 DEF RemoveWorkerMetadata
    <3> QED BY <3>1, <3>2 DEF Base, TypeOK
  <2> QED BY <2>1, <2>2 DEF Scripts
<1>5. \/ Announce(c)
      \/ meta'[c] = meta[c] /\ meta[c] = None
  BY <1>2 DEF Scripts, UpdateWorkerMetadata, RemoveWorkerMetadata, Base, TypeOK
<1>6. CASE Announce(c)
  <2>1. events \in Seq(Queue) /\ trimmed \in 0..Len(events) /\ Len(events) \in Nat
    BY DEF Base, TypeOK
  <2>2. Len(events') = Len(events) + 1 /\ events'[Len(events) + 1] = c
    BY <1>2, <1>6, <2>1, AnnounceFacts
  <2>3. ASSUME NEW id \in Nat, id <= Len(events)
        PROVE  Announced(c, id)'
    <3>1. Len(events) + 1 \in id + 1 .. Len(events')
      BY <2>1, <2>2, <2>3
    <3> QED BY <2>2, <3>1, <1>3 DEF Announced
  <2>4. Told(r, c)'
    <3>1. HandledUpTo(r)' = HandledUpTo(r)
      BY <1>3 DEF HandledUpTo
    <3> QED BY <2>3, <3>1, HandledIsId DEF Told, Announced
  <2>5. ASSUME Fresh(r) PROVE Fresh(r)'
    <3>1. CASE pc[r] \in {"hgot", "remove"} /\ Current(r) = c
      <4>1. pos[r] # 0 /\ pos[r] \in Nat /\ pos[r] <= Len(events)
        BY <3>1 DEF Base, BatchInv, TypeOK
      <4>2. Current(r)' = c
        BY <1>3, <3>1, <4>1, CurrentStays
      <4> QED BY <1>3, <2>3, <4>1, <4>2 DEF Fresh, Announced
    <3>2. CASE pc[r] \in {"hgot", "remove"} /\ Current(r) # c
      <4>1. Current(r) \in Queue
        BY <3>2, CurrentIsQueue DEF Base
      <4> QED BY <1>3, <1>4, <2>5, <3>2, <4>1, FreshKept
    <3>3. CASE pc[r] \notin {"hgot", "remove"}
      BY <1>3, <3>3 DEF Fresh
    <3> QED BY <3>1, <3>2, <3>3
  <2> QED BY <1>3, <1>4, <2>4, <2>5, ToldKept
<1>7. CASE meta'[c] = meta[c] /\ meta[c] = None
  <2>1. c \notin mustScan[r]
    BY <1>7 DEF ScanInv
  <2>2. \A q \in Queue : meta'[q] = meta[q] /\ (q \in mustScan[r] => q \in mustScan'[r])
    BY <1>4, <1>7, <2>1
  <2>3. pc[r] \in {"hgot", "remove"} => Current(r) \in Queue
    BY CurrentIsQueue DEF Base
  <2> QED BY <1>3, <2>2, <2>3, ToldKept, FreshKept
<1> QED BY <1>5, <1>6, <1>7

\* The tail of the loop body: nothing is lost if what is not up to date is
\* announced after the entry that was handled.
LEMMA AdvanceTold ==
  ASSUME Base, NEW p \in Proxy, Advance(p), pc[p] # "off",
         \A q \in Queue : (lost[p] = {} /\ shas'[p][q] # meta[q])
                            => Announced(q, pos[p])
  PROVE  (\A q \in Queue : Told(p, q)') /\ Fresh(p)'
<1>1. pos[p] \in Nat /\ lastEventId[p] \in Nat /\ phase[p] = "serving"
  BY DEF Base, TypeOK, ControlInv
<1>2. UNCHANGED <<meta, events, phase>>
  BY DEF Advance, redisVars
<1>3. Fresh(p)'
  BY AdvancePc DEF Fresh, Base
<1>4. CASE NextEntry(p)
  <2>1. pc'[p] = "hget" /\ pos'[p] = pos[p] + 1 /\ lost'[p] = lost[p]
    BY <1>4 DEF NextEntry, Base, TypeOK
  <2>2. HandledUpTo(p)' = pos[p]
    BY <1>1, <1>2, <2>1 DEF HandledUpTo
  <2> QED BY <1>2, <1>3, <2>1, <2>2 DEF Told, Announced
<1>5. CASE LeaveLoop(p)
  <2>1. ~Following(p)'
    BY <1>1, <1>2, <1>5 DEF LeaveLoop, Following, ListenerSteps, Base, TypeOK
  <2> QED BY <1>3, <2>1 DEF Told
<1>6. CASE ReadAgain(p)
  <2>1. pc'[p] = "xread" /\ pos'[p] = lastEventId[p]
    BY <1>6 DEF ReadAgain, Cursor, Base, TypeOK
  <2>2. HandledUpTo(p)' = lastEventId[p]
    BY <1>1, <1>2, <2>1 DEF HandledUpTo
  <2>3. CASE pos[p] < lastEventId[p]
    <3>1. lost'[p] # {}
      BY <1>6, <2>3 DEF ReadAgain, Cursor, Base, TypeOK
    <3> QED BY <1>3, <3>1 DEF Told
  <2>4. CASE lastEventId[p] <= pos[p]
    <3>1. lost'[p] = lost[p]
      BY <1>1, <1>6, <2>4 DEF ReadAgain, Cursor, Base, TypeOK
    <3>2. \A q \in Queue : Announced(q, pos[p]) => Announced(q, lastEventId[p])
      BY <1>1, <2>4 DEF Announced, Base, TypeOK
    <3> QED BY <1>2, <1>3, <2>2, <3>1, <3>2 DEF Told, Announced
  <2> QED BY <1>1, <2>3, <2>4
<1> QED BY <1>4, <1>5, <1>6 DEF Advance

LEMMA ListenerTold ==
  ASSUME Base, MapsInv, Next, NEW p \in Proxy, Listener(p) \/ ListenerError(p),
         \A q \in Queue : Told(p, q), Fresh(p)
  PROVE  (\A q \in Queue : Told(p, q)') /\ Fresh(p)'
<1>0. /\ pos[p] \in 0..Len(events) /\ Len(events) \in Nat
      /\ phase \in [Proxy -> Phases]
  BY DEF Base, TypeOK
<1>1. pc[p] \in ListenerSteps
  BY DEF Listener, ListenerError, XreadServe, XreadTimeout, TakeReply,
         ListenerAborted, HgetServe, HandleNothing, HandleUpdate, Replace,
         HandlePoison, HandleRemoval, Removed, CloseDone, RemoveDone, Forget, ListenerSteps
<1>2. pc[p] # "off" /\ phase[p] = "serving" /\ Following(p)
  BY <1>1 DEF ListenerSteps, Following, Base, ControlInv
\* What Told says once the entry in work is looked up.
<1>3. pc[p] # "hget" =>
        \A q \in Queue : (lost[p] = {} /\ shas[p][q] # meta[q])
                           => Announced(q, pos[p]) \/ InHand(p, q)
  BY <1>2 DEF Told, HandledUpTo
<1>4. \A q \in Queue : InHand(p, q) => /\ pc[p] \in {"hgot", "remove"}
                                       /\ q = Current(p) /\ got[p] = meta[q]
  BY <1>2 DEF InHand
<1>5. CASE TakeReply(p) \/ CloseDone(p)
  <2>1. Advance(p) /\ shas' = shas /\ pc[p] \in {"reply", "close"}
    BY <1>5 DEF TakeReply, CloseDone, workerVars
  <2> QED BY <1>2, <1>3, <1>4, <2>1, AdvanceTold
<1>6. CASE HandleNothing(p)
  <2>1. Advance(p) /\ shas' = shas /\ pc[p] = "hgot"
    BY <1>6 DEF HandleNothing, workerVars
  <2>2. got[p] = shas[p][Current(p)]
    <3>1. Current(p) \in Queue
      BY <2>1, CurrentIsQueue DEF Base
    <3> QED BY <1>6, <3>1 DEF HandleNothing, MapsInv
  <2> QED BY <1>2, <1>3, <1>4, <2>1, <2>2, AdvanceTold
<1>7. CASE HandleUpdate(p) \/ RemoveDone(p)
  <2>1. Current(p) \in Queue /\ pc[p] \in {"hgot", "remove"}
    BY <1>7, CurrentIsQueue DEF HandleUpdate, Replace, RemoveDone, Forget, Base
  <2>2. shas' = [shas EXCEPT ![p][Current(p)] = got[p]]
    BY <1>7 DEF HandleUpdate, Replace, RemoveDone, Forget, MapsInv
  <2>3. /\ shas'[p][Current(p)] = got[p]
        /\ \A q \in Queue \ {Current(p)} : shas'[p][q] = shas[p][q]
    BY <2>1, <2>2 DEF Base, TypeOK
  <2>4. \A q \in Queue : (lost[p] = {} /\ shas'[p][q] # meta[q])
                           => Announced(q, pos[p])
    BY <1>3, <1>4, <2>1, <2>3 DEF Fresh
  <2>5. CASE Advance(p)
    BY <1>2, <2>4, <2>5, AdvanceTold
  <2>6. CASE /\ pc' = [pc EXCEPT ![p] = "close"]
             /\ UNCHANGED <<redisVars, phase, pos, lost>>
    <3>1. HandledUpTo(p)' = pos[p] /\ pc'[p] = "close"
      BY <1>2, <2>6 DEF HandledUpTo, Base, TypeOK
    <3> QED BY <2>4, <2>6, <3>1 DEF Told, Fresh, Announced, redisVars
  <2> QED BY <1>7, <2>5, <2>6 DEF HandleUpdate, Replace, RemoveDone, Forget
<1>8. CASE HandleRemoval(p)
  <2>1. /\ pc[p] = "hgot" /\ pc'[p] = "remove" /\ shas' = shas
        /\ UNCHANGED <<meta, events, phase, pos, got, lost, mustScan>>
    BY <1>8 DEF HandleRemoval, Removed, redisVars, Base, TypeOK
  <2>2. Current(p)' = Current(p) /\ HandledUpTo(p)' = pos[p]
    BY <1>2, <2>1 DEF Current, HandledUpTo
  <2>3. ASSUME NEW q \in Queue PROVE Told(p, q)'
    BY <1>2, <1>3, <1>4, <2>1, <2>2 DEF Told, InHand, Announced
  <2> QED BY <2>1, <2>2, <2>3 DEF Fresh, Announced
<1>9. CASE HgetServe(p)
  <2>1. /\ pc[p] = "hget" /\ pc'[p] = "hgot" /\ got'[p] = meta[Current(p)]
        /\ UNCHANGED <<meta, events, phase, pos, lost, shas>>
    BY <1>9 DEF HgetServe, redisVars, workerVars, Base, TypeOK
  <2>2. Current(p)' = Current(p) /\ HandledUpTo(p)' = pos[p]
    BY <1>2, <2>1 DEF Current, HandledUpTo
  <2>3. ASSUME NEW q \in Queue, lost[p] = {}, shas[p][q] # meta[q]
        PROVE  Announced(q, pos[p]) \/ q = Current(p)
    <3>1. Announced(q, pos[p] - 1)
      BY <1>2, <1>4, <2>1, <2>3 DEF Told, HandledUpTo
    <3>2. PICK i \in pos[p] - 1 + 1 .. Len(events) : events[i] = q
      BY <3>1 DEF Announced
    <3>3. i = pos[p] \/ i \in pos[p] + 1 .. Len(events)
      BY <1>0, <3>2
    <3> QED BY <3>2, <3>3 DEF Announced, Current
  <2>4. ASSUME NEW q \in Queue PROVE Told(p, q)'
    BY <2>1, <2>2, <2>3 DEF Told, InHand, Announced
  <2> QED BY <2>1, <2>2, <2>4 DEF Fresh
<1>10. CASE XreadServe(p) \/ XreadTimeout(p)
  <2>1. /\ pc[p] = "xread" /\ pc'[p] = "reply"
        /\ UNCHANGED <<meta, events, phase, shas>>
    BY <1>10 DEF XreadServe, XreadTimeout, redisVars, workerVars, Base, TypeOK
  <2>2. lost'[p] = {} => lost[p] = {} /\ pos'[p] = pos[p]
    <3>1. CASE XreadTimeout(p)
      BY <3>1 DEF XreadTimeout
    <3>2. CASE XreadServe(p) /\ pos[p] < trimmed
      BY <3>2 DEF XreadServe, Base, TypeOK
    <3>3. CASE XreadServe(p) /\ ~(pos[p] < trimmed)
      BY <3>3 DEF XreadServe, Larger, Base, TypeOK
    <3> QED BY <1>10, <3>1, <3>2, <3>3
  <2>3. HandledUpTo(p)' = pos'[p]
    BY <1>2, <2>1 DEF HandledUpTo
  <2> QED BY <1>3, <1>4, <2>1, <2>2, <2>3 DEF Told, Fresh, Announced
<1>11. CASE ListenerAborted(p) \/ ListenerError(p) \/ HandlePoison(p)
  <2>1. pc'[p] \in {"done", "dead"} /\ phase'[p] = "serving"
    BY <1>2, <1>11 DEF ListenerAborted, ListenerError, HandlePoison, Base, TypeOK
  <2> QED BY <2>1 DEF Told, Fresh, Following, ListenerSteps
<1> QED BY <1>5, <1>6, <1>7, <1>8, <1>9, <1>10, <1>11 DEF Listener

LEMMA LoadingTold ==
  ASSUME Base, MapsInv, Next, NEW p \in Proxy, Loading(p),
         \A q \in Queue : Told(p, q)
  PROVE  (\A q \in Queue : Told(p, q)') /\ Fresh(p)'
<1> USE DEF Base, TypeOK
<1>1. phase[p] \in {"down", "loading"} /\ pc[p] = "off"
  BY DEF Loading, Start, LoadFail, LoadDone, FirstId, LoadWorker, ControlInv
<1>2. UNCHANGED <<meta, events>>
  BY DEF Loading, Start, LoadFail, LoadDone, FirstId, LoadWorker, redisVars
<1>3. pc'[p] \notin {"hgot", "remove"} /\ Fresh(p)'
  BY <1>1 DEF Loading, Start, LoadFail, LoadDone, FirstId, LoadWorker, listenerVars, Fresh
<1>4. CASE Start(p)
  <2>1. /\ phase'[p] = "loading" /\ shas' = shas
        /\ mustScan'[p] = {q \in Queue : meta[q] # None}
    BY <1>4 DEF Start, workerVars
  <2>2. \A q \in Queue : shas[p][q] = None
    BY <1>4 DEF Start, MapsInv
  <2> QED BY <1>2, <1>3, <2>1, <2>2 DEF Told, InHand
<1>5. CASE LoadFail(p)
  <2>1. phase'[p] = "failed" /\ pc'[p] = "off"
    BY <1>1, <1>5 DEF LoadFail, listenerVars
  <2> QED BY <1>3, <2>1 DEF Told, Following, ListenerSteps
<1>6. CASE LoadDone(p)
  <2>1. /\ phase[p] = "loading" /\ phase'[p] = "serving" /\ mustScan[p] = {}
        /\ pc'[p] = "xread" /\ pos'[p] = lastEventId[p]
        /\ UNCHANGED <<shas, lost>>
    BY <1>6 DEF LoadDone, FirstId, workerVars
  <2>2. HandledUpTo(p)' = lastEventId[p] /\ HandledUpTo(p) = lastEventId[p]
    BY <1>1, <2>1 DEF HandledUpTo
  <2>3. Following(p) /\ \A q \in Queue : ~InHand(p, q)
    BY <1>1, <2>1 DEF Following, InHand
  <2> QED BY <1>2, <1>3, <2>1, <2>2, <2>3 DEF Told, Announced
<1>7. ASSUME NEW q \in Queue, LoadWorker(p, q)
      PROVE  \A x \in Queue : Told(p, x)'
  <2>1. /\ phase[p] = "loading" /\ phase'[p] = "loading"
        /\ UNCHANGED <<lost, lastEventId>>
        /\ mustScan'[p] = mustScan[p] \ {q}
        /\ shas'[p] = [shas[p] EXCEPT ![q] = meta[q]]
    BY <1>7 DEF LoadWorker
  <2>2. HandledUpTo(p)' = HandledUpTo(p)
    BY <1>1, <1>7, <2>1 DEF HandledUpTo, LoadWorker, listenerVars
  <2>3. Following(p) /\ \A x \in Queue : InHand(p, x) => x \in mustScan[p]
    BY <1>1, <2>1 DEF Following, InHand
  <2>4. ASSUME NEW x \in Queue PROVE Told(p, x)'
    BY <1>2, <2>1, <2>2, <2>3 DEF Told, InHand, Announced
  <2> QED BY <2>4
<1> QED BY <1>3, <1>4, <1>5, <1>6, <1>7 DEF Loading

LEMMA StalenessStep ==
  ASSUME Base, MapsInv, ScanInv, NoSilentStaleness, GotFresh, Next
  PROVE  NoSilentStaleness' /\ GotFresh'
<1> SUFFICES ASSUME NEW r \in Proxy
             PROVE  (\A q \in Queue : Told(r, q)') /\ Fresh(r)'
  BY DEF NoSilentStaleness, GotFresh, Told, Fresh
<1>0. (\A q \in Queue : Told(r, q)) /\ Fresh(r)
  BY DEF NoSilentStaleness, GotFresh, Told, Fresh
<1> USE DEF Base, TypeOK
\* The step of another process, or one that concerns the listener nowhere.
<1>a. ASSUME UNCHANGED <<phase[r], pc[r], pos[r], got[r], lost[r], shas[r], meta>>,
             phase[r] = "loading" => lastEventId'[r] = lastEventId[r],
             mustScan'[r] = mustScan[r]
      PROVE  (\A q \in Queue : Told(r, q)') /\ Fresh(r)'
  BY <1>0, <1>a, ToldKept, FreshKept
<1>1. CASE CleanMetadata
  <2>1. lost'[r] # {}
    BY <1>1 DEF CleanMetadata
  <2> QED BY <2>1 DEF Told, Fresh
<1>2. ASSUME NEW p \in Proxy, Loading(p)
      PROVE  (\A q \in Queue : Told(r, q)') /\ Fresh(r)'
  <2>1. CASE r = p
    BY <1>0, <1>2, <2>1, LoadingTold
  <2>2. CASE r # p
    <3>1. /\ UNCHANGED <<phase[r], pc[r], pos[r], got[r], lost[r], shas[r], meta>>
          /\ lastEventId'[r] = lastEventId[r] /\ mustScan'[r] = mustScan[r]
      BY <1>2, <2>2 DEF Loading, Start, LoadFail, LoadDone, FirstId, LoadWorker,
                        redisVars, workerVars, listenerVars
    <3> QED BY <1>a, <3>1
  <2> QED BY <2>1, <2>2
<1>3. ASSUME NEW p \in Proxy, Scripts(p)
      PROVE  (\A q \in Queue : Told(r, q)') /\ Fresh(r)'
  BY <1>0, <1>3, ScriptsTold
<1>4. ASSUME NEW p \in Proxy, Requests(p) \/ HandlerReply(p) \/ ConnectionReset(p)
      PROVE  (\A q \in Queue : Told(r, q)') /\ Fresh(r)'
  <2>1. UNCHANGED <<phase, pc, pos, got, lost, shas, meta, mustScan>>
    BY <1>4 DEF Requests, AddWorker, RemoveWorker, Send, HandlerReply,
                ConnectionReset, redisVars, workerVars, listenerVars
  <2>2. phase[r] = "loading" => lastEventId'[r] = lastEventId[r]
    <3>1. CASE HandlerReply(p)
      <4>1. phase[p] = "serving"
        BY <3>1 DEF HandlerReply, ControlInv
      <4> QED BY <3>1, <4>1 DEF HandlerReply
    <3>2. CASE Requests(p) \/ ConnectionReset(p)
      BY <3>2 DEF Requests, AddWorker, RemoveWorker, Send, ConnectionReset
    <3> QED BY <1>4, <3>1, <3>2
  <2> QED BY <1>a, <2>1, <2>2
<1>5. ASSUME NEW p \in Proxy, Listener(p) \/ ListenerError(p)
      PROVE  (\A q \in Queue : Told(r, q)') /\ Fresh(r)'
  <2>1. CASE r = p
    BY <1>0, <1>5, <2>1, ListenerTold
  <2>2. CASE r # p
    <3>1. /\ UNCHANGED <<phase[r], pc[r], pos[r], got[r], lost[r], shas[r], meta>>
          /\ lastEventId'[r] = lastEventId[r] /\ mustScan'[r] = mustScan[r]
      BY <1>5, <2>2, ListenerIsLocal DEF redisVars
    <3> QED BY <1>a, <3>1
  <2> QED BY <2>1, <2>2
<1>6. ASSUME NEW p \in Proxy, Stopping(p)
      PROVE  (\A q \in Queue : Told(r, q)') /\ Fresh(r)'
  <2>1. CASE GracefulShutdown(p) \/ WorkersClosed(p)
    BY <1>a, <2>1 DEF GracefulShutdown, WorkersClosed, redisVars, workerVars,
                      listenerVars
  <2>2. CASE Terminate(p) /\ r = p
    BY <2>2 DEF Terminate, Told, Fresh, Following, ListenerSteps
  <2>3. CASE Terminate(p) /\ r # p
    BY <1>a, <2>3 DEF Terminate, redisVars
  <2> QED BY <1>6, <2>1, <2>2, <2>3 DEF Stopping, Exit, Crash
<1> QED BY <1>1, <1>2, <1>3, <1>4, <1>5, <1>6 DEF Next

-----------------------------------------------------------------------------
(* A proxy without handlers.                                               *)

LEMMA ReplicaStep ==
  ASSUME Base, ReplicaBehind, ReplicaNeverSkips, Next
  PROVE  ReplicaBehind' /\ ReplicaNeverSkips'
<1> SUFFICES ASSUME NEW r \in Proxy, r \notin Admin
             PROVE  /\ (pc[r] \in ListenerSteps => lastEventId[r] <= pos[r])'
                    /\ "skipped" \notin lost'[r]
  BY DEF ReplicaBehind, ReplicaNeverSkips
<1> USE DEF Base, TypeOK
<1>0. /\ pc[r] \in ListenerSteps => lastEventId[r] <= pos[r]
      /\ "skipped" \notin lost[r]
      /\ pos[r] \in Nat /\ lastEventId[r] \in Nat /\ trimmed \in Nat
  BY DEF ReplicaBehind, ReplicaNeverSkips
<1> DEFINE Goal == /\ pc'[r] \in ListenerSteps => lastEventId'[r] <= pos'[r]
                   /\ "skipped" \notin lost'[r]
<1>a. ASSUME UNCHANGED <<pc[r], pos[r], lastEventId[r], lost[r]>>
      PROVE  Goal
  BY <1>0, <1>a
<1>1. CASE CleanMetadata
  BY <1>0, <1>1 DEF CleanMetadata, listenerVars
<1>2. ASSUME NEW p \in Proxy, Loading(p) PROVE Goal
  <2>1. CASE r # p
    BY <1>2, <1>a, <2>1 DEF Loading, Start, LoadFail, LoadDone, FirstId, LoadWorker,
                            listenerVars
  <2>2. CASE r = p
    <3>1. pc[r] = "off" /\ "off" \notin ListenerSteps
      BY <1>2, <2>2 DEF Loading, Start, LoadFail, LoadDone, FirstId, LoadWorker,
                        ControlInv, ListenerSteps
    <3> QED BY <1>0, <1>2, <2>2, <3>1
            DEF Loading, Start, LoadFail, LoadDone, FirstId, LoadWorker, listenerVars
  <2> QED BY <2>1, <2>2
<1>3. ASSUME NEW p \in Proxy, Requests(p) \/ Scripts(p) \/ ConnectionReset(p)
      PROVE  Goal
  BY <1>3, <1>a DEF Requests, AddWorker, RemoveWorker, Send, Scripts,
     UpdateWorkerMetadata, RemoveWorkerMetadata, ConnectionReset, listenerVars
<1>4. ASSUME NEW p \in Proxy, HandlerReply(p) PROVE Goal
  <2>1. p \in Admin
    BY <1>4 DEF HandlerReply, ControlInv
  <2> QED BY <1>4, <1>a, <2>1 DEF HandlerReply, listenerVars
<1>5. ASSUME NEW p \in Proxy, Listener(p) \/ ListenerError(p) PROVE Goal
  <2>1. CASE r # p
    <3>0. r \in Proxy \ {p} /\ (Listener(p) \/ ListenerError(p))
      BY <1>5, <2>1
    <3>1. /\ pc'[r] = pc[r] /\ pos'[r] = pos[r]
          /\ lastEventId'[r] = lastEventId[r] /\ lost'[r] = lost[r]
      BY <3>0, ListenerIsLocal
    <3> QED BY <1>0, <3>1
  <2>2. ASSUME Advance(r), pc[r] \in ListenerSteps PROVE Goal
    <3>1. CASE NextEntry(r)
      BY <1>0, <3>1 DEF NextEntry
    <3>2. CASE LeaveLoop(r)
      BY <1>0, <3>2 DEF LeaveLoop, ListenerSteps
    <3>3. CASE ReadAgain(r)
      <4>1. ~(pos[r] < lastEventId[r])
        BY <1>0, <2>2
      <4> QED BY <1>0, <3>3, <4>1 DEF ReadAgain, Cursor
    <3> QED BY <2>2, <3>1, <3>2, <3>3 DEF Advance
  <2>3. CASE r = p /\ (TakeReply(p) \/ HandleNothing(p) \/ CloseDone(p) \/ RemoveDone(p))
    BY <2>2, <2>3 DEF TakeReply, HandleNothing, CloseDone, RemoveDone, Forget, ListenerSteps
  <2>4. CASE r = p /\ HandleUpdate(p)
    <3>1. CASE Advance(p)
      BY <2>2, <2>4, <3>1 DEF HandleUpdate, Replace, ListenerSteps
    <3>2. CASE UNCHANGED <<pos, lastEventId, lost>>
      BY <1>0, <2>4, <3>2 DEF HandleUpdate, Replace, ListenerSteps
    <3> QED BY <2>4, <3>1, <3>2 DEF HandleUpdate, Replace
  <2>5. CASE r = p /\ XreadServe(p)
    <3>1. pos'[r] = Larger(pos[r], trimmed) /\ lastEventId' = lastEventId
      BY <2>5 DEF XreadServe
    <3>2. lost'[r] \subseteq lost[r] \cup {"trimmed"}
      BY <2>5 DEF XreadServe
    <3> QED BY <1>0, <2>5, <3>1, <3>2 DEF XreadServe, Larger, ListenerSteps
  <2>6. CASE r = p /\ (\/ XreadTimeout(p) \/ ListenerAborted(p) \/ ListenerError(p)
                       \/ HgetServe(p) \/ HandlePoison(p) \/ HandleRemoval(p))
    BY <1>0, <2>6 DEF XreadTimeout, ListenerAborted, ListenerError, HgetServe,
                      HandlePoison, HandleRemoval, Removed, ListenerSteps
  <2> QED BY <1>5, <2>1, <2>3, <2>4, <2>5, <2>6 DEF Listener
<1>6. ASSUME NEW p \in Proxy, Stopping(p) PROVE Goal
  <2>1. CASE GracefulShutdown(p) \/ WorkersClosed(p)
    BY <1>a, <2>1 DEF GracefulShutdown, WorkersClosed, listenerVars
  <2>2. CASE Terminate(p)
    BY <1>0, <2>2 DEF Terminate, ListenerSteps
  <2> QED BY <1>6, <2>1, <2>2 DEF Stopping, Exit, Crash
<1> QED BY <1>1, <1>2, <1>3, <1>4, <1>5, <1>6 DEF Next

-----------------------------------------------------------------------------
(* The theorems.                                                           *)

IInv == Base /\ MapsInv /\ ScanInv /\ GotFresh /\ NoSilentStaleness
             /\ ReplicaBehind /\ ReplicaNeverSkips

LEMMA IInvInit == Init => IInv
<1> SUFFICES ASSUME Init PROVE IInv
  OBVIOUS
<1>1. \A p \in Proxy : ~Following(p)
  BY DEF Init, Following, ListenerSteps
<1>2. MapsInv /\ ScanInv
  BY DEF Init, MapsInv, ScanInv
<1>3. GotFresh /\ ReplicaBehind /\ ReplicaNeverSkips
  BY DEF Init, GotFresh, ReplicaBehind, ReplicaNeverSkips, ListenerSteps
<1> QED BY <1>1, <1>2, <1>3, BaseInit DEF IInv, NoSilentStaleness

LEMMA IInvStutter == IInv /\ UNCHANGED vars => IInv'
<1> SUFFICES ASSUME IInv, UNCHANGED vars PROVE IInv'
  OBVIOUS
<1>1. Base'
  BY BaseStep DEF IInv
<1>2. MapsInv' /\ ScanInv' /\ ReplicaBehind' /\ ReplicaNeverSkips'
  BY DEF IInv, MapsInv, ScanInv, ReplicaBehind, ReplicaNeverSkips, Current, vars,
         redisVars, workerVars, listenerVars
<1>3. GotFresh' /\ NoSilentStaleness'
  BY DEF IInv, GotFresh, NoSilentStaleness, Announced, InHand, HandledUpTo,
         Following, Current, vars, redisVars, workerVars, listenerVars
<1> QED BY <1>1, <1>2, <1>3 DEF IInv

LEMMA IInvStep == IInv /\ [Next]_vars => IInv'
<1>1. ASSUME IInv, Next PROVE IInv'
  BY <1>1, BaseStep, MapsStep, ScanStep, StalenessStep, ReplicaStep DEF IInv
<1> QED BY <1>1, IInvStutter

LEMMA Invariant == Spec => []IInv
BY IInvInit, IInvStep, PTL DEF Spec

\* A live process whose worker differs from the registry is still going to
\* hear of it, unless one of the three named causes took the entry from it.
THEOREM StalenessAnnounced == Spec => []NoSilentStaleness
<1>1. IInv => NoSilentStaleness
  BY DEF IInv
<1> QED BY <1>1, Invariant, PTL

\* A proxy that receives no registry request never skips an entry.
THEOREM ReplicaReadsAll == Spec => []ReplicaNeverSkips
<1>1. IInv => ReplicaNeverSkips
  BY DEF IInv
<1> QED BY <1>1, Invariant, PTL

\* The invariants the runs check next to the properties hold in every instance.
THEOREM RegistryInvariant == Spec => []RegistryInv
<1>1. IInv => RegistryInv
  BY DEF IInv, Base, RegistryInv
<1> QED BY <1>1, Invariant, PTL

(***************************************************************************)
(* Whatever HSCAN repeats: a Worker object comes to run unreferenced only  *)
(* when a repeated field overwrites the map, and no other step than the    *)
(* end of the process changes how many there are.                          *)
(***************************************************************************)
THEOREM WorkersAccounted == Spec => NoLeakedWorker
<1> DEFINE Kept == \A p \in Proxy, q \in Queue :
                     Unreferenced(p, q)' # Unreferenced(p, q)
                       => phase'[p] = "down" \/ FieldRepeated(p, q)
<1>1. IInv /\ [Next]_vars => [Kept]_vars
  BY LeakStep DEF IInv
<1> QED BY <1>1, Invariant, PTL DEF Spec, NoLeakedWorker

(***************************************************************************)
(* A queue keeps a worker through every update, also while HSCAN repeats   *)
(* fields: the last open worker goes only for metadata that HGET found     *)
(* removed, or with the process.                                           *)
(***************************************************************************)
THEOREM UpdatesKeepServing == Spec => NoServiceGap
<1> DEFINE Gap(p, q)  == running[p][q] > 0 /\ running'[p][q] <= 0
           Due(p)     == \/ shut'[p] # "no" \/ phase'[p] = "down"
                         \/ pc'[p] = "remove" /\ got[p] = None
           Served     == \A p \in Proxy, q \in Queue : Gap(p, q) => Due(p)
<1>1. TypeOK /\ [Next]_vars => [Served]_vars
  <2> SUFFICES ASSUME TypeOK, Next, NEW r \in Proxy, NEW x \in Queue, Gap(r, x)
               PROVE  Due(r)
    OBVIOUS
  <2>0. running \in [Proxy -> [Queue -> Int]]
    BY DEF TypeOK
  <2>a. ASSUME running'[r][x] >= running[r][x], running'[r][x] \in Int PROVE FALSE
    <3>1. running[r][x] \in Int
      BY <2>0
    <3> QED BY <3>1, <2>a
  <2>b. ASSUME UNCHANGED running PROVE FALSE
    <3>1. running[r][x] \in Int /\ running'[r][x] = running[r][x]
      BY <2>0, <2>b
    <3> QED BY <3>1, <2>a
  <2>1. CASE CleanMetadata
    BY <2>1, <2>b DEF CleanMetadata, workerVars
  <2>2. ASSUME NEW p \in Proxy, Loading(p) PROVE Due(r)
    <3>1. CASE Start(p) \/ LoadFail(p) \/ LoadDone(p)
      BY <3>1, <2>b DEF Start, LoadFail, LoadDone, workerVars
    <3>2. ASSUME NEW q \in Queue, LoadWorker(p, q) PROVE Due(r)
      <4>1. running' = [running EXCEPT ![p][q] = @ + 1]
        BY <3>2 DEF LoadWorker
      <4> QED BY <4>1, <2>0, <2>a
    <3> QED BY <2>2, <3>1, <3>2 DEF Loading
  <2>3. ASSUME NEW p \in Proxy,
               Requests(p) \/ Scripts(p) \/ HandlerReply(p) \/ ConnectionReset(p)
        PROVE  Due(r)
    BY <2>3, <2>b DEF Requests, AddWorker, RemoveWorker, Send, Scripts,
       UpdateWorkerMetadata, RemoveWorkerMetadata, HandlerReply, ConnectionReset,
       workerVars
  <2>4. ASSUME NEW p \in Proxy, HandleUpdate(p) PROVE Due(r)
    <3>1. running' = [running EXCEPT ![p][Current(p)] = @ + 1 - OpenInMap(p, Current(p))]
      BY <2>4 DEF HandleUpdate, Replace
    <3>2. OpenInMap(p, Current(p)) \in {0, 1}
      BY DEF OpenInMap
    <3>3. running'[r][x] >= running[r][x] /\ running'[r][x] \in Int
      <4>1. CASE r = p /\ x = Current(p)
        BY <3>1, <3>2, <4>1, <2>0
      <4>2. CASE ~(r = p /\ x = Current(p))
        BY <3>1, <4>2, <2>0
      <4> QED BY <4>1, <4>2
    <3> QED BY <3>3, <2>a
  <2>5. ASSUME NEW p \in Proxy, HandleRemoval(p) PROVE Due(r)
    <3>1. CASE r # p
      BY <2>5, <3>1, <2>0, <2>b DEF HandleRemoval
    <3>2. CASE r = p
      BY <2>5, <3>2 DEF HandleRemoval, Removed, TypeOK
    <3> QED BY <3>1, <3>2
  <2>6. ASSUME NEW p \in Proxy, Listener(p) \/ ListenerError(p),
               ~HandleUpdate(p), ~HandleRemoval(p)
        PROVE  Due(r)
    BY <2>6, <2>b DEF Listener, ListenerError, XreadServe, XreadTimeout, TakeReply,
       ListenerAborted, HgetServe, HandleNothing, HandlePoison, CloseDone, RemoveDone,
       Forget, workerVars
  <2>7. ASSUME NEW p \in Proxy, Stopping(p) PROVE Due(r)
    <3>1. CASE WorkersClosed(p)
      BY <3>1, <2>b DEF WorkersClosed, workerVars
    <3>2. CASE r = p /\ ~WorkersClosed(p)
      BY <2>7, <3>2 DEF Stopping, GracefulShutdown, Exit, Crash, Terminate, TypeOK
    <3>3. CASE r # p /\ ~WorkersClosed(p)
      <4>1. running'[r] = running[r]
        BY <2>7, <3>3, <2>0 DEF Stopping, GracefulShutdown, Exit, Crash, Terminate
      <4> QED BY <4>1, <2>0, <2>a
    <3> QED BY <3>1, <3>2, <3>3
  <2> QED BY <2>1, <2>2, <2>3, <2>4, <2>5, <2>6, <2>7 DEF Next
<1> QED BY <1>1, TypeCorrect, PTL DEF Spec, NoServiceGap
=============================================================================
