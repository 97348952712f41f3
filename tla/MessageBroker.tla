---------------------------- MODULE MessageBroker ----------------------------
(***************************************************************************)
(* The message broker (src/controllers/websocket/message-broker.ts): a     *)
(* request over a channel without acknowledgements is a promise that the   *)
(* answer with its id, a timer or the end of the connection settles.       *)
(*                                                                         *)
(* One broker belongs to each connection.  Each action is one synchronous  *)
(* call of the class or one timer callback; what calls them is left open,  *)
(* so that any answer may arrive at any time, twice or for no request.     *)
(***************************************************************************)
EXTENDS Integers

CONSTANTS
  Broker,    \* MessageBroker objects
  Answer,    \* data of an answer
  NoAnswer,  \* a promise without one
  MaxId      \* bound: messages a broker sends

ASSUME BrokerAssumption == NoAnswer \notin Answer /\ MaxId \in Nat \ {0}

VARIABLES
  messageId,        \* next id
  pendingMessages,  \* ids whose resolve and reject close() can reach
  listeners,        \* ids with a `once` listener
  timers,           \* ids whose timeout is set in the event loop
  messageTimeouts,  \* ids whose timeout object is kept
  promise,          \* what sendData returned for an id
  answer,           \* the value it resolved with
  closedAt          \* ghost: messageId at the last close()

brokerVars == <<messageId, pendingMessages, listeners, timers,
                messageTimeouts, promise, answer, closedAt>>

Id == 0 .. MaxId - 1

BrokerInit ==
  /\ messageId = [b \in Broker |-> 0]
  /\ pendingMessages = [b \in Broker |-> {}]
  /\ listeners = [b \in Broker |-> {}]
  /\ timers = [b \in Broker |-> {}]
  /\ messageTimeouts = [b \in Broker |-> {}]
  /\ promise = [b \in Broker |-> [i \in Id |-> "none"]]
  /\ answer = [b \in Broker |-> [i \in Id |-> NoAnswer]]
  /\ closedAt = [b \in Broker |-> 0]

-----------------------------------------------------------------------------
Drop(f, b, i) == [f EXCEPT ![b] = @ \ {i}]
Put(f, b, i)  == [f EXCEPT ![b] = @ \cup {i}]

\* A promise keeps its first outcome.
Outcome(b, i, how) == IF promise[b][i] = "waiting" THEN how ELSE promise[b][i]

\* Mutant: the id is a position among the pending messages.
NextIdReused(b) ==
  CHOOSE i \in Id : i \notin pendingMessages[b]
                      /\ \A j \in Id \ pendingMessages[b] : i <= j

NextId(b) == messageId[b]

\* Mutant: the request is recorded without its timer.
NoTimer(b, i) == UNCHANGED <<timers, messageTimeouts>>

SetTimer(b, i) ==
  /\ timers' = Put(timers, b, i)
  /\ messageTimeouts' = Put(messageTimeouts, b, i)

\* sendData without noack, after the write to the channel.
SendData(b) ==
  /\ messageId[b] < MaxId
  /\ messageId' = [messageId EXCEPT ![b] = @ + 1]
  /\ LET i == NextId(b) IN
       /\ pendingMessages' = Put(pendingMessages, b, i)
       /\ listeners' = Put(listeners, b, i)
       /\ SetTimer(b, i)
       /\ promise' = [promise EXCEPT ![b][i] = "waiting"]
       /\ answer' = [answer EXCEPT ![b][i] = NoAnswer]
  /\ UNCHANGED closedAt

\* sendData with noack: an id is used up, nothing is awaited.
SendNoAck(b) ==
  /\ messageId[b] < MaxId
  /\ messageId' = [messageId EXCEPT ![b] = @ + 1]
  /\ UNCHANGED <<pendingMessages, listeners, timers, messageTimeouts, promise,
                 answer, closedAt>>

\* Mutant: responseHandler forgets clearTimeout.
KeepTimer(b, i) == UNCHANGED timers

StopTimer(b, i) == timers' = Drop(timers, b, i)

\* processMessage with a listener for the id: emit runs responseHandler.
Answered(b, i, data) ==
  /\ i \in listeners[b]
  /\ pendingMessages' = Drop(pendingMessages, b, i)
  /\ listeners' = Drop(listeners, b, i)
  /\ StopTimer(b, i)
  /\ promise' = [promise EXCEPT ![b][i] = Outcome(b, i, "resolved")]
  /\ answer' = [answer EXCEPT ![b][i] =
                  IF promise[b][i] = "waiting" THEN data ELSE @]
  /\ UNCHANGED <<messageId, messageTimeouts, closedAt>>

\* processMessage with no listener: a duplicate, a late answer, an unknown id.
Unheard(b, i) ==
  /\ i \notin listeners[b]
  /\ pendingMessages' = Drop(pendingMessages, b, i)
  /\ UNCHANGED <<messageId, listeners, timers, messageTimeouts, promise,
                 answer, closedAt>>

ProcessMessage(b, i, data) == Answered(b, i, data) \/ Unheard(b, i)

\* The timeout callback.
Timeout(b, i) ==
  /\ i \in timers[b]
  /\ timers' = Drop(timers, b, i)
  /\ pendingMessages' = Drop(pendingMessages, b, i)
  /\ listeners' = Drop(listeners, b, i)
  /\ promise' = [promise EXCEPT ![b][i] = Outcome(b, i, "timeout")]
  /\ UNCHANGED <<messageId, messageTimeouts, answer, closedAt>>

\* Mutant: the timers go, the promises stay.
RejectNone(b) == promise

RejectPending(b) ==
  [promise EXCEPT ![b] =
     [i \in Id |-> IF i \in pendingMessages[b] THEN Outcome(b, i, "closed")
                                               ELSE @[i]]]

\* close(): the listeners of the rejected requests stay.
CloseBroker(b) ==
  /\ promise' = RejectPending(b)
  /\ timers' = [timers EXCEPT
       ![b] = @ \ (pendingMessages[b] \cap messageTimeouts[b])]
  /\ messageTimeouts' = [messageTimeouts EXCEPT ![b] = @ \ pendingMessages[b]]
  /\ pendingMessages' = [pendingMessages EXCEPT ![b] = {}]
  /\ closedAt' = [closedAt EXCEPT ![b] = messageId[b]]
  /\ UNCHANGED <<messageId, listeners, answer>>

BrokerNext ==
  \E b \in Broker :
    \/ SendData(b)
    \/ SendNoAck(b)
    \/ \E i \in Id, data \in Answer : ProcessMessage(b, i, data)
    \/ \E i \in Id : Timeout(b, i)
    \/ CloseBroker(b)

BrokerSpec == BrokerInit /\ [][BrokerNext]_brokerVars

\* The event loop runs a timer that is due.
BrokerFairness == \A b \in Broker, i \in Id : WF_brokerVars(Timeout(b, i))
FairBrokerSpec == BrokerSpec /\ BrokerFairness

-----------------------------------------------------------------------------
\* Every variable has its type; an id that was not given out is unused.
BrokerTypeOK ==
  /\ messageId \in [Broker -> 0 .. MaxId]
  /\ pendingMessages \in [Broker -> SUBSET Id]
  /\ listeners \in [Broker -> SUBSET Id]
  /\ timers \in [Broker -> SUBSET Id]
  /\ messageTimeouts \in [Broker -> SUBSET Id]
  /\ promise \in [Broker -> [Id -> {"none", "waiting", "resolved", "timeout",
                                    "closed"}]]
  /\ answer \in [Broker -> [Id -> Answer \cup {NoAnswer}]]
  /\ closedAt \in [Broker -> 0 .. MaxId]

Waiting(b) == {i \in Id : promise[b][i] = "waiting"}

(***************************************************************************)
(* No caller waits forever: a promise that sendData returned and nothing   *)
(* has settled has its timer set and its listener in place, and close()    *)
(* can still reach it; and no timer outlives its promise, which would      *)
(* reject the request of nobody after the answer                           *)
(* (message-broker.ts:55-69 against 36, 56-57, 64-65 and 74-81).           *)
(***************************************************************************)
NoForgottenPromise ==
  \A b \in Broker : /\ Waiting(b) = timers[b]
                    /\ Waiting(b) = pendingMessages[b]
                    /\ Waiting(b) \subseteq listeners[b]
                    /\ Waiting(b) \subseteq messageTimeouts[b]

(***************************************************************************)
(* The end of a connection is the end of its requests: no request sent     *)
(* before close() still waits after it (message-broker.ts:73-82); only one *)
(* sent later, by a job the worker had already taken, waits for its timer. *)
(***************************************************************************)
ClosedRequestsSettle ==
  \A b \in Broker : \A i \in Waiting(b) : i >= closedAt[b]

(***************************************************************************)
(* An id names one request for the whole life of its broker: a settled     *)
(* promise never waits again and never gets another answer, so that a late *)
(* or repeated answer settles nothing (message-broker.ts:41).              *)
(***************************************************************************)
IdsAreNotReused ==
  [][\A b \in Broker : \A i \in Id :
       promise[b][i] \in {"resolved", "timeout", "closed"} =>
         promise'[b][i] = promise[b][i] /\ answer'[b][i] = answer[b][i]]_brokerVars

\* The strengthening the proofs need: the ids still to be given out are in no
\* table, and close() lies in the past.
FreshIdsUnused ==
  \A b \in Broker :
    /\ closedAt[b] <= messageId[b]
    /\ \A i \in Id : i >= messageId[b] => /\ promise[b][i] = "none"
                                         /\ i \notin listeners[b]

BrokerInv == BrokerTypeOK /\ FreshIdsUnused /\ NoForgottenPromise
               /\ ClosedRequestsSettle
=============================================================================
