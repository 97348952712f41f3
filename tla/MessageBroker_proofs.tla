------------------------ MODULE MessageBroker_proofs ------------------------
(***************************************************************************)
(* Proofs about MessageBroker.  BrokerInv is inductive as it stands: what  *)
(* makes the three tables of a broker agree is that every callback and     *)
(* every call removes an id from all of them in one synchronous step, and  *)
(* FreshIdsUnused, which says that the next id is in none of them.         *)
(***************************************************************************)
EXTENDS MessageBroker, TLAPS

LEMMA InitEstablishes == BrokerInit => BrokerInv
BY BrokerAssumption DEF BrokerInit, BrokerInv, BrokerTypeOK, FreshIdsUnused,
  NoForgottenPromise, ClosedRequestsSettle, Waiting, Id

\* Sending: the new id is fresh, so it was in no table.
LEMMA SendPreserves ==
  ASSUME BrokerInv, NEW b \in Broker, SendData(b)
  PROVE  BrokerInv'
<1> DEFINE i == messageId[b]
<1> USE BrokerAssumption
<1>1. i \in Id /\ messageId'[b] = i + 1 /\ promise[b][i] = "none"
  BY DEF BrokerInv, BrokerTypeOK, FreshIdsUnused, SendData, Id
<1>2. BrokerTypeOK'
  BY <1>1 DEF BrokerInv, BrokerTypeOK, SendData, SetTimer, NextId, Put, Id
<1>3. FreshIdsUnused'
  BY <1>1 DEF BrokerInv, BrokerTypeOK, FreshIdsUnused, SendData, NextId, Put, Id
<1>4. \A c \in Broker : Waiting(c)' = IF c = b THEN Waiting(b) \cup {i}
                                                ELSE Waiting(c)
  BY <1>1 DEF BrokerInv, BrokerTypeOK, Waiting, SendData, NextId
<1>5. NoForgottenPromise'
  BY <1>1, <1>4 DEF BrokerInv, BrokerTypeOK, NoForgottenPromise, SendData,
    SetTimer, NextId, Put
<1>6. ClosedRequestsSettle'
  <2>1. closedAt[b] <= i
    BY DEF BrokerInv, FreshIdsUnused
  <2> QED
    BY <1>1, <1>4, <2>1 DEF BrokerInv, ClosedRequestsSettle, SendData
<1> QED
  BY <1>2, <1>3, <1>5, <1>6 DEF BrokerInv

LEMMA NoAckPreserves ==
  ASSUME BrokerInv, NEW b \in Broker, SendNoAck(b)
  PROVE  BrokerInv'
<1>1. BrokerTypeOK'
  BY BrokerAssumption DEF BrokerInv, BrokerTypeOK, SendNoAck
<1>2. FreshIdsUnused'
  BY DEF BrokerInv, BrokerTypeOK, FreshIdsUnused, SendNoAck, Id
<1>3. NoForgottenPromise' /\ ClosedRequestsSettle'
  BY DEF BrokerInv, NoForgottenPromise, ClosedRequestsSettle, SendNoAck, Waiting
<1> QED
  BY <1>1, <1>2, <1>3 DEF BrokerInv

\* An answer: the id leaves every table at once, if anyone listens to it; if
\* nobody does it is not pending either.
LEMMA AnswerPreserves ==
  ASSUME BrokerInv, NEW b \in Broker, NEW i \in Id, NEW data \in Answer,
         ProcessMessage(b, i, data)
  PROVE  BrokerInv'
<1>1. CASE Answered(b, i, data)
  <2>1. BrokerTypeOK'
    BY <1>1 DEF BrokerInv, BrokerTypeOK, Answered, StopTimer, Drop, Outcome
  <2>2. FreshIdsUnused'
    BY <1>1 DEF BrokerInv, BrokerTypeOK, FreshIdsUnused, Answered, Outcome, Drop
  <2>3. \A c \in Broker : Waiting(c)' = IF c = b THEN Waiting(b) \ {i}
                                                  ELSE Waiting(c)
    BY <1>1 DEF BrokerInv, BrokerTypeOK, Waiting, Answered, Outcome
  <2>4. NoForgottenPromise'
    BY <1>1, <2>3 DEF BrokerInv, BrokerTypeOK, NoForgottenPromise, Answered,
      StopTimer, Drop
  <2>5. ClosedRequestsSettle'
    BY <1>1, <2>3 DEF BrokerInv, ClosedRequestsSettle, Answered
  <2> QED
    BY <2>1, <2>2, <2>4, <2>5 DEF BrokerInv
<1>2. CASE Unheard(b, i)
  <2>1. i \notin pendingMessages[b]
    BY <1>2 DEF BrokerInv, NoForgottenPromise, Unheard
  <2>2. pendingMessages' = pendingMessages
    BY <1>2, <2>1 DEF BrokerInv, BrokerTypeOK, Unheard, Drop
  <2> QED
    BY <1>2, <2>2 DEF BrokerInv, BrokerTypeOK, FreshIdsUnused,
      NoForgottenPromise, ClosedRequestsSettle, Unheard, Waiting
<1> QED
  BY <1>1, <1>2 DEF ProcessMessage

LEMMA TimeoutPreserves ==
  ASSUME BrokerInv, NEW b \in Broker, NEW i \in Id, Timeout(b, i)
  PROVE  BrokerInv'
<1>1. BrokerTypeOK'
  BY DEF BrokerInv, BrokerTypeOK, Timeout, Drop, Outcome
<1>2. FreshIdsUnused'
  BY DEF BrokerInv, BrokerTypeOK, FreshIdsUnused, Timeout, Outcome, Drop
<1>3. \A c \in Broker : Waiting(c)' = IF c = b THEN Waiting(b) \ {i}
                                                ELSE Waiting(c)
  BY DEF BrokerInv, BrokerTypeOK, Waiting, Timeout, Outcome
<1>4. NoForgottenPromise'
  BY <1>3 DEF BrokerInv, BrokerTypeOK, NoForgottenPromise, Timeout, Drop
<1>5. ClosedRequestsSettle'
  BY <1>3 DEF BrokerInv, ClosedRequestsSettle, Timeout
<1> QED
  BY <1>1, <1>2, <1>4, <1>5 DEF BrokerInv

\* close(): what waits is what is pending, so nothing of this broker waits on.
LEMMA ClosePreserves ==
  ASSUME BrokerInv, NEW b \in Broker, CloseBroker(b)
  PROVE  BrokerInv'
<1>1. BrokerTypeOK'
  BY DEF BrokerInv, BrokerTypeOK, CloseBroker, RejectPending, Outcome
<1>2. FreshIdsUnused'
  BY BrokerAssumption
  DEF BrokerInv, BrokerTypeOK, FreshIdsUnused, CloseBroker, RejectPending, Outcome
<1>3. \A c \in Broker : Waiting(c)' = IF c = b THEN {} ELSE Waiting(c)
  <2>1. \A i \in Id : promise[b][i] = "waiting" => i \in pendingMessages[b]
    BY DEF BrokerInv, NoForgottenPromise, Waiting
  <2> QED
    BY <2>1 DEF BrokerInv, BrokerTypeOK, Waiting, CloseBroker, RejectPending,
      Outcome
<1>4. NoForgottenPromise'
  BY <1>3 DEF BrokerInv, BrokerTypeOK, NoForgottenPromise, CloseBroker
<1>5. ClosedRequestsSettle'
  BY <1>3 DEF BrokerInv, BrokerTypeOK, ClosedRequestsSettle, CloseBroker
<1> QED
  BY <1>1, <1>2, <1>4, <1>5 DEF BrokerInv

LEMMA StepPreserves == BrokerInv /\ [BrokerNext]_brokerVars => BrokerInv'
<1> SUFFICES ASSUME BrokerInv, [BrokerNext]_brokerVars PROVE BrokerInv'
  OBVIOUS
<1>1. CASE BrokerNext
  BY <1>1, SendPreserves, NoAckPreserves, AnswerPreserves, TimeoutPreserves,
    ClosePreserves DEF BrokerNext
<1>2. CASE UNCHANGED brokerVars
  BY <1>2 DEF brokerVars, BrokerInv, BrokerTypeOK, FreshIdsUnused,
    NoForgottenPromise, ClosedRequestsSettle, Waiting
<1> QED
  BY <1>1, <1>2

(***************************************************************************)
(* For any number of brokers and messages and any answers: every variable  *)
(* has its type, every unsettled promise has its timer, its listener and   *)
(* its entry for close(), and nothing sent before a close waits after it.  *)
(***************************************************************************)
THEOREM BrokerInvariant == BrokerSpec => []BrokerInv
BY InitEstablishes, StepPreserves, PTL DEF BrokerSpec

THEOREM PromisesAccounted == BrokerSpec => []NoForgottenPromise
<1>1. BrokerInv => NoForgottenPromise
  BY DEF BrokerInv
<1> QED
  BY <1>1, BrokerInvariant, PTL

THEOREM CloseSettles == BrokerSpec => []ClosedRequestsSettle
<1>1. BrokerInv => ClosedRequestsSettle
  BY DEF BrokerInv
<1> QED
  BY <1>1, BrokerInvariant, PTL

(***************************************************************************)
(* A settled promise is never touched again: late, repeated and unknown    *)
(* answers, timeouts and closes leave its outcome and its value alone.     *)
(***************************************************************************)
THEOREM SettledForGood == BrokerSpec => IdsAreNotReused
<1> DEFINE Kept == \A b \in Broker : \A i \in Id :
       promise[b][i] \in {"resolved", "timeout", "closed"} =>
         promise'[b][i] = promise[b][i] /\ answer'[b][i] = answer[b][i]
<1>1. BrokerInv /\ [BrokerNext]_brokerVars => [Kept]_brokerVars
  <2> SUFFICES ASSUME BrokerInv, BrokerNext PROVE Kept
    BY DEF brokerVars
  <2> USE DEF BrokerInv, BrokerTypeOK, Outcome
  <2>1. ASSUME NEW b \in Broker, SendData(b) PROVE Kept
    BY <2>1, BrokerAssumption DEF FreshIdsUnused, SendData, NextId, Id
  <2>2. ASSUME NEW b \in Broker, SendNoAck(b) PROVE Kept
    BY <2>2 DEF SendNoAck
  <2>3. ASSUME NEW b \in Broker, NEW i \in Id, NEW data \in Answer,
               ProcessMessage(b, i, data)
        PROVE  Kept
    <3>1. CASE Answered(b, i, data)
      <4>1. \A c \in Broker, j \in Id : <<c, j>> # <<b, i>> =>
              promise'[c][j] = promise[c][j] /\ answer'[c][j] = answer[c][j]
        BY <3>1 DEF Answered
      <4>2. promise[b][i] # "waiting" =>
              promise'[b][i] = promise[b][i] /\ answer'[b][i] = answer[b][i]
        BY <3>1 DEF Answered
      <4> QED
        BY <4>1, <4>2
    <3>2. CASE Unheard(b, i)
      BY <3>2 DEF Unheard
    <3> QED
      BY <2>3, <3>1, <3>2 DEF ProcessMessage
  <2>4. ASSUME NEW b \in Broker, NEW i \in Id, Timeout(b, i) PROVE Kept
    BY <2>4 DEF Timeout
  <2>5. ASSUME NEW b \in Broker, CloseBroker(b) PROVE Kept
    BY <2>5 DEF CloseBroker, RejectPending
  <2> QED
    BY <2>1, <2>2, <2>3, <2>4, <2>5 DEF BrokerNext
<1> QED
  BY <1>1, BrokerInvariant, PTL DEF BrokerSpec, IdsAreNotReused
=============================================================================
