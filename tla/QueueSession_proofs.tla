------------------------ MODULE QueueSession_proofs ------------------------
(***************************************************************************)
(* Proofs about QueueSession for any calls, connections and messages.      *)
(* The inductive invariant is SessionInv, what holds of the broker         *)
(* (BrokerInv, taken over from MessageBroker by the refinement) and the    *)
(* property itself: an answer is of the call that has its id because a     *)
(* call keeps its id for ever, all calls share one broker, and a command   *)
(* is under way in one direction at a time.                                *)
(***************************************************************************)
EXTENDS QueueSession, MessageBroker_proofs

USE SessionAssumption, BrokerAssumption

SInv == SessionInv /\ ReturnMeansEffect /\ BrokerInv

LEMMA SessionInit == Init => SInv
<1> SUFFICES ASSUME Init PROVE SInv OBVIOUS
<1>1. BrokerInv
  BY InitEstablishes DEF Init
<1>2. TypeOK /\ OneConnection /\ ConnectionInv
  <2>1. BrokerTypeOK
    BY <1>1 DEF BrokerInv
  <2>2. OneConnection /\ ConnectionInv
    BY DEF Init, OneConnection, ConnectionInv, Conn
  <2>3. msg \in [Call -> {NoMsg} \cup Broker \X Id]
    BY DEF Init
  <2>4. /\ ran \in [Call -> 0 .. 1] /\ up \cup running = {} /\ down = {}
        /\ instance \in {0} \cup Conn /\ mb \in {0} \cup Broker
    BY DEF Init
  <2>5. /\ retry \in BOOLEAN /\ stopped \in BOOLEAN
        /\ connecting \in {"none", "pending", "resolved", "rejected"}
        /\ sock \in [Conn -> {"none", "connecting", "open", "broken", "closed"}]
        /\ call \in [Call -> {"idle", "asks", "refused", "sent"}]
        /\ queue \in [Conn -> {"none", "open", "refused", "closing", "closed"}]
    BY DEF Init
  <2> QED BY <2>1, <2>2, <2>3, <2>4, <2>5 DEF TypeOK
<1>3. SentInv /\ UnderWayInv /\ ReturnMeansEffect
  BY DEF Init, SentInv, UnderWayInv, ReturnMeansEffect, OwnAnswer, Got
<1> QED BY <1>1, <1>2, <1>3 DEF SInv, SessionInv, BrokerInv

-----------------------------------------------------------------------------
(* The client uses its broker as MessageBroker says.                       *)

\* What is under way is of a call that has been sent, through the one broker.
LEMMA UnderWayFacts ==
  ASSUME SInv, NEW m \in up \cup running \cup down
  PROVE  /\ m.call \in Call /\ m.conn \in Conn /\ m.id \in Id
         /\ call[m.call] = "sent" /\ msg[m.call] = <<mb, m.id>> /\ mb \in Broker
<1>1. m.call \in Call /\ m.conn \in Conn /\ m.id \in Id
  BY DEF SInv, SessionInv, TypeOK
<1>2. call[m.call] = "sent" /\ m.id = msg[m.call][2]
  BY DEF SInv, SessionInv, UnderWayInv
<1>3. mb # 0 /\ msg[m.call] \in {mb} \X Id
  BY <1>1, <1>2 DEF SInv, SessionInv, SentInv
<1> QED BY <1>1, <1>2, <1>3 DEF SInv, SessionInv, TypeOK

LEMMA SendFacts ==
  ASSUME SInv, NEW k \in Call, SendCall(k)
  PROVE  \E b \in Broker : /\ SendData(b) /\ mb' = b /\ (mb # 0 => b = mb)
                           /\ messageId[b] \in Id
                           /\ msg' = [msg EXCEPT ![k] = <<b, messageId[b]>>]
<1> DEFINE b == BrokerFor(k)
<1>1. b \in Broker /\ (mb # 0 => b = mb)
  BY DEF BrokerFor, SInv, SessionInv, TypeOK
<1>2. SendData(b) /\ mb' = b /\ msg' = [msg EXCEPT ![k] = <<b, messageId[b]>>]
  BY DEF SendCall, NextId
<1> HIDE DEF b
<1>3. messageId[b] \in Id
  BY <1>1, <1>2 DEF SendData, SInv, BrokerInv, BrokerTypeOK, Id
<1> QED BY <1>1, <1>2, <1>3

\* A step that is none of the broker's.
OtherStep ==
  \/ \E k \in Call : StartCall(k) \/ RefuseCall(k)
  \/ \E c \in Conn : \/ Opens(c) \/ OpenFails(c) \/ ClientNotices(c) \/ Breaks(c)
                     \/ ServerOpens(c) \/ ServerNotices(c) \/ QueueCloses(c)
  \/ Reconnect \/ UserClose
  \/ \E m \in up : Receive(m)
  \/ \E m \in running : Finish(m)

LEMMA NextCases ==
  Next => \/ \E k \in Call : SendCall(k)
          \/ \E b \in Broker, i \in Id : CallTimeout(b, i)
          \/ \E a \in down : Deliver(a)
          \/ OtherStep
BY DEF Next, ClientStep, ServerStep, OtherStep

LEMMA OtherKeepsBroker == OtherStep => UNCHANGED brokerVars
BY DEF OtherStep, StartCall, RefuseCall, Opens, OpenFails, ClientNotices, Breaks,
   ServerOpens, ServerNotices, QueueCloses, Reconnect, UserClose, Receive, Finish

LEMMA DeliverFacts ==
  ASSUME SInv, NEW a \in down, Deliver(a)
  PROVE  /\ mb \in Broker /\ a.id \in Id /\ a.call \in Call /\ a.ok \in BOOLEAN
         /\ [call |-> a.call, ok |-> a.ok] \in Answer
         /\ ProcessMessage(mb, a.id, [call |-> a.call, ok |-> a.ok])
<1>1. mb \in Broker /\ a.id \in Id /\ a.call \in Call
  BY UnderWayFacts
<1>2. a.ok \in BOOLEAN
  BY DEF SInv, SessionInv, TypeOK
<1> QED BY <1>1, <1>2 DEF Deliver

LEMMA SessionBrokerStep ==
  ASSUME SInv, [Next]_vars
  PROVE  [BrokerNext]_brokerVars
<1>1. ASSUME NEW k \in Call, SendCall(k) PROVE BrokerNext
  BY <1>1, SendFacts DEF BrokerNext
<1>2. ASSUME NEW b \in Broker, NEW i \in Id, CallTimeout(b, i) PROVE BrokerNext
  BY <1>2 DEF CallTimeout, BrokerNext
<1>3. ASSUME NEW a \in down, Deliver(a) PROVE BrokerNext
  BY <1>3, DeliverFacts DEF BrokerNext
<1>4. CASE UNCHANGED vars
  BY <1>4 DEF vars
<1> QED BY <1>1, <1>2, <1>3, <1>4, NextCases, OtherKeepsBroker

-----------------------------------------------------------------------------
(* Types.                                                                  *)

LEMMA NewSocketFacts ==
  ASSUME SInv, NewSocket
  PROVE  \E c \in Conn : /\ sock[c] = "none" /\ instance' = c
                         /\ sock' = [sock EXCEPT ![c] = "connecting"]
BY DEF NewSocket

LEMMA ClientType ==
  ASSUME SInv, ClientStep, BrokerTypeOK'
  PROVE  TypeOK'
<1> USE DEF SInv, SessionInv, TypeOK
<1>1. ASSUME NEW k \in Call, StartCall(k) PROVE TypeOK'
  BY <1>1, NewSocketFacts DEF StartCall, serverVars
<1>2. ASSUME NEW k \in Call, SendCall(k) PROVE TypeOK'
  <2>1. PICK b \in Broker : /\ mb' = b /\ messageId[b] \in Id
                            /\ msg' = [msg EXCEPT ![k] = <<b, messageId[b]>>]
    BY <1>2, SendFacts
  <2>2. up' \subseteq [conn : Conn, id : Id, call : Call]
    <3>1. CASE up' = up
      BY <3>1
    <3>2. CASE up' # up
      <4>1. up' = up \cup {[conn |-> instance, id |-> messageId[b], call |-> k]} /\ instance # 0
        BY <1>2, <2>1, <3>2 DEF SendCall, NextId
      <4> QED BY <2>1, <4>1
    <3> QED BY <3>1, <3>2
  <2> QED BY <1>2, <2>1, <2>2 DEF SendCall, serverVars
<1>3. ASSUME NEW k \in Call, RefuseCall(k) PROVE TypeOK'
  BY <1>3 DEF RefuseCall, clientVars, serverVars
<1>4. ASSUME NEW b \in Broker, NEW i \in Id, CallTimeout(b, i) PROVE TypeOK'
  BY <1>4 DEF CallTimeout, clientVars, serverVars
<1>5. ASSUME NEW a \in down, Deliver(a) PROVE TypeOK'
  BY <1>5 DEF Deliver, clientVars, serverVars
<1>6. ASSUME NEW c \in Conn, Opens(c) \/ OpenFails(c) \/ ClientNotices(c) PROVE TypeOK'
  BY <1>6 DEF Opens, OpenFails, ClientNotices, OnError, Dropped, serverVars
<1>7. CASE Reconnect
  BY <1>7, NewSocketFacts DEF Reconnect, serverVars
<1>8. CASE UserClose
  BY <1>8 DEF UserClose, serverVars
<1> QED BY <1>1, <1>2, <1>3, <1>4, <1>5, <1>6, <1>7, <1>8 DEF ClientStep

\* What respond writes.
LEMMA RespondFacts ==
  ASSUME NEW m, NEW ok, Respond(m, ok)
  PROVE  /\ down \subseteq down'
         /\ \A a \in down' : a \in down \/ a = [conn |-> m.conn, id |-> m.id,
                                                call |-> m.call, ok |-> ok]
BY DEF Respond

LEMMA AnswerType ==
  ASSUME NEW m \in [conn : Conn, id : Id, call : Call], NEW ok \in BOOLEAN
  PROVE  [conn |-> m.conn, id |-> m.id, call |-> m.call, ok |-> ok]
           \in [conn : Conn, id : Id, call : Call, ok : BOOLEAN]
OBVIOUS

LEMMA ServerType ==
  ASSUME SInv, ServerStep \/ \E c \in Conn : Breaks(c)
  PROVE  TypeOK'
<1>0. BrokerTypeOK' /\ UNCHANGED <<connecting, mb, instance, retry, stopped, call, msg>>
  <2>1. UNCHANGED brokerVars /\ UNCHANGED <<connecting, mb, instance, retry, stopped, call, msg>>
    BY DEF ServerStep, Breaks, ServerOpens, ServerNotices, QueueCloses, Receive, Finish,
           clientVars
  <2> QED BY <2>1 DEF SInv, SessionInv, TypeOK, BrokerTypeOK, brokerVars
<1> USE DEF SInv, SessionInv, TypeOK
<1>1. ASSUME NEW c \in Conn, Breaks(c) PROVE TypeOK'
  BY <1>0, <1>1 DEF Breaks, serverVars
<1>2. ASSUME NEW c \in Conn, ServerOpens(c) \/ ServerNotices(c) \/ QueueCloses(c) PROVE TypeOK'
  BY <1>0, <1>2 DEF ServerOpens, ServerNotices, QueueCloses, Closing
<1>3. ASSUME NEW m \in up, Receive(m) PROVE TypeOK'
  <2>1. m \in [conn : Conn, id : Id, call : Call]
    OBVIOUS
  <2>2. down' \subseteq [conn : Conn, id : Id, call : Call, ok : BOOLEAN]
    <3>1. CASE down' = down
      BY <3>1
    <3>2. CASE Respond(m, FALSE)
      <4>1. \A a \in down' : a \in down \/ a = [conn |-> m.conn, id |-> m.id,
                                               call |-> m.call, ok |-> FALSE]
        BY <3>2, RespondFacts
      <4> QED BY <2>1, <4>1, AnswerType
    <3> QED BY <1>3, <3>1, <3>2 DEF Receive
  <2>3. up' \cup running' \subseteq [conn : Conn, id : Id, call : Call]
    <3>1. up' \subseteq up /\ running' \subseteq running \cup {m}
      BY <1>3 DEF Receive
    <3> QED BY <2>1, <3>1
  <2>4. UNCHANGED <<queue, sock, ran>>
    BY <1>3 DEF Receive
  <2> QED BY <1>0, <2>2, <2>3, <2>4
<1>4. ASSUME NEW m \in running, Finish(m) PROVE TypeOK'
  <2>1. m \in [conn : Conn, id : Id, call : Call] /\ ran[m.call] = 0
    BY DEF UnderWayInv
  <2>2. PICK r \in Results : ran' = [ran EXCEPT ![m.call] = @ + r[1]] /\ Respond(m, r[2])
    BY <1>4 DEF Finish
  <2>3. r[1] \in 0 .. 1 /\ r[2] \in BOOLEAN
    <3>1. r = <<0, FALSE>> \/ r = <<1, FALSE>> \/ r = <<1, TRUE>>
      BY DEF Results
    <3>2. CASE r = <<0, FALSE>>
      BY <3>2
    <3>3. CASE r = <<1, FALSE>>
      BY <3>3
    <3>4. CASE r = <<1, TRUE>>
      BY <3>4
    <3> QED BY <3>1, <3>2, <3>3, <3>4
  <2>4. ran' \in [Call -> 0 .. 1]
    BY <2>1, <2>2, <2>3
  <2>5. down' \subseteq [conn : Conn, id : Id, call : Call, ok : BOOLEAN]
    <3>1. \A a \in down' : a \in down \/ a = [conn |-> m.conn, id |-> m.id,
                                             call |-> m.call, ok |-> r[2]]
      BY <2>2, RespondFacts
    <3> QED BY <2>1, <2>3, <3>1, AnswerType
  <2> QED BY <1>0, <1>4, <2>4, <2>5 DEF Finish
<1> QED BY <1>1, <1>2, <1>3, <1>4 DEF ServerStep

-----------------------------------------------------------------------------
(* The connection.                                                         *)

\* A step that touches neither the sockets nor what makes new ones.
LEMMA ConnectionKept ==
  ASSUME SInv, UNCHANGED <<sock, instance, retry, connecting, stopped>>
  PROVE  OneConnection' /\ ConnectionInv'
BY DEF SInv, SessionInv, OneConnection, ConnectionInv

\* A socket that is made takes the place of none.
LEMMA NewConnection ==
  ASSUME SInv, NewSocket, instance = 0, ~retry'
  PROVE  OneConnection'
<1>1. PICK c \in Conn : /\ sock[c] = "none" /\ instance' = c
                        /\ sock' = [sock EXCEPT ![c] = "connecting"]
  BY NewSocketFacts
<1>2. sock \in [Conn -> {"none", "connecting", "open", "broken", "closed"}]
  BY DEF SInv, SessionInv, TypeOK
<1>3. \A d \in Conn : sock'[d] \notin {"none", "closed"} <=> d = instance'
  <2>1. \A d \in Conn : d # 0
    BY DEF Conn
  <2> QED BY <1>1, <1>2, <2>1 DEF SInv, SessionInv, OneConnection
<1> QED BY <1>3 DEF OneConnection

\* The socket that is given up was the one in use.
LEMMA ConnectionLost ==
  ASSUME SInv, NEW c \in Conn, sock[c] \notin {"none", "closed"},
         sock' = [sock EXCEPT ![c] = "closed"], instance' = 0
  PROVE  OneConnection' /\ instance = c /\ ~retry /\ ~stopped
<1>1. sock \in [Conn -> {"none", "connecting", "open", "broken", "closed"}]
  BY DEF SInv, SessionInv, TypeOK
<1>2. instance = c /\ \A d \in Conn : d # 0
  BY DEF SInv, SessionInv, OneConnection, Conn
<1>3. ~retry /\ ~stopped
  BY <1>2 DEF SInv, SessionInv, OneConnection, ConnectionInv
<1>4. \A d \in Conn : sock'[d] \in {"none", "closed"}
  BY <1>1, <1>2 DEF SInv, SessionInv, OneConnection
<1> QED BY <1>2, <1>3, <1>4 DEF OneConnection

LEMMA ConnectionStep ==
  ASSUME SInv, Next
  PROVE  OneConnection' /\ ConnectionInv'
<1>0. /\ sock \in [Conn -> {"none", "connecting", "open", "broken", "closed"}]
      /\ connecting \in {"none", "pending", "resolved", "rejected"}
  BY DEF SInv, SessionInv, TypeOK
<1>1. ASSUME NEW k \in Call, StartCall(k) PROVE OneConnection' /\ ConnectionInv'
  <2>1. CASE connecting = "none"
    <3>1. instance = 0 /\ ~retry /\ ~stopped
      BY <2>1 DEF SInv, SessionInv, ConnectionInv
    <3>2. NewSocket /\ connecting' = "pending" /\ retry' = retry /\ stopped' = stopped
      BY <1>1, <2>1 DEF StartCall
    <3> QED BY <3>1, <3>2, NewConnection DEF ConnectionInv
  <2>2. CASE connecting # "none"
    BY <1>1, <2>2, ConnectionKept DEF StartCall
  <2> QED BY <2>1, <2>2
<1>2. CASE Reconnect
  <2>1. retry /\ ~retry' /\ NewSocket /\ connecting' = connecting /\ stopped' = stopped
    BY <1>2 DEF Reconnect
  <2>2. instance = 0 /\ ~stopped /\ connecting # "none"
    BY <2>1 DEF SInv, SessionInv, OneConnection, ConnectionInv
  <2> QED BY <2>1, <2>2, NewConnection DEF ConnectionInv
<1>3. ASSUME NEW c \in Conn, OpenFails(c) \/ ClientNotices(c)
      PROVE  OneConnection' /\ ConnectionInv'
  <2>1. /\ sock[c] \in {"connecting", "broken"} /\ sock' = [sock EXCEPT ![c] = "closed"]
        /\ instance' = 0 /\ stopped' = stopped
        /\ connecting' = connecting \/ connecting' = OnError
    BY <1>3 DEF OpenFails, ClientNotices, Dropped
  <2>2. OneConnection' /\ instance = c /\ ~stopped
    BY <2>1, ConnectionLost
  <2>3. connecting # "none" /\ connecting' # "none"
    BY <2>1, <2>2 DEF SInv, SessionInv, ConnectionInv, OnError, Conn
  <2> QED BY <2>1, <2>2, <2>3 DEF ConnectionInv
<1>4. CASE UserClose
  <2>1. /\ instance \in Conn /\ sock[instance] \notin {"none", "closed"}
        /\ connecting = "resolved" /\ connecting' = connecting /\ retry' = retry
        /\ sock' = [sock EXCEPT ![instance] = "closed"] /\ instance' = 0
    BY <1>4 DEF UserClose, SInv, SessionInv, TypeOK, OneConnection
  <2>2. OneConnection' /\ ~retry
    BY <2>1, ConnectionLost
  <2> QED BY <2>1, <2>2 DEF ConnectionInv
<1>5. ASSUME NEW c \in Conn, Opens(c) PROVE OneConnection' /\ ConnectionInv'
  <2>1. /\ sock[c] = "connecting" /\ sock' = [sock EXCEPT ![c] = "open"]
        /\ UNCHANGED <<instance, retry, stopped>>
        /\ connecting' = IF connecting = "pending" THEN "resolved" ELSE connecting
    BY <1>5 DEF Opens
  <2>2. \A d \in Conn : sock'[d] \in {"none", "closed"} <=> sock[d] \in {"none", "closed"}
    BY <1>0, <2>1
  <2> QED BY <2>1, <2>2 DEF SInv, SessionInv, OneConnection, ConnectionInv
<1>6. ASSUME NEW c \in Conn, Breaks(c) PROVE OneConnection' /\ ConnectionInv'
  <2>1. /\ sock[c] = "open" /\ sock' = [sock EXCEPT ![c] = "broken"]
        /\ UNCHANGED <<instance, retry, stopped, connecting>>
    BY <1>6 DEF Breaks, clientVars
  <2>2. \A d \in Conn : sock'[d] \in {"none", "closed"} <=> sock[d] \in {"none", "closed"}
    BY <1>0, <2>1
  <2> QED BY <2>1, <2>2 DEF SInv, SessionInv, OneConnection, ConnectionInv
<1>7. CASE \/ ServerStep
           \/ \E k \in Call : SendCall(k) \/ RefuseCall(k)
           \/ \E b \in Broker, i \in Id : CallTimeout(b, i)
           \/ \E a \in down : Deliver(a)
  <2>1. UNCHANGED <<sock, instance, retry, connecting, stopped>>
    BY <1>7 DEF ServerStep, ServerOpens, ServerNotices, QueueCloses, Receive, Finish,
           SendCall, RefuseCall, CallTimeout, Deliver, clientVars
  <2> QED BY <2>1, ConnectionKept
<1> QED BY <1>1, <1>2, <1>3, <1>4, <1>5, <1>6, <1>7 DEF Next, ClientStep

-----------------------------------------------------------------------------
(* Calls and what is under way.                                            *)

\* Every other step leaves the calls that are sent, their ids and their answers.
LEMMA CallsKept ==
  ASSUME SInv, Next, \A k \in Call : ~SendCall(k)
  PROVE  /\ msg' = msg /\ mb' = mb /\ messageId' = messageId
         /\ \A k \in Call : call'[k] = "sent" <=> call[k] = "sent"
<1>0. call \in [Call -> {"idle", "asks", "refused", "sent"}]
  BY DEF SInv, SessionInv, TypeOK
<1>1. ASSUME OtherStep PROVE msg' = msg /\ mb' = mb /\ messageId' = messageId
  BY <1>1, OtherKeepsBroker DEF OtherStep, StartCall, RefuseCall, Opens, OpenFails,
     ClientNotices, Breaks, ServerOpens, ServerNotices, QueueCloses, Reconnect,
     UserClose, Receive, Finish, clientVars, brokerVars
<1>2. ASSUME OtherStep, NEW k \in Call PROVE call'[k] = "sent" <=> call[k] = "sent"
  <2>1. CASE UNCHANGED call
    BY <2>1
  <2>2. ASSUME NEW j \in Call, StartCall(j) \/ RefuseCall(j)
        PROVE  call'[k] = "sent" <=> call[k] = "sent"
    BY <1>0, <2>2 DEF StartCall, RefuseCall
  <2> QED BY <1>2, <2>1, <2>2 DEF OtherStep, Opens, OpenFails, ClientNotices, Breaks,
     ServerOpens, ServerNotices, QueueCloses, Reconnect, UserClose, Receive, Finish
<1>3. ASSUME NEW b \in Broker, NEW i \in Id, CallTimeout(b, i)
      PROVE  msg' = msg /\ mb' = mb /\ messageId' = messageId /\ call' = call
  BY <1>3 DEF CallTimeout, Timeout, clientVars
<1>4. ASSUME NEW a \in down, Deliver(a)
      PROVE  msg' = msg /\ mb' = mb /\ messageId' = messageId /\ call' = call
  BY <1>4 DEF Deliver, ProcessMessage, Answered, Unheard, clientVars
<1> QED BY <1>1, <1>2, <1>3, <1>4, NextCases

LEMMA SentStep ==
  ASSUME SInv, Next
  PROVE  SentInv'
<1>1. CASE \A k \in Call : ~SendCall(k)
  BY <1>1, CallsKept DEF SInv, SessionInv, SentInv
<1>2. ASSUME NEW k \in Call, SendCall(k) PROVE SentInv'
  <2>1. PICK b \in Broker : /\ SendData(b) /\ mb' = b /\ (mb # 0 => b = mb)
                            /\ messageId[b] \in Id
                            /\ msg' = [msg EXCEPT ![k] = <<b, messageId[b]>>]
    BY <1>2, SendFacts
  <2>2. /\ call \in [Call -> {"idle", "asks", "refused", "sent"}]
        /\ msg \in [Call -> {NoMsg} \cup Broker \X Id]
        /\ messageId \in [Broker -> 0 .. MaxId]
    BY DEF SInv, SessionInv, TypeOK, BrokerInv, BrokerTypeOK
  <2>3. call[k] # "sent" /\ call' = [call EXCEPT ![k] = "sent"]
    BY <1>2 DEF SendCall
  <2>4. messageId'[b] = messageId[b] + 1
    BY <2>1, <2>2 DEF SendData
  <2>5. b # 0
    BY <1>2, <2>1 DEF SendCall, BrokerFor
  <2>6. ASSUME NEW l \in Call, l # k, call'[l] = "sent"
        PROVE  /\ msg'[l] = msg[l] /\ msg[l] \in {b} \X Id
               /\ msg[l][2] < messageId[b] /\ call[l] = "sent"
    <3>1. call[l] = "sent" /\ msg'[l] = msg[l]
      BY <2>1, <2>2, <2>3, <2>6
    <3>2. mb # 0 /\ msg[l] \in {mb} \X Id /\ msg[l][2] < messageId[mb]
      BY <3>1 DEF SInv, SessionInv, SentInv
    <3> QED BY <2>1, <3>1, <3>2
  <2>7. msg'[k] = <<b, messageId[b]>>
    BY <2>1, <2>2
  <2>8. \A l \in Call : call'[l] = "sent" =>
          mb' # 0 /\ msg'[l] \in {mb'} \X Id /\ msg'[l][2] < messageId'[mb']
    <3> TAKE l \in Call
    <3>1. messageId[b] \in Nat
      BY <2>1 DEF Id
    <3>2. CASE l = k
      BY <2>1, <2>4, <2>5, <2>7, <3>1, <3>2
    <3>3. CASE l # k
      <4> SUFFICES ASSUME call'[l] = "sent"
                   PROVE  mb' # 0 /\ msg'[l] \in {mb'} \X Id /\ msg'[l][2] < messageId'[mb']
        OBVIOUS
      <4>1. msg'[l] = msg[l] /\ msg[l] \in {b} \X Id /\ msg[l][2] < messageId[b]
        BY <2>6, <3>3
      <4>2. msg[l][2] \in Nat
        BY <4>1 DEF Id
      <4>3. msg[l][2] < messageId[b] + 1
        BY <3>1, <4>1, <4>2
      <4> QED BY <2>1, <2>4, <2>5, <4>1, <4>3
    <3> QED BY <3>2, <3>3
  <2>9. \A l, j \in Call : call'[l] = "sent" /\ call'[j] = "sent" /\ msg'[l] = msg'[j] => l = j
    <3>1. \A l \in Call : l # k /\ call'[l] = "sent" => msg'[l] # msg'[k]
      <4> TAKE l \in Call
      <4> HAVE l # k /\ call'[l] = "sent"
      <4>1. msg'[l] \in {b} \X Id /\ msg'[l][2] < messageId[b]
        BY <2>6
      <4>2. msg'[l][2] \in Nat /\ messageId[b] \in Nat
        BY <2>1, <4>1 DEF Id
      <4>3. msg'[l][2] # messageId[b]
        BY <4>1, <4>2
      <4> QED BY <2>7, <4>3
    <3>2. \A l, j \in Call : l # k /\ j # k /\ call'[l] = "sent" /\ call'[j] = "sent"
                               /\ msg'[l] = msg'[j] => l = j
      BY <2>6 DEF SInv, SessionInv, SentInv
    <3> QED BY <3>1, <3>2
  <2> QED BY <2>8, <2>9 DEF SentInv
<1> QED BY <1>1, <1>2

\* What only leaves the wire changes nothing that is still under way.
LEMMA UnderWayShrinks ==
  ASSUME SInv, Next, \A k \in Call : ~SendCall(k),
         up' \subseteq up, running' \subseteq running, down' \subseteq down, ran' = ran
  PROVE  UnderWayInv'
<1>1. \A m \in up \cup running \cup down : m.call \in Call
  BY DEF SInv, SessionInv, TypeOK
<1>2. msg' = msg /\ \A k \in Call : call'[k] = "sent" <=> call[k] = "sent"
  BY CallsKept
<1> QED BY <1>1, <1>2 DEF SInv, SessionInv, UnderWayInv

\* A request that is written is the first of its call.
LEMMA UnderWaySend ==
  ASSUME SInv, NEW k \in Call, SendCall(k)
  PROVE  UnderWayInv'
<1>1. PICK b \in Broker : msg' = [msg EXCEPT ![k] = <<b, messageId[b]>>] /\ messageId[b] \in Id
                          /\ mb' = b
  BY SendFacts
<1>2. /\ call \in [Call -> {"idle", "asks", "refused", "sent"}]
      /\ msg \in [Call -> {NoMsg} \cup Broker \X Id]
      /\ call[k] = "asks" /\ call' = [call EXCEPT ![k] = "sent"]
      /\ down' = down /\ running' = running /\ ran' = ran
  BY DEF SInv, SessionInv, TypeOK, SendCall, serverVars
<1>3. \A m \in up \cup running \cup down : m.call \in Call /\ m.call # k
  BY <1>2, UnderWayFacts
<1>4. \A l \in Call : l # k => call'[l] = call[l] /\ msg'[l] = msg[l]
  BY <1>1, <1>2
<1>5. \A m \in up \cup running \cup down : call'[m.call] = "sent" /\ m.id = msg'[m.call][2]
  BY <1>3, <1>4 DEF SInv, SessionInv, UnderWayInv
<1>6. CASE up' = up
  BY <1>2, <1>5, <1>6 DEF SInv, SessionInv, UnderWayInv
<1>7. CASE up' # up
  <2> DEFINE m == [conn |-> instance, id |-> messageId[b], call |-> k]
  <2>1. up' = up \cup {m}
    BY <1>1, <1>7 DEF SendCall, NextId
  <2>2. m.call = k /\ call'[k] = "sent" /\ m.id = msg'[k][2]
    BY <1>1, <1>2
  <2>3. ran[k] = 0
    BY <1>2 DEF SInv, ReturnMeansEffect
  <2> HIDE DEF m
  <2> QED BY <1>2, <1>3, <1>5, <2>1, <2>2, <2>3 DEF SInv, SessionInv, UnderWayInv
<1> QED BY <1>6, <1>7

\* A command that starts is no longer on the wire; one without a queue is
\* answered at once, with a failure.
LEMMA UnderWayReceive ==
  ASSUME SInv, NEW m \in up, Receive(m)
  PROVE  UnderWayInv'
<1>1. /\ up' = up \ {m} /\ ran' = ran /\ call' = call /\ msg' = msg
      /\ \/ running' = running \cup {m} /\ down' = down
         \/ running' = running /\ Respond(m, FALSE)
  BY DEF Receive
<1>2. CASE running' = running \cup {m} /\ down' = down
  BY <1>1, <1>2 DEF SInv, SessionInv, UnderWayInv
<1>3. CASE running' = running /\ Respond(m, FALSE)
  <2>1. \A a \in down' : a \in down \/ a = [conn |-> m.conn, id |-> m.id,
                                           call |-> m.call, ok |-> FALSE]
    BY <1>3, RespondFacts
  <2>2. \A a \in down' : a \in down \/ (a.call = m.call /\ a.id = m.id /\ ~a.ok)
    BY <2>1
  <2> QED BY <1>1, <1>3, <2>2 DEF SInv, SessionInv, UnderWayInv
<1> QED BY <1>1, <1>2, <1>3

LEMMA UnderWayFinish ==
  ASSUME SInv, NEW m \in running, Finish(m)
  PROVE  UnderWayInv'
<1>1. /\ running' = running \ {m} /\ up' = up /\ call' = call /\ msg' = msg
      /\ ran \in [Call -> 0 .. 1] /\ m.call \in Call /\ ran[m.call] = 0
      /\ \A n \in down : n.call \in Call
  BY DEF Finish, SInv, SessionInv, TypeOK, UnderWayInv
<1>2. PICK r \in Results : ran' = [ran EXCEPT ![m.call] = @ + r[1]] /\ Respond(m, r[2])
  BY DEF Finish
<1>3. r[1] \in 0 .. 1 /\ (r[2] => r[1] = 1)
  <2>1. CASE r = <<0, FALSE>>
    BY <2>1
  <2>2. CASE r = <<1, FALSE>>
    BY <2>2
  <2>3. CASE r = <<1, TRUE>>
    BY <2>3
  <2> QED BY <2>1, <2>2, <2>3 DEF Results
<1>4. ran'[m.call] = r[1] /\ \A k \in Call : k # m.call => ran'[k] = ran[k]
  BY <1>1, <1>2, <1>3
<1>5. \A a \in down' : a \in down \/ (a.call = m.call /\ a.id = m.id /\ (a.ok => r[2]))
  BY <1>2, RespondFacts
<1>6. \A n \in up' \cup running' : n.call # m.call /\ n.call \in Call
  BY <1>1 DEF SInv, SessionInv, UnderWayInv, TypeOK
<1>7. \A n \in up' \cup running' : ran'[n.call] = 0
  BY <1>1, <1>4, <1>6 DEF SInv, SessionInv, UnderWayInv
<1>8. \A a \in down' : a.ok => ran'[a.call] = 1
  <2> TAKE a \in down'
  <2> HAVE a.ok
  <2>1. CASE a \in down
    <3>1. ran[a.call] = 1
      BY <2>1 DEF SInv, SessionInv, UnderWayInv
    <3> QED BY <1>1, <1>4, <2>1, <3>1
  <2>2. CASE a.call = m.call /\ r[2]
    BY <1>3, <1>4, <2>2
  <2> QED BY <1>5, <2>1, <2>2
<1>9. \A n \in up' \cup running' \cup down' : call'[n.call] = "sent" /\ n.id = msg'[n.call][2]
  BY <1>1, <1>5 DEF SInv, SessionInv, UnderWayInv
<1>10. up' \cap running' = {} /\ \A n, o \in up' \cup running' : n.call = o.call => n = o
  BY <1>1 DEF SInv, SessionInv, UnderWayInv
<1> QED BY <1>7, <1>8, <1>9, <1>10 DEF UnderWayInv

LEMMA UnderWayStep ==
  ASSUME SInv, Next
  PROVE  UnderWayInv'
<1>1. CASE \E k \in Call : SendCall(k)
  BY <1>1, UnderWaySend
<1>2. CASE \A k \in Call : ~SendCall(k)
  <2>1. CASE (\E m \in up : Receive(m)) \/ (\E m \in running : Finish(m))
    BY <2>1, UnderWayReceive, UnderWayFinish
  <2>2. CASE \/ \E b \in Broker, i \in Id : CallTimeout(b, i)
             \/ \E a \in down : Deliver(a)
    <3>1. up' \subseteq up /\ running' \subseteq running /\ down' \subseteq down /\ ran' = ran
      BY <2>2 DEF CallTimeout, Deliver, serverVars
    <3> QED BY <1>2, <3>1, UnderWayShrinks
  <2>3. CASE OtherStep /\ ~(\E m \in up : Receive(m)) /\ ~(\E m \in running : Finish(m))
    <3>1. up' \subseteq up /\ running' \subseteq running /\ down' \subseteq down /\ ran' = ran
      BY <2>3 DEF OtherStep, StartCall, RefuseCall, Opens, OpenFails, ClientNotices, Breaks,
         ServerOpens, ServerNotices, QueueCloses, Reconnect, UserClose, serverVars
    <3> QED BY <1>2, <3>1, UnderWayShrinks
  <2> QED BY <1>2, <2>1, <2>2, <2>3, NextCases
<1> QED BY <1>1, <1>2

-----------------------------------------------------------------------------
(* Every call gets its own answer.                                         *)

LEMMA ReturnSend ==
  ASSUME SInv, NEW k \in Call, SendCall(k)
  PROVE  ReturnMeansEffect'
<1>1. PICK b \in Broker : /\ SendData(b) /\ mb' = b /\ (mb # 0 => b = mb)
                          /\ messageId[b] \in Id
                          /\ msg' = [msg EXCEPT ![k] = <<b, messageId[b]>>]
  BY SendFacts
<1>2. /\ call \in [Call -> {"idle", "asks", "refused", "sent"}]
      /\ msg \in [Call -> {NoMsg} \cup Broker \X Id]
      /\ answer \in [Broker -> [Id -> Answer \cup {NoAnswer}]]
      /\ call[k] = "asks" /\ call' = [call EXCEPT ![k] = "sent"] /\ ran' = ran
  BY DEF SInv, SessionInv, TypeOK, BrokerInv, BrokerTypeOK, SendCall, serverVars
<1>3. answer' = [answer EXCEPT ![b][messageId[b]] = NoAnswer]
  BY <1>1 DEF SendData, NextId
<1>4. Got(k)' = NoAnswer
  <2>1. call'[k] = "sent" /\ msg'[k] = <<b, messageId[b]>>
    BY <1>1, <1>2
  <2>2. answer'[b][messageId[b]] = NoAnswer
    BY <1>1, <1>2, <1>3
  <2> QED BY <2>1, <2>2 DEF Got
<1>5. ASSUME NEW l \in Call, l # k PROVE Got(l)' = Got(l) /\ call'[l] = call[l]
  <2>1. call'[l] = call[l] /\ msg'[l] = msg[l]
    BY <1>1, <1>2, <1>5
  <2>2. CASE call[l] # "sent"
    BY <2>1, <2>2 DEF Got
  <2>3. CASE call[l] = "sent"
    <3>1. msg[l] \in {b} \X Id /\ msg[l][2] < messageId[b]
      BY <1>1, <2>3 DEF SInv, SessionInv, SentInv
    <3>2. msg[l][1] = b /\ msg[l][2] \in Id /\ msg[l][2] # messageId[b]
      BY <1>1, <3>1 DEF Id
    <3>3. answer'[b][msg[l][2]] = answer[b][msg[l][2]]
      BY <1>1, <1>2, <1>3, <3>2
    <3> QED BY <2>1, <2>3, <3>2, <3>3 DEF Got
  <2> QED BY <2>2, <2>3
<1>6. call'[k] = "sent"
  BY <1>2
<1> QED BY <1>2, <1>4, <1>5, <1>6 DEF SInv, ReturnMeansEffect, OwnAnswer

LEMMA ReturnDeliver ==
  ASSUME SInv, NEW a \in down, Deliver(a)
  PROVE  ReturnMeansEffect'
<1>1. /\ mb \in Broker /\ a.id \in Id /\ a.call \in Call
      /\ call[a.call] = "sent" /\ msg[a.call] = <<mb, a.id>>
  BY UnderWayFacts
<1>2. /\ UNCHANGED <<call, msg, ran>>
      /\ ProcessMessage(mb, a.id, [call |-> a.call, ok |-> a.ok])
      /\ answer \in [Broker -> [Id -> Answer \cup {NoAnswer}]]
  BY DEF Deliver, SInv, SessionInv, TypeOK, BrokerInv, BrokerTypeOK, serverVars
<1>3. ASSUME NEW k \in Call, k # a.call PROVE Got(k)' = Got(k)
  <2>1. CASE call[k] # "sent"
    BY <1>2, <2>1 DEF Got
  <2>2. CASE call[k] = "sent"
    <3>1. msg[k] \in {mb} \X Id /\ msg[k] # <<mb, a.id>>
      BY <1>1, <1>3, <2>2 DEF SInv, SessionInv, SentInv
    <3>2. msg[k][1] = mb /\ msg[k][2] \in Id /\ msg[k][2] # a.id
      BY <3>1
    <3>3. answer'[mb][msg[k][2]] = answer[mb][msg[k][2]]
      BY <1>1, <1>2, <3>2 DEF ProcessMessage, Answered, Unheard
    <3> QED BY <1>2, <2>2, <3>2, <3>3 DEF Got
  <2> QED BY <2>1, <2>2
<1>4. Got(a.call)' = Got(a.call) \/ Got(a.call)' = [call |-> a.call, ok |-> a.ok]
  <2>1. Got(a.call) = answer[mb][a.id] /\ Got(a.call)' = answer'[mb][a.id]
    BY <1>1, <1>2 DEF Got
  <2> QED BY <1>1, <1>2, <2>1 DEF ProcessMessage, Answered, Unheard
<1>5. a.ok => ran[a.call] = 1
  BY DEF SInv, SessionInv, UnderWayInv
<1> QED BY <1>1, <1>2, <1>3, <1>4, <1>5 DEF SInv, ReturnMeansEffect, OwnAnswer

\* Every other step leaves the answers.
LEMMA AnswersKept ==
  ASSUME SInv, Next, \A k \in Call : ~SendCall(k), \A a \in down : ~Deliver(a),
         NEW k \in Call
  PROVE  Got(k)' = Got(k)
<1>1. answer' = answer
  BY NextCases, OtherKeepsBroker DEF brokerVars, CallTimeout, Timeout
<1>2. msg' = msg /\ (call'[k] = "sent" <=> call[k] = "sent")
  BY CallsKept
<1> QED BY <1>1, <1>2 DEF Got

\* An effect comes to the command of a call that nothing has answered yet.
LEMMA ReturnFinish ==
  ASSUME SInv, NEW m \in running, Finish(m)
  PROVE  ReturnMeansEffect'
<1>1. /\ ran \in [Call -> 0 .. 1] /\ m.call \in Call /\ ran[m.call] = 0
      /\ call[m.call] = "sent"
  BY DEF SInv, SessionInv, TypeOK, UnderWayInv
<1>2. PICK r : ran' = [ran EXCEPT ![m.call] = @ + r[1]]
  BY DEF Finish
<1>3. \A k \in Call : k # m.call => ran'[k] = ran[k]
  BY <1>1, <1>2
<1>4. UNCHANGED <<call, msg, answer>>
  BY DEF Finish, brokerVars
<1>5. \A k \in Call : Got(k)' = Got(k)
  BY <1>4 DEF Got
<1>6. ~(Got(m.call) # NoAnswer /\ Got(m.call).ok)
  BY <1>1 DEF SInv, ReturnMeansEffect
<1> QED BY <1>1, <1>3, <1>4, <1>5, <1>6 DEF SInv, ReturnMeansEffect, OwnAnswer

LEMMA ReturnStep ==
  ASSUME SInv, Next
  PROVE  ReturnMeansEffect'
<1>1. CASE \E k \in Call : SendCall(k)
  BY <1>1, ReturnSend
<1>2. CASE \E a \in down : Deliver(a)
  BY <1>2, ReturnDeliver
<1>3. CASE \E m \in running : Finish(m)
  BY <1>3, ReturnFinish
<1>4. CASE /\ \A k \in Call : ~SendCall(k)
           /\ \A a \in down : ~Deliver(a)
           /\ \A m \in running : ~Finish(m)
  <2>1. \A k \in Call : Got(k)' = Got(k)
    BY <1>4, AnswersKept
  <2>2. ran' = ran
    BY <1>4 DEF Next, ClientStep, ServerStep, StartCall, RefuseCall, CallTimeout, Opens,
       OpenFails, ClientNotices, Breaks, ServerOpens, ServerNotices, QueueCloses,
       Reconnect, UserClose, Receive, serverVars
  <2>3. \A k \in Call : call'[k] = "sent" <=> call[k] = "sent"
    BY <1>4, CallsKept
  <2>4. call \in [Call -> {"idle", "asks", "refused", "sent"}]
    BY DEF SInv, SessionInv, TypeOK
  <2> QED BY <2>1, <2>2, <2>3, <2>4 DEF SInv, ReturnMeansEffect, OwnAnswer
<1> QED BY <1>1, <1>2, <1>3, <1>4

-----------------------------------------------------------------------------
LEMMA SessionStep == SInv /\ [Next]_vars => SInv'
<1> SUFFICES ASSUME SInv, [Next]_vars PROVE SInv' OBVIOUS
<1>1. BrokerInv'
  BY SessionBrokerStep, StepPreserves DEF SInv
<1>2. BrokerTypeOK' /\ FreshIdsUnused'
  BY <1>1 DEF BrokerInv
<1>3. CASE Next
  <2>1. TypeOK'
    BY <1>2, <1>3, ClientType, ServerType DEF Next
  <2> QED
    BY <1>1, <1>2, <1>3, <2>1, ConnectionStep, SentStep, UnderWayStep, ReturnStep
    DEF SInv, SessionInv
<1>4. CASE UNCHANGED vars
  <2>1. TypeOK'
    BY <1>2, <1>4 DEF vars, clientVars, serverVars, SInv, SessionInv, TypeOK
  <2>2. OneConnection' /\ ConnectionInv' /\ SentInv' /\ UnderWayInv'
    BY <1>4 DEF vars, clientVars, serverVars, brokerVars, SInv, SessionInv, OneConnection,
       ConnectionInv, SentInv, UnderWayInv
  <2>3. ReturnMeansEffect'
    BY <1>4 DEF vars, clientVars, serverVars, brokerVars, SInv, ReturnMeansEffect,
       OwnAnswer, Got
  <2> QED BY <1>1, <1>2, <2>1, <2>2, <2>3 DEF SInv, SessionInv
<1> QED BY <1>3, <1>4

LEMMA SessionInductive == Spec => []SInv
BY SessionInit, SessionStep, PTL DEF Spec

(***************************************************************************)
(* For any calls and connections: the client holds one connection at a     *)
(* time, sets its reconnect timer only without one, gives every call an id *)
(* of its own at one broker, and what is under way keeps the id of the     *)
(* call it is for.                                                         *)
(***************************************************************************)
THEOREM SessionInvariant == Spec => []SessionInv
<1>1. SInv => SessionInv
  BY DEF SInv
<1> QED BY <1>1, SessionInductive, PTL

(***************************************************************************)
(* For any calls and connections: a call gets the answer to its own        *)
(* command; one that returns had its effect, once; one that the failed     *)
(* connection rejects had none.                                            *)
(***************************************************************************)
THEOREM AnsweredAsRun == Spec => []ReturnMeansEffect
<1>1. SInv => ReturnMeansEffect
  BY DEF SInv
<1> QED BY <1>1, SessionInductive, PTL

(***************************************************************************)
(* The broker of the client is one that MessageBroker describes, so that   *)
(* what holds of those holds of it: no caller waits without a timer.       *)
(***************************************************************************)
THEOREM SessionUsesBroker == Spec => BrokerSpec
<1>1. Init => BrokerInit
  BY DEF Init
<1>2. SInv /\ [Next]_vars => [BrokerNext]_brokerVars
  BY SessionBrokerStep
<1> QED BY <1>1, <1>2, SessionInductive, PTL DEF Spec, BrokerSpec

(***************************************************************************)
(* After a close() of the user that returned, no step makes a socket: the  *)
(* timer is not set, and a call finds the promise of the first connection. *)
(***************************************************************************)
THEOREM ClosedForGood == Spec => CloseIsFinal
<1> DEFINE Final == stopped => \A c \in Conn : sock'[c] # "none" => sock[c] # "none"
<1>1. SInv /\ [Next]_vars => [Final]_vars
  <2> SUFFICES ASSUME SInv, Next, stopped, NEW c \in Conn, sock[c] = "none"
               PROVE  sock'[c] = "none"
    BY DEF vars
  <2>1. instance = 0 /\ ~retry /\ connecting # "none"
    BY DEF SInv, SessionInv, ConnectionInv
  <2>2. sock \in [Conn -> {"none", "connecting", "open", "broken", "closed"}]
    BY DEF SInv, SessionInv, TypeOK
  <2>3. ASSUME NEW d \in Conn, Opens(d) \/ OpenFails(d) \/ ClientNotices(d) \/ Breaks(d)
        PROVE  sock'[c] = "none"
    BY <2>2, <2>3 DEF Opens, OpenFails, ClientNotices, Breaks
  <2>4. CASE sock' = sock
    BY <2>4
  <2> QED
    BY <2>1, <2>3, <2>4 DEF Next, ClientStep, ServerStep, StartCall, SendCall, RefuseCall,
       CallTimeout, Deliver, Reconnect, UserClose, ServerOpens, ServerNotices, QueueCloses,
       Receive, Finish
<1> QED BY <1>1, SessionInductive, PTL DEF Spec, CloseIsFinal
=============================================================================
