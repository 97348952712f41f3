---------------------------- MODULE QueueSession ----------------------------
(***************************************************************************)
(* A Bun QueueClient (queue-client.ts) over its reconnecting socket        *)
(* (utils.ts, ws-autoreconnect.ts), and the queue controller of the proxy  *)
(* (websocket/queue.ts) at the other end of each connection.               *)
(*                                                                         *)
(* The client keeps one promise of a connection, one socket object and one *)
(* MessageBroker for its whole life; the proxy makes a BullMQ Queue for    *)
(* each connection.  What a command does to the queue is left out, but for *)
(* whether it ran.  The continuations of a promise run before the next     *)
(* event of the client.                                                    *)
(***************************************************************************)
EXTENDS MessageBroker, FiniteSets

CONSTANTS
  Call,    \* calls of the methods of the client
  MaxConn  \* bound: connections the client opens

ASSUME SessionAssumption ==
  /\ MaxConn \in Nat \ {0}
  /\ 1 \in Broker
  /\ Answer = [call : Call, ok : BOOLEAN]

VARIABLES
  connecting, \* the promise of connect()
  mb,         \* this.mb, 0 when it is not made
  sock,       \* the sockets as the client's end sees them
  instance,   \* the socket in use, 0 when there is none
  retry,      \* the reconnect timer is set
  stopped,    \* ghost: a close() of the user returned
  call,       \* how far a call of a method is
  msg,        \* the broker and id of its request
  queue,      \* ws.data.queue of each connection
  up, down,   \* requests and answers under way
  running,    \* commands that await BullMQ
  ran         \* times the command of a call took effect

clientVars == <<connecting, mb, instance, retry, stopped>>
serverVars == <<queue, running, ran>>
vars == <<brokerVars, clientVars, sock, call, msg, serverVars, up, down>>

Conn == 1 .. MaxConn
NoMsg == <<0, 0>>

Init ==
  /\ BrokerInit
  /\ connecting = "none" /\ mb = 0 /\ instance = 0 /\ retry = FALSE
  /\ stopped = FALSE
  /\ sock = [c \in Conn |-> "none"]
  /\ call = [k \in Call |-> "idle"]
  /\ msg = [k \in Call |-> NoMsg]
  /\ queue = [c \in Conn |-> "none"]
  /\ up = {} /\ down = {} /\ running = {}
  /\ ran = [k \in Call |-> 0]

-----------------------------------------------------------------------------
\* The event loop of the client takes the next event when no call has a settled
\* promise to continue from.
Idle == \A k \in Call : call[k] = "asks" => connecting \notin {"resolved", "rejected"}

\* new WebSocket with its listeners.
NewSocket ==
  \E c \in Conn : /\ sock[c] = "none"
                  /\ \A d \in 1 .. c - 1 : sock[d] # "none"
                  /\ sock' = [sock EXCEPT ![c] = "connecting"]
                  /\ instance' = c

\* A method up to its await; the first one connects.
StartCall(k) ==
  /\ call[k] = "idle"
  /\ call' = [call EXCEPT ![k] = "asks"]
  /\ IF connecting = "none"
     THEN connecting' = "pending" /\ NewSocket
     ELSE UNCHANGED <<connecting, sock, instance>>
  /\ UNCHANGED <<brokerVars, mb, retry, stopped, msg, serverVars, up, down>>

\* Mutant: every call that finds no broker before its await makes one.
BrokerOfItsOwn(k) == CHOOSE b \in Broker : messageId[b] = 0 \/ b = Cardinality(Broker)

BrokerFor(k) == IF mb = 0 THEN 1 ELSE mb

\* send: what is written to no socket, or to one that is not open, is lost.
SendCall(k) ==
  /\ call[k] = "asks" /\ connecting = "resolved"
  /\ call' = [call EXCEPT ![k] = "sent"]
  /\ LET b == BrokerFor(k) IN
       /\ mb' = b
       /\ SendData(b)
       /\ msg' = [msg EXCEPT ![k] = <<b, NextId(b)>>]
       /\ up' = IF instance # 0 /\ sock[instance] = "open"
                THEN up \cup {[conn |-> instance, id |-> NextId(b), call |-> k]}
                ELSE up
  /\ UNCHANGED <<connecting, instance, retry, stopped, sock, serverVars, down>>

\* A call that awaits the promise of a failed first connection.
RefuseCall(k) ==
  /\ call[k] = "asks" /\ connecting = "rejected"
  /\ call' = [call EXCEPT ![k] = "refused"]
  /\ UNCHANGED <<brokerVars, clientVars, sock, msg, serverVars, up, down>>

\* The broker of the client is the package @taskforcesh/message-broker, taken to
\* be what the proxy's own copy of it is.
CallTimeout(b, i) ==
  /\ Idle
  /\ Timeout(b, i)
  /\ UNCHANGED <<clientVars, sock, call, msg, serverVars, up, down>>

Deliver(a) ==
  /\ Idle
  /\ a \in down /\ sock[a.conn] = "open"
  /\ down' = down \ {a}
  /\ ProcessMessage(mb, a.id, [call |-> a.call, ok |-> a.ok])
  /\ UNCHANGED <<clientVars, sock, call, msg, serverVars, up>>

-----------------------------------------------------------------------------
\* openHandler: onopen is there for the first connection only.
Opens(c) ==
  /\ Idle
  /\ sock[c] = "connecting" /\ queue[c] # "none"
  /\ sock' = [sock EXCEPT ![c] = "open"]
  /\ connecting' = IF connecting = "pending" THEN "resolved" ELSE connecting
  /\ UNCHANGED <<brokerVars, mb, instance, retry, stopped, call, msg,
                 serverVars, up, down>>

\* Mutant: the promise of connect() knows no error.
NoOnError == connecting

OnError == IF connecting = "pending" THEN "rejected" ELSE connecting

\* Mutant: close() leaves the socket in place.
Kept(c) == c

Dropped(c) == 0

\* errorHandler, then closeHandler, which closes and reconnects.
OpenFails(c) ==
  /\ Idle
  /\ sock[c] = "connecting"
  /\ connecting' = OnError
  /\ sock' = [sock EXCEPT ![c] = "closed"]
  /\ instance' = Dropped(c)
  /\ retry' = TRUE
  /\ UNCHANGED <<brokerVars, mb, stopped, call, msg, serverVars, up, down>>

Breaks(c) ==
  /\ sock[c] = "open"
  /\ sock' = [sock EXCEPT ![c] = "broken"]
  /\ UNCHANGED <<brokerVars, clientVars, call, msg, serverVars, up, down>>

\* closeHandler: only an abnormal code reconnects.
ClientNotices(c) ==
  /\ Idle
  /\ sock[c] = "broken"
  /\ sock' = [sock EXCEPT ![c] = "closed"]
  /\ instance' = Dropped(c)
  /\ retry' \in BOOLEAN
  /\ UNCHANGED <<brokerVars, connecting, mb, stopped, call, msg, serverVars,
                 up, down>>

Reconnect ==
  /\ Idle
  /\ retry
  /\ retry' = FALSE
  /\ NewSocket
  /\ UNCHANGED <<brokerVars, connecting, mb, stopped, call, msg, serverVars,
                 up, down>>

\* close() of the user; it throws, and changes nothing, when there is no
\* instance or the first connection failed.
UserClose ==
  /\ Idle
  /\ connecting = "resolved" /\ instance # 0
  /\ sock' = [sock EXCEPT ![instance] = "closed"]
  /\ instance' = 0
  /\ stopped' = TRUE
  /\ UNCHANGED <<brokerVars, connecting, mb, retry, call, msg, serverVars,
                 up, down>>

-----------------------------------------------------------------------------
\* openQueue; the constructor of Queue may throw.
ServerOpens(c) ==
  /\ sock[c] = "connecting" /\ queue[c] = "none"
  /\ \E q \in {"open", "refused"} : queue' = [queue EXCEPT ![c] = q]
  /\ UNCHANGED <<brokerVars, clientVars, sock, call, msg, running, ran, up, down>>

\* respond: a socket that is not open drops it.
Respond(m, ok) ==
  down' = IF sock[m.conn] # "open" THEN down
          ELSE down \cup {[conn |-> m.conn, id |-> m.id, call |-> m.call, ok |-> ok]}

\* message up to its await; without a queue the method cannot be read.
Receive(m) ==
  /\ m \in up /\ queue[m.conn] \in {"open", "refused"}
  /\ up' = up \ {m}
  /\ IF queue[m.conn] = "open"
     THEN running' = running \cup {m} /\ down' = down
     ELSE running' = running /\ Respond(m, FALSE)
  /\ UNCHANGED <<brokerVars, clientVars, sock, call, msg, queue, ran>>

\* Mutant: the method is not awaited.
NotAwaited == {<<0, TRUE>>, <<1, TRUE>>}

\* Effect and success of a method: one that throws may have had its effect.
Results == {<<0, FALSE>>, <<1, FALSE>>, <<1, TRUE>>}

\* message after its await; the queue may be closing or closed by now.
Finish(m) ==
  /\ m \in running
  /\ running' = running \ {m}
  /\ \E r \in Results :
       /\ queue[m.conn] = "closed" => r[1] = 0
       /\ ran' = [ran EXCEPT ![m.call] = @ + r[1]]
       /\ Respond(m, r[2])
  /\ UNCHANGED <<brokerVars, clientVars, sock, call, msg, queue, up>>

\* Mutant: the queue is taken from the data and not closed.
Forgotten(c) == "none"

Closing(c) == IF queue[c] = "open" THEN "closing" ELSE "closed"

\* close of the controller up to its await.
ServerNotices(c) ==
  /\ queue[c] \in {"open", "refused"} /\ sock[c] \in {"broken", "closed"}
  /\ queue' = [queue EXCEPT ![c] = Closing(c)]
  /\ up' = {m \in up : m.conn # c}
  /\ UNCHANGED <<brokerVars, clientVars, sock, call, msg, running, ran, down>>

QueueCloses(c) ==
  /\ queue[c] = "closing"
  /\ queue' = [queue EXCEPT ![c] = "closed"]
  /\ UNCHANGED <<brokerVars, clientVars, sock, call, msg, running, ran, up, down>>

-----------------------------------------------------------------------------
ClientStep ==
  \/ \E k \in Call : StartCall(k) \/ SendCall(k) \/ RefuseCall(k)
  \/ \E b \in Broker, i \in Id : CallTimeout(b, i)
  \/ \E a \in down : Deliver(a)
  \/ \E c \in Conn : Opens(c) \/ OpenFails(c) \/ ClientNotices(c)
  \/ Reconnect
  \/ UserClose

ServerStep ==
  \/ \E c \in Conn : ServerOpens(c) \/ ServerNotices(c) \/ QueueCloses(c)
  \/ \E m \in up : Receive(m)
  \/ \E m \in running : Finish(m)

Next == ClientStep \/ ServerStep \/ \E c \in Conn : Breaks(c)

Spec == Init /\ [][Next]_vars

\* Promises continue, timers that are due fire, a connection attempt ends, a
\* dead socket is noticed at both ends and closing a Queue ends.
Fairness ==
  /\ \A k \in Call : WF_vars(SendCall(k)) /\ WF_vars(RefuseCall(k))
  /\ \A b \in Broker, i \in Id : WF_vars(CallTimeout(b, i))
  /\ \A c \in Conn : /\ WF_vars(ServerOpens(c) \/ Opens(c) \/ OpenFails(c))
                     /\ WF_vars(ServerNotices(c))
                     /\ WF_vars(QueueCloses(c))

FairSpec == Spec /\ Fairness

-----------------------------------------------------------------------------
Settled(k) == \/ call[k] = "refused"
              \/ call[k] = "sent" /\ promise[msg[k][1]][msg[k][2]] # "waiting"

\* The answer the caller of k got, if any.
Got(k) == IF call[k] = "sent" THEN answer[msg[k][1]][msg[k][2]] ELSE NoAnswer

TypeOK ==
  /\ BrokerTypeOK
  /\ connecting \in {"none", "pending", "resolved", "rejected"}
  /\ mb \in {0} \cup Broker
  /\ sock \in [Conn -> {"none", "connecting", "open", "broken", "closed"}]
  /\ instance \in {0} \cup Conn
  /\ retry \in BOOLEAN /\ stopped \in BOOLEAN
  /\ call \in [Call -> {"idle", "asks", "refused", "sent"}]
  /\ msg \in [Call -> {NoMsg} \cup Broker \X Id]
  /\ queue \in [Conn -> {"none", "open", "refused", "closing", "closed"}]
  /\ up \cup running \subseteq [conn : Conn, id : Id, call : Call]
  /\ down \subseteq [conn : Conn, id : Id, call : Call, ok : BOOLEAN]
  /\ ran \in [Call -> 0 .. 1]

\* The socket in use is the only one that is not over, and the reconnect timer
\* runs only without one: a client never holds two connections, each with a
\* Queue at the proxy (ws-autoreconnect.ts:26-34, 82-86, 104-127).
OneConnection ==
  /\ \A c \in Conn : sock[c] \notin {"none", "closed"} <=> c = instance
  /\ retry => instance = 0

\* Before the first call there is no socket; a close() of the user that returned
\* leaves none, and no timer that makes one.
ConnectionInv ==
  /\ connecting = "none" => instance = 0 /\ ~retry
  /\ stopped => instance = 0 /\ ~retry /\ connecting # "none"

\* The calls that are sent share one broker and have an id of their own each.
SentInv ==
  /\ \A k \in Call : call[k] = "sent" =>
       mb # 0 /\ msg[k] \in {mb} \X Id /\ msg[k][2] < messageId[mb]
  /\ \A k, l \in Call : call[k] = "sent" /\ call[l] = "sent" /\ msg[k] = msg[l] => k = l

\* A command is under way once, before its effect; what is under way in either
\* direction has the id of its call; an answer of success is of a command that ran.
UnderWayInv ==
  /\ \A m \in up \cup running : ran[m.call] = 0
  /\ up \cap running = {}
  /\ \A m, n \in up \cup running : m.call = n.call => m = n
  /\ \A m \in up \cup running \cup down : call[m.call] = "sent" /\ m.id = msg[m.call][2]
  /\ \A a \in down : a.ok => ran[a.call] = 1

\* What holds between any two events of the client and the proxy.
SessionInv ==
  /\ TypeOK /\ OneConnection /\ ConnectionInv /\ SentInv /\ UnderWayInv
  /\ FreshIdsUnused

\* A call gets the answer to its own command, whatever calls it shares the
\* connection with and however often that is replaced: they share the promise
\* of the connection and the broker (queue-client.ts:40-60).
OwnAnswer == \A k \in Call : Got(k) # NoAnswer => Got(k).call = k

\* A call gets its own answer; one that returns had its effect, once; one that
\* is rejected because the connection failed had none (queue-client.ts:28-37
\* against queue.ts:51-57).  A call that times out may have had it.
ReturnMeansEffect ==
  /\ OwnAnswer
  /\ \A k \in Call :
       /\ Got(k) # NoAnswer /\ Got(k).ok => ran[k] = 1
       /\ call[k] \in {"idle", "asks", "refused"} => ran[k] = 0

\* Every call of a method ends, over a connection that is down, that breaks
\* under it or that the user closed (utils.ts:36-50, message-broker.ts:55-59).
EveryCallSettles == \A k \in Call : call[k] = "asks" ~> Settled(k)

\* The Queue the proxy made for a connection is closed after the connection,
\* also one that broke while commands ran (queue.ts:69-81).
QueuesEndWithConnections ==
  \A c \in Conn : sock[c] = "closed" /\ queue[c] # "none" ~> queue[c] = "closed"

\* After a close() that returned the client opens no connection again
\* (ws-autoreconnect.ts:82-86 against 66-69).
CloseIsFinal == [][stopped => \A c \in Conn : sock'[c] # "none" => sock[c] # "none"]_vars
=============================================================================
