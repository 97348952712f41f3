---------------------------- MODULE GoWsClient ----------------------------
(***************************************************************************)
(* The connection of a Go queue client (clients/golang/wsclient): calls of *)
(* SendWebSocketMessage, each in a goroutine of its own, the goroutine     *)
(* listenForResponses, and the two mutexes and the unbuffered channels     *)
(* between them.  The critical sections of SendWebSocketMessage block      *)
(* nowhere and are one step; the reader keeps pendingMsgLock while it      *)
(* waits for a call to take an answer.                                     *)
(***************************************************************************)
EXTENDS Integers

CONSTANTS
  Call,   \* calls of AddJob
  None    \* no call

ASSUME NoneAssumption == None \notin Call

VARIABLES
  currentMsgID, \* next id
  id,           \* msgID of a call
  pc,           \* where a call is
  outcome,      \* what it returned
  pendingMsgs,  \* id -> the call whose channel is registered
  writeMutex,   \* call that holds the mutex
  delivering,   \* answer the reader offers, with pendingMsgLock held
  connected,    \* the connection works
  requests,     \* requests the server has not served
  answers,      \* answers the reader has not read
  added         \* what the server did for a call

clientVars == <<currentMsgID, id, pc, outcome, pendingMsgs, writeMutex, delivering,
                connected, requests, answers, added>>

\* What an answer carries: the job, an err that is an object or no field at all,
\* or err as bare text.
Data   == {"ok", "no", "text"}
Locked == delivering # None

ClientInit ==
  /\ currentMsgID = 1
  /\ id = [c \in Call |-> 0]
  /\ pc = [c \in Call |-> "idle"]
  /\ outcome = [c \in Call |-> "none"]
  /\ pendingMsgs = {}
  /\ writeMutex = None
  /\ delivering = None
  /\ connected = TRUE
  /\ requests = {}
  /\ answers = {}
  /\ added = [c \in Call |-> "none"]

\* Mutant: the id is read and written back outside the lock.
NextMsgIDRaced == {currentMsgID, currentMsgID + 1}

NextMsgID == {currentMsgID + 1}

\* msgID := currentMsgID, under pendingMsgLock.
TakeId(c) ==
  /\ pc[c] = "idle"
  /\ ~Locked
  /\ id' = [id EXCEPT ![c] = currentMsgID]
  /\ currentMsgID' \in NextMsgID
  /\ pc' = [pc EXCEPT ![c] = "numbered"]
  /\ UNCHANGED <<outcome, pendingMsgs, writeMutex, delivering, connected, requests, answers, added>>

Without(i) == {p \in pendingMsgs : p.id # i}

\* pendingMsgs[msgID] = respChan, under pendingMsgLock.
Register(c) ==
  /\ pc[c] = "numbered"
  /\ ~Locked
  /\ pendingMsgs' = Without(id[c]) \cup {[id |-> id[c], call |-> c]}
  /\ pc' = [pc EXCEPT ![c] = "registered"]
  /\ UNCHANGED <<currentMsgID, id, outcome, writeMutex, delivering, connected, requests, answers, added>>

\* WriteJSON; the deferred Unlock keeps writeMutex until the call returns.
Write(c) ==
  /\ pc[c] = "registered"
  /\ writeMutex = None
  /\ connected
  /\ requests' = requests \cup {[id |-> id[c], call |-> c]}
  /\ writeMutex' = c
  /\ pc' = [pc EXCEPT ![c] = "select"]
  /\ UNCHANGED <<currentMsgID, id, outcome, pendingMsgs, delivering, connected, answers, added>>

\* Mutant: the early return of a failed write keeps the mutex.
UnlockOnlyOnSuccess(c) == c

\* writeMutex after a failed write: the deferred Unlock ran.
AfterError(c) == None

\* WriteJSON fails and the call returns; its channel stays registered.
WriteError(c) ==
  /\ pc[c] = "registered"
  /\ writeMutex = None
  /\ ~connected
  /\ writeMutex' = AfterError(c)
  /\ pc' = [pc EXCEPT ![c] = "returned"]
  /\ outcome' = [outcome EXCEPT ![c] = "error"]
  /\ UNCHANGED <<currentMsgID, id, pendingMsgs, delivering, connected, requests, answers, added>>

\* QueueController.message of the server: it runs a request (queue.add) and
\* answers once, at any time.
Serve(r, d) ==
  /\ r \in requests
  /\ requests' = requests \ {r}
  /\ added' = [added EXCEPT ![r.call] = d]
  /\ answers' = IF connected
                THEN answers \cup {[id |-> r.id, data |-> d, call |-> r.call]} ELSE answers
  /\ UNCHANGED <<currentMsgID, id, pc, outcome, pendingMsgs, writeMutex, delivering, connected>>

\* The connection fails: ReadJSON returns errors and the reader goes round its
\* loop (until the panic of the library, which is left out).
Break ==
  /\ connected
  /\ connected' = FALSE
  /\ answers' = {}
  /\ UNCHANGED <<currentMsgID, id, pc, outcome, pendingMsgs, writeMutex, delivering, requests, added>>

\* ReadJSON fails on an answer with err as text, and the reader goes on to the
\* next; it offers any other to the channel registered for its id.
Read(a) ==
  /\ ~Locked
  /\ a \in answers
  /\ answers' = answers \ {a}
  /\ delivering' = IF a.data # "text" /\ \E p \in pendingMsgs : p.id = a.id THEN a ELSE None
  /\ UNCHANGED <<currentMsgID, id, pc, outcome, pendingMsgs, writeMutex, connected, requests, added>>

\* AddJob: err and no data are errors, and so is a job that json.Unmarshal does
\* not take for a JobResponse.
AddJob(d) == IF d = "ok" THEN {"job", "error"} ELSE {"error"}

\* The call takes the answer from its channel and returns; the reader deletes
\* the entry and unlocks.
Receive(c) ==
  /\ Locked
  /\ [id |-> delivering.id, call |-> c] \in pendingMsgs
  /\ pc[c] = "select"
  /\ pc' = [pc EXCEPT ![c] = "returned"]
  /\ \E result \in AddJob(delivering.data) : outcome' = [outcome EXCEPT ![c] = result]
  /\ writeMutex' = None
  /\ pendingMsgs' = Without(delivering.id)
  /\ delivering' = None
  /\ UNCHANGED <<currentMsgID, id, connected, requests, answers, added>>

\* responseTimeout passes; the channel stays registered.
ResponseTimeout(c) ==
  /\ pc[c] = "select"
  /\ pc' = [pc EXCEPT ![c] = "returned"]
  /\ outcome' = [outcome EXCEPT ![c] = "error"]
  /\ writeMutex' = None
  /\ UNCHANGED <<currentMsgID, id, pendingMsgs, delivering, connected, requests, answers, added>>

CallStep(c) ==
  \/ TakeId(c) \/ Register(c) \/ Write(c) \/ WriteError(c)
  \/ Receive(c) \/ ResponseTimeout(c)

ClientNext ==
  \/ \E c \in Call : CallStep(c)
  \/ \E r \in requests, d \in Data : Serve(r, d)
  \/ \E a \in answers : Read(a)
  \/ Break

ClientSpec == ClientInit /\ [][ClientNext]_clientVars

-----------------------------------------------------------------------------
Request == [id : Nat, call : Call]
Reply  == [id : Nat, data : Data, call : Call]

GoTypeOK ==
  /\ currentMsgID \in Nat
  /\ id \in [Call -> Nat]
  /\ pc \in [Call -> {"idle", "numbered", "registered", "select", "returned"}]
  /\ outcome \in [Call -> {"none", "job", "error"}]
  /\ pendingMsgs \subseteq Request
  /\ writeMutex \in Call \cup {None}
  /\ delivering \in Reply \cup {None}
  /\ connected \in BOOLEAN
  /\ requests \subseteq Request
  /\ answers \subseteq Reply
  /\ added \in [Call -> Data \cup {"none"}]

\* Ids are given out once, by currentMsgID.
FreshIds ==
  /\ \A c \in Call : pc[c] # "idle" => id[c] < currentMsgID
  /\ \A c, d \in Call : pc[c] # "idle" /\ pc[d] # "idle" /\ id[c] = id[d] => c = d

\* Everything under an id is of the call that took it: channels, requests, and
\* answers, which say what the server did for that call.
ByOwner ==
  /\ \A p \in pendingMsgs : pc[p.call] # "idle" /\ id[p.call] = p.id
  /\ \A r \in requests : pc[r.call] \in {"select", "returned"} /\ id[r.call] = r.id
  /\ \A a \in answers \cup (IF Locked THEN {delivering} ELSE {}) :
       /\ pc[a.call] \in {"select", "returned"}
       /\ id[a.call] = a.id
       /\ added[a.call] = a.data
       /\ \A r \in requests : r.call # a.call

\* Only the call in its select holds writeMutex: calls are answered one by one.
OneAtATime == \A c \in Call : pc[c] = "select" <=> writeMutex = c

\* A call that waits for its answer can be given it: its channel is there.
Reachable ==
  \A c \in Call : pc[c] \in {"registered", "select"} =>
    [id |-> id[c], call |-> c] \in pendingMsgs

GoInv == GoTypeOK /\ FreshIds /\ ByOwner /\ OneAtATime /\ Reachable

\* AddJob returns a job only when the server added the job of this very call,
\* however late, lost or reordered the answers are: the id and the channel tie
\* them (SendWebSocketMessage, listenForResponses).
AddedAsReported == \A c \in Call : outcome[c] = "job" => added[c] = "ok"

\* The reader offers an answer to a call that has returned.
LateAnswer ==
  Locked /\ \E p \in pendingMsgs : p.id = delivering.id /\ pc[p.call] = "returned"

\* Every call that has its id returns, unless the reader has stopped on an
\* answer that came after its call had given up: the two mutexes, the channels
\* and the error paths of SendWebSocketMessage block nobody else for ever.
ReturnsUnlessLate == \A c \in Call : pc[c] = "numbered" ~> pc[c] = "returned" \/ LateAnswer
=============================================================================
