------------------------------ MODULE GoProgram ------------------------------
(***************************************************************************)
(* A Go program like clients/golang/tests/queue_test.go: goroutines call   *)
(* AddJob on the connection of a queue (GoWsClient), and a worker runs the *)
(* jobs over a connection of its own (GoWorker).  The job of a call is     *)
(* there for the worker when the server has added it.                      *)
(***************************************************************************)
EXTENDS GoWsClient, GoWorker

ASSUME JobAssumption == Job = Call

programVars == <<clientVars, brokerVars, workerVars>>

ProgramInit == ClientInit /\ WorkerInit

\* The proxy's worker takes a job that was added.
ProcessAdded(c) == added[c] = "ok" /\ Process(c)

ProgramNext ==
  \/ ClientNext /\ UNCHANGED <<brokerVars, workerVars>>
  \/ (WorkerStep \/ \E c \in Call : ProcessAdded(c)) /\ UNCHANGED clientVars

\* A call that was made goes on when it can; BullMQ hands out jobs, the timers
\* of the proxy fire and its event loop goes on, somebody reads the worker's
\* connection.  Nothing forces the answers to calls, and the processor function
\* may never return.
ProgramFairness ==
  /\ \A c \in Call :
       /\ WF_programVars((Register(c) \/ Write(c) \/ WriteError(c) \/ Receive(c) \/ ResponseTimeout(c))
                           /\ UNCHANGED <<brokerVars, workerVars>>)
       /\ WF_programVars((ProcessAdded(c) \/ Settle(c)) /\ UNCHANGED clientVars)
  /\ WF_programVars((Listen \/ ListenForResponses) /\ UNCHANGED clientVars)
  /\ \A i \in Id : WF_programVars(RequestTimeout(i) /\ UNCHANGED clientVars)

ProgramSpec == ProgramInit /\ [][ProgramNext]_programVars /\ ProgramFairness

-----------------------------------------------------------------------------
\* A job that was added ends, completed or failed, as long as its worker is
\* connected, also when the wrong goroutine of the worker read its message: the
\* timers of the proxy use up its attempts (worker.go:40-55,
\* wsclient.go:79-95 against message-broker.ts:55-59).
AddedJobsEnd ==
  \A c \in Call : added[c] = "ok" ~> job[c] \in {"completed", "failed"} \/ ~alive
=============================================================================
