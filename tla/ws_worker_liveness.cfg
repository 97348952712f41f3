\* Liveness, without symmetry.
SPECIFICATION FairWsSpec
CONSTANTS
  j1 = j1
  j2 = j2
  Job = {j1, j2}
  Broker = {1, 2}
  NoConn = 0
  Answer <- Answers
  NoAnswer = NoAnswer
  MaxId = 2
  Concurrency = 2
  MaxAttempts = 1
INVARIANTS
  WsInv
  NoForgottenPromise
PROPERTIES
  EveryJobReturns
  ClosedClientLeavesNoWorker
  IdsAreNotReused
CHECK_DEADLOCK FALSE
