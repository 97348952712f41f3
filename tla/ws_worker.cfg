\* Two connections, two jobs, each of which may be tried twice.
SPECIFICATION WsSpec
CONSTANTS
  j1 = j1
  j2 = j2
  Job = {j1, j2}
  Broker = {1, 2}
  NoConn = 0
  Answer <- Answers
  NoAnswer = NoAnswer
  MaxId = 3
  Concurrency = 2
  MaxAttempts = 2
SYMMETRY JobSymmetry
INVARIANTS
  OwnResult
  RequestsMatchJobs
CHECK_DEADLOCK FALSE
