\* Two calls and their jobs, tried once.
SPECIFICATION ProgramSpec
CONSTANTS
  c1 = c1
  c2 = c2
  Call = {c1, c2}
  Job = {c1, c2}
  Broker = {1}
  Answer <- MCAnswer
  None = None
  Attempts = 1
  MaxId = 2
  NoAnswer = NoAnswer
INVARIANTS
  GoInv
  AddedAsReported
  GoWorkerInv
PROPERTIES
  ReturnsUnlessLate
  AddedJobsEnd
CHECK_DEADLOCK FALSE
