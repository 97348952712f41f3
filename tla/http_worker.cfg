\* Two jobs tried twice, a worker and its replacement, two signals.
SPECIFICATION FairSpec
CONSTANTS
  j1 = j1
  j2 = j2
  w1 = w1
  w2 = w2
  s1 = s1
  s2 = s2
  None = None
  Job = {j1, j2}
  Worker = {w1, w2}
  Signal = {s1, s2}
  Attempts = 2
  Concurrency = 1
INVARIANTS
  HttpWorkerInv
  NoJobCutByExit
PROPERTIES
  CallEndsUnlessStalled
  ExitsUnlessStalled
CHECK_DEADLOCK FALSE
