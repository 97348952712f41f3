\* One proxy, two POSTs, no fault: is every change read by the listener?
SPECIFICATION Spec
CONSTANTS
  a = a
  b = b
  q1 = q1
  q2 = q2
  v1 = v1
  v2 = v2
  bad = bad
  None = None
  Proxy = {a}
  Admin = {a}
  Queue = {q1, q2}
  Version = {v1, v2}
  Poison = {}
  MaxLen = 5
  HscanRepeats = FALSE
  MaxOps = 3
  MaxFaults = 0
  MaxInflight = 2
SYMMETRY Symmetric
INVARIANTS
  EveryListenerNotified
CHECK_DEADLOCK FALSE
