\* One proxy that receives requests, crashes, stops and meets poison metadata.
SPECIFICATION Spec
CONSTANTS
  a = a
  b = b
  q1 = q1
  q2 = q2
  v1 = v1
  v2 = v2
  bad = bad
  None = None
  Proxy = {a}
  Admin = {a}
  Queue = {q1, q2}
  Version = {v1, v2, bad}
  Poison = {bad}
  MaxLen = 2
  HscanRepeats = TRUE
  MaxOps = 3
  MaxFaults = 2
  MaxInflight = 2
SYMMETRY Symmetric
INVARIANTS
  NoSilentStaleness
  RegistryInv
PROPERTIES
  NoLeakedWorker
  NoServiceGap
CHECK_DEADLOCK FALSE
