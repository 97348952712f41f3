\* A proxy that serves the HTTP API and one that only follows the stream: the
\* follower skips nothing, and live listeners converge.
SPECIFICATION FairSpec
CONSTANTS
  a = a
  b = b
  q1 = q1
  q2 = q2
  v1 = v1
  v2 = v2
  bad = bad
  None = None
  Proxy = {a, b}
  Admin = {a}
  Queue = {q1, q2}
  Version = {v1}
  Poison = {}
  MaxLen = 2
  HscanRepeats = FALSE
  MaxOps = 3
  MaxFaults = 0
  MaxInflight = 2
INVARIANTS
  ReplicaNeverSkips
  NoSilentStaleness
PROPERTY
  EventuallyConsistent
