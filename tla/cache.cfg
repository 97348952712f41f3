\* Three names compete for two places.
SPECIFICATION Spec
CONSTANTS
  n1 = n1
  n2 = n2
  n3 = n3
  r1 = r1
  r2 = r2
  Name = {n1, n2, n3}
  Request = {r1, r2}
  NoQueue = 0
  Capacity = 2
  MaxMade = 4
INVARIANTS
  CacheInv
  QueuesAccounted
PROPERTIES
  ImplementsRecencyCache
CHECK_DEADLOCK FALSE
