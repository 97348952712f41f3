\* Two requests and two jobs that are taken twice.
SPECIFICATION Spec
CONSTANTS
  r1 = r1
  r2 = r2
  j1 = j1
  j2 = j2
  a1 = a1
  t1 = t1
  t2 = t2
  None = None
  Request = {r1, r2}
  Job = {j1, j2}
  Token = {a1, t1, t2}
  AuthToken = {a1}
  MaxTakes = 2
SYMMETRY Symmetry
INVARIANTS
  HttpJobsInv
  WritersHeldLock
  AllOrNothing
CHECK_DEADLOCK FALSE
