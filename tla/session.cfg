\* Two calls over two connections, without symmetry.
SPECIFICATION FairSpec
CONSTANTS
  k1 = k1
  k2 = k2
  Call = {k1, k2}
  Broker = {1, 2}
  Answer <- MCAnswer
  NoAnswer = NoAnswer
  MaxId = 2
  MaxConn = 2
INVARIANTS
  SessionInv
  ReturnMeansEffect
PROPERTIES
  CloseIsFinal
  EveryCallSettles
  QueuesEndWithConnections
CHECK_DEADLOCK FALSE
