\* Three starts, two failures of the connection, every setting of two variables.
SPECIFICATION FairStartupSpec
CONSTANTS
  Queue = {"q1", "q2"}
  MaxStarts = 3
  MaxDrops = 2
INVARIANTS
  StartupInv
PROPERTIES
  StartsUnlessDropped
CHECK_DEADLOCK FALSE
