SPECIFICATION OrderlySpec
CONSTANTS
  d1 = d1
  b1 = b1
  b2 = b2
  NoThread = NoThread
  Direct <- MCNone
  Batched <- MCBatched
  NodeId = 1
  UintMax = 6
  BatchSize = 2
  Incoming <- MCNone
  StepsBack = TRUE
  MaxPhys = 2
  MaxCalls = 4
CHECK_DEADLOCK FALSE
PROPERTIES ThreadMonotonic
