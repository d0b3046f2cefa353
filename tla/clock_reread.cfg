SPECIFICATION Spec
CONSTANTS
  d1 = d1
  b1 = b1
  b2 = b2
  NoThread = NoThread
  Direct <- MCDirect
  Batched <- MCNone
  NodeId = 1
  UintMax = 1
  BatchSize = 2
  Incoming <- MCNone
  StepsBack = TRUE
  MaxPhys = 3
  MaxCalls = 6
CHECK_DEADLOCK FALSE
PROPERTIES NowIsLatest
