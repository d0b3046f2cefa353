SPECIFICATION Spec
CONSTANTS
  d1 = d1
  b1 = b1
  b2 = b2
  NoThread = NoThread
  Direct <- MCDirect
  Batched <- MCNone
  NodeId = 1
  UintMax = 3
  BatchSize = 2
  Incoming <- MCFullIncoming
  StepsBack = FALSE
  MaxPhys = 2
  MaxCalls = 4
CHECK_DEADLOCK FALSE
PROPERTIES NowIsCausal
