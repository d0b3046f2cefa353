SPECIFICATION OrderlySpec
CONSTANTS
  d1 = d1
  b1 = b1
  b2 = b2
  NoThread = NoThread
  Direct <- MCNone
  Batched <- MCBatched
  NodeId = 1
  UintMax = 3
  BatchSize = 2
  Incoming <- MCIncoming
  StepsBack = FALSE
  MaxPhys = 2
  MaxCalls = 4
CHECK_DEADLOCK FALSE
PROPERTIES EveryReturnIsCausal
