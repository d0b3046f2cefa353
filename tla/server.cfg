SPECIFICATION ServiceFairSpec
CONSTANTS
  min_threads = 2
  max_threads = 3
  MaxRequired = 4
  MaxPills = 1
  Conns <- MCConn
  Requests <- MCRequests
  Owner <- MCOwner
  Self = 1
  Peers <- MCPeers
  MaxWrites = 1
  MeshThreads = 1
  c1 = c1
  c2 = c2
CHECK_DEADLOCK FALSE
INVARIANTS ServiceTypeOK Accounted StaysUp ConnectionsCounted QuietShutdown
PROPERTIES Answered SignalEndsProcess
