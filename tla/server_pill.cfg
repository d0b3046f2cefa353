SPECIFICATION ServiceSpec
CONSTANTS
  min_threads = 2
  max_threads = 3
  MaxRequired = 3
  MaxPills = 1
  Conns <- MCConn
  Requests <- MCWrites
  Owner <- MCOwner
  Self = 1
  Peers <- MCPeers
  MaxWrites = 1
  MeshThreads = 0
  c1 = c1
  c2 = c2
CHECK_DEADLOCK FALSE
PROPERTY GracefulKeepsWrites
