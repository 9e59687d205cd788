SPECIFICATION Spec
CONSTANTS
  MaxTransfers = 2
  FilePoolSize = 2
  TransportPoolSize = 3
  MaxHandlers = 2
  BlockMod = 2
  QueueCap = 2
  Fds = {fd1, fd2, fd3}
  Peers = {p1}
  small = small
  absent = absent
  refused = refused
  Names <- MCNames
  ValidNames <- MCValidNames
  FileBlocks <- MCFileBlocks
  None = None
  OsMayFail = TRUE
  SocketErrors = TRUE
SYMMETRY Symmetry
INVARIANTS
  Ownership
  DispatchSafe
PROPERTIES
  Isolation
  RefusalLeavesNoTrace
