SPECIFICATION Spec
CONSTANTS
  MaxTransfers = 3
  FilePoolSize = 2
  TransportPoolSize = 4
  MaxHandlers = 3
  BlockMod = 2
  QueueCap = 1
  Fds = {fd1, fd2, fd3, fd4}
  Peers = {p1, p2}
  small = small
  absent = absent
  refused = refused
  Names <- MCNames
  ValidNames <- MCValidNames
  FileBlocks <- MCFileBlocks
  None = None
  OsMayFail = FALSE
  SocketErrors = FALSE
SYMMETRY Symmetry
INVARIANTS
  TypeOK
  Ownership
  DispatchSafe
  BlockTracksFile
PROPERTIES
  Isolation
  DataInOrder
