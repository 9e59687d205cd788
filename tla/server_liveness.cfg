SPECIFICATION FairSpec
CONSTANTS
  MaxTransfers = 2
  FilePoolSize = 2
  TransportPoolSize = 3
  MaxHandlers = 3
  BlockMod = 2
  QueueCap = 1
  Fds = {fd1, fd2, fd3}
  Peers = {p1}
  small = small
  absent = absent
  refused = refused
  Names <- MCNames
  ValidNames <- MCValidNames
  FileBlocks <- MCFileBlocks
  None = None
  OsMayFail = FALSE
  SocketErrors = FALSE
PROPERTIES
  SocketsServed
