SPECIFICATION FairSpec
CONSTANTS
  MaxTransfers = 1
  FilePoolSize = 1
  TransportPoolSize = 2
  MaxHandlers = 3
  BlockMod = 3
  QueueCap = 1
  Fds = {fd1, fd2}
  Peers = {p1}
  small = small
  absent = absent
  refused = refused
  Names <- MCNames
  ValidNames <- MCValidNames
  FileBlocks <- MCFileBlocks
  None = None
  OsMayFail = FALSE
  SocketErrors = FALSE
PROPERTIES
  EveryTransferReleased
