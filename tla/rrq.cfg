\* Two clients of one stored file of two whole blocks and a short one, two
\* transfers at once; one datagram comes twice.
SPECIFICATION SysSpec
CONSTANTS
  MaxTransfers = 2
  FilePoolSize = 2
  TransportPoolSize = 3
  MaxHandlers = 3
  WellKnown = port69
  ByteMod = 8
  BlockMod <- MCBlockMod
  QueueCap = 1
  MaxCopies = 1
  Fds = {fd1, fd2, fd3}
  Peers = {p1, p2}
  stored = stored
  absent = absent
  Full = 2
  Names <- MCNames
  ValidNames <- MCNames
  FileBlocks <- MCFileBlocks
  None = None
  OsMayFail = FALSE
  SocketErrors = FALSE
CHECK_DEADLOCK FALSE
SYMMETRY Symmetry
INVARIANTS
  OneBlockOutstanding
PROPERTIES
  ImplementsDownload
  ImplementsServer
  CompletionDelivered
