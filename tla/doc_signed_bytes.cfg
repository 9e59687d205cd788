SPECIFICATION SysSpec
CONSTANTS
  MaxTransfers = 2
  FilePoolSize = 2
  TransportPoolSize = 3
  MaxHandlers = 3
  WellKnown = port69
  ByteMod = 4
  BlockMod <- MCBlockMod
  QueueCap = 1
  MaxCopies = 0
  Fds = {fd1, fd2, fd3}
  Peers = {p1}
  stored = stored
  absent = absent
  Full = 2
  Names <- MCNames
  ValidNames <- MCNames
  FileBlocks <- MCFileBlocks
  None = None
  OsMayFail = FALSE
  SocketErrors = FALSE
CHECK_DEADLOCK FALSE
INVARIANTS
  NextBlockRecognised
