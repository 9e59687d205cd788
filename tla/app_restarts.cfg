SPECIFICATION AppSpec
CONSTANTS
  MaxTransfers = 3
  FilePoolSize = 3
  TransportPoolSize = 3
  MaxHandlers = 2
  BlockMod = 2
  QueueCap = 1
  Fds = {fd1, fd2, fd3}
  Peers = {p1}
  empty = empty
  absent = absent
  Names <- MCNames
  ValidNames <- MCNames
  FileBlocks <- MCFileBlocks
  None = None
  OsMayFail = TRUE
  SocketErrors = FALSE
SYMMETRY Symmetry
INVARIANTS
  LifecycleInStep
  StartHasRoom
  NoStaleRegistration
  Ownership
PROPERTIES
  Isolation
  OnlyTeardownForgets
  ServerUnlessForgotten
  RefusalLeavesNoTrace
