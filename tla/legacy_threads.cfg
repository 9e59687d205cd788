\* Two clients and two threads, a file of one whole block and a shorter one;
\* each block is sent again once, and one datagram comes twice.
SPECIFICATION Spec
CONSTANTS
    a = a
    b = b
    t1 = t1
    t2 = t2
    f = f
    g = g
    None = None
    ByteMod = 256
    Clients <- TwoClients
    Workers <- TwoThreads
    Stored = {f}
    Absent = {g}
    Full = 1
    MaxRetries = 1
    MaxCopies = 1
INVARIANTS
    AloneIntact
    AcknowledgedIsStored
PROPERTIES
    WorkersEnd
\* Clients may have ended, or wait for datagrams that were lost.
CHECK_DEADLOCK FALSE
