\* One client, a file of two whole blocks and a shorter one; an
\* acknowledgement comes twice.
SPECIFICATION Spec
CONSTANTS
    a = a
    b = b
    t1 = t1
    t2 = t2
    f = f
    g = g
    None = None
    ByteMod = 256
    Clients <- OneClient
    Workers <- TwoThreads
    Stored = {f}
    Absent = {g}
    Full = 2
    MaxRetries = 1
    MaxCopies = 1
INVARIANTS
    DownloadCompleteIsWhole
\* Clients may have ended, or wait for datagrams that were lost.
CHECK_DEADLOCK FALSE
