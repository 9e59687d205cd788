\* Three callers share two timers; two settings, a clock of four readings.
SPECIFICATION Spec
CONSTANTS
    PoolSize = 2
    h1 = h1
    h2 = h2
    h3 = h3
    Holders <- MCHolders
    Configs <- MCConfigs
    Null = Null
    ClockMayFail = FALSE
    MaxNow = 3
SYMMETRY Symmetry
INVARIANTS
    TypeOK
    Exclusive
PROPERTIES
    TimersAreAlarms
\* Nobody need call anything once the clock has reached its bound.
CHECK_DEADLOCK FALSE
