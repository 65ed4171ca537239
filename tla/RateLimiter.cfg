\* Four calls, two per window of four units, scripts up to one unit late: stamps
\* leave the window one by one and every failure of Redis can occur.
CONSTANTS
    Requests = {r1, r2, r3, r4}
    Limit = 2
    Window = 4
    MaxDelay = 1
    MaxTime = 5
    RedisMayFail = TRUE
SYMMETRY Symmetry
SPECIFICATION Spec
INVARIANTS
    IInv
    RedisWindowLimit
    MemoryWindowLimit
    RefusalJustified
PROPERTIES
    NobodyBeforeReset
\* The clock and the calls are bounded.
CHECK_DEADLOCK FALSE
