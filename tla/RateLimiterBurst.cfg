\* The documented limit with a Redis that never fails and scripts that run at
\* once.
CONSTANTS
    Requests = {r1, r2, r3, r4}
    Limit = 2
    Window = 3
    MaxDelay = 0
    MaxTime = 4
    RedisMayFail = FALSE
SYMMETRY Symmetry
SPECIFICATION Spec
INVARIANTS
    LimitPerWindow
CHECK_DEADLOCK FALSE
