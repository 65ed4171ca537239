\* The documented key of a code, refuted by one call.
CONSTANTS
    Calls <- MCCalls
    Configured <- MCConfigured
    MaxBatch = 2
    MaxItems = 3
    MinTime = 28
    MaxTime = 28
    None = None
SPECIFICATION Spec
INVARIANTS
    KeyIsSharedSecret
CHECK_DEADLOCK FALSE
