\* A sample of calls to each endpoint and command, batches of two, three and four items,
\* a clock that crosses the end of the slots of 15 and of 30 seconds.
CONSTANTS
    Calls <- MCCalls
    Configured <- MCConfigured
    MaxBatch = 2
    MaxItems = 3
    MinTime = 28
    MaxTime = 31
    None = None
SPECIFICATION Spec
INVARIANTS
    TypeOK
    BatchIsComplete
    ExpiryNotUnderstated
    OnlySupportedParameters
    EntrancesAgree
\* One call, and a bounded clock.
CHECK_DEADLOCK FALSE
