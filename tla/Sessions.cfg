\* Two requests and their usage tasks share one connection; two answers, so that
\* a report can count an earlier one.  Liveness is checked: no symmetry.
CONSTANTS
    Requests = {r1, r2}
    Tenants = {t1, t2}
    PoolMax = 1
    MaxAnswers = 2
    None = None
SPECIFICATION Spec
INVARIANTS
    IInv
    PoolNeverStuck
    UsageCountsOwnAnswers
PROPERTIES
    EveryRequestEnds
