\* Two threads are enough: one loads, the other reads between its two writes.
CONSTANTS
    Threads = {t1, t2}
    None = None
SYMMETRY Symmetry
SPECIFICATION Spec
INVARIANTS
    NoneOnlyOnFailure
