\* Three threads: one loads the model while one has read the unset flag and
\* one has not begun.  No symmetry: a liveness property is checked.
CONSTANTS
    Threads = {t1, t2, t3}
    None = None
SPECIFICATION FairSpec
INVARIANTS
    TypeOK
    MadeAndLoadedOnce
    LateDecodesFindModel
    IInv
PROPERTIES
    SettledForGood
    EveryDecodeEnds
