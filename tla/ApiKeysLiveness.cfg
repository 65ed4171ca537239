\* Liveness needs fairness and no symmetry: three requests contend for the
\* write lock of a database with one tenant and one key.
CONSTANTS
    Requests = {r1, r2, r3}
    KeyIds = {k1}
    TenantIds = {t1}
    Emails = {e1}
    RawKeys = {n1}
    None = None
    CacheMax = 1
    SingleWriter = TRUE
SPECIFICATION FairSpec
PROPERTIES
    EveryRequestAnswered
\* The instance is exhausted once the key of the tenant is lost or revoked.
CHECK_DEADLOCK FALSE
