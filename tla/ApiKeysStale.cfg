\* The documented effect of a revocation, refuted by two requests: with row
\* locks here, and with SQLite's lock alike.
CONSTANTS
    Requests = {r1, r2}
    KeyIds = {k1}
    TenantIds = {t1}
    Emails = {e1}
    RawKeys = {n1}
    None = None
    CacheMax = 1
    SingleWriter = FALSE
SPECIFICATION Spec
INVARIANTS
    CachedKeyIsLive
CHECK_DEADLOCK FALSE
