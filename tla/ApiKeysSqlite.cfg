\* SQLite, one write lock: three overlapping requests, two tenants with a key
\* each or one tenant whose key is regenerated, a cache of one entry.
CONSTANTS
    Requests = {r1, r2, r3}
    KeyIds = {k1, k2}
    TenantIds = {t1, t2}
    Emails = {e1, e2}
    RawKeys = {n1, n2}
    None = None
    CacheMax = 1
    SingleWriter = TRUE
SYMMETRY Symmetry
SPECIFICATION Spec
INVARIANTS
    CacheIsBoundedMap
    CacheProvenance
    RefusalIsFinal
    ClearedUntilCommit
    OneTenantPerEmail
    TenantHasItsKey
    IInv
PROPERTIES
    RevocationIsPermanent
    OnlyOwnerChangesKey
    ImplementsKeyStore
\* The instance is exhausted once the key of every tenant is lost or revoked.
CHECK_DEADLOCK FALSE
