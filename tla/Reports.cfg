\* One report at a time, and three tenants that register, revoke and regenerate
\* while it is put together; four raw keys leave one for a regeneration.
CONSTANTS
    Readers = {r1}
    KeyIds = {k1, k2, k3}
    TenantIds = {t1, t2, t3}
    Emails = {e1, e2, e3}
    RawKeys = {n1, n2, n3, n4}
    None = None
SYMMETRY Symmetry
SPECIFICATION Spec
INVARIANTS
    TypeOK
    CountsFitTogether
    ReportsAreFresh
