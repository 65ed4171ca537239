\* Two overlapping requests for any of the paths, three keys of two tenants with
\* different scopes from two addresses, every setting, and an audit ring of one
\* entry, so that the second request meets a full window and a full ring.
CONSTANTS
    Requests = {r1, r2}
    Paths = {"/metrics", "/v1/otp/parse", "/v1/otp/batch", "/v1/admin/tenants",
             "/docs/oauth2-redirect"}
    Keys <- MCKeys
    KeyIds = {"k1", "k2", "k3"}
    Tenants = {"acme", "ops"}
    Addresses = {a1, a2}
    None = None
    Limits = {0, 1}
    AuditMax = 1
SYMMETRY Symmetry
SPECIFICATION Spec
INVARIANTS
    IInv
    NothingServedWithoutKey
    WindowBelongsToClient
    AnswersShowTheirLayer
    BooksMatchAnswers
    UsageFollowsKey
\* Every request is made once.
CHECK_DEADLOCK FALSE
