--------------------------- MODULE RequestPipeline ---------------------------
(***************************************************************************)
(* The middleware stack of middleware.py around the routes, with the       *)
(* metrics and the audit ring of observability.py and the usage log that   *)
(* is written in the background.  add_middleware puts each class around    *)
(* the ones added before, so a request passes RequestContextMiddleware,    *)
(* APIKeyAuthMiddleware, RateLimitMiddleware, ResponseHeadersMiddleware,   *)
(* CORSMiddleware and the route, in this order: the reverse of what        *)
(* middleware.py:3-13 and ARCHITECTURE.md:26-30 say.                       *)
(*                                                                         *)
(* Validation of keys and the sliding window have modules of their own     *)
(* (ApiKeys, RateLimiter).  Here a token is valid or not, and of the two   *)
(* stores of the limiter, Redis and the memory of the process, only the    *)
(* number of entries each holds for a client and a path is kept: a call    *)
(* may find any of them too old, and two calls can make one entry in Redis.*)
(***************************************************************************)
EXTENDS Integers, Sequences, FiniteSets

CONSTANTS Requests,  \* requests, each made once
          Paths,     \* paths they are made for
          Keys,      \* valid keys, records of Key
          KeyIds,    \* what identifies a key: api_keys.id
          Tenants,
          Addresses, \* client addresses, "unknown" among them
          None,
          Limits,    \* values of rate_limit_per_minute
          AuditMax   \* AuditLog.max_size

\* One path of every kind the stack tells apart.
KnownPaths == {"/livez", "/metrics", "/audit", "/v1/otp/parse", "/v1/otp/batch",
               "/v1/otp/from-qr", "/v1/otp/from-uri", "/v1/auth/api-keys",
               "/v1/admin/tenants", "/docs/oauth2-redirect"}

Key == [id : KeyIds, tenant : Tenants, scopes : SUBSET {"read", "write", "admin"}]

ASSUME ConstantsAssumption ==
    /\ Paths \subseteq KnownPaths
    /\ Keys \subseteq Key
    /\ \A j, k \in Keys : j.id = k.id => j = k
    /\ None \notin Tenants \cup KeyIds
    /\ Tenants \cap Addresses = {}   \* a tenant is a UUID, an address has the prefix "ip:"
    /\ Limits \subseteq Int
    /\ AuditMax \in Nat \ {0}

VARIABLES settings,  \* auth_enabled, rate_limit_enabled, rate_limit_per_minute
          req,       \* the requests
          spent,     \* entries in each store of the limiter, per client and path
          metrics,   \* MetricsState
          audit,     \* AuditLog._entries, newest first
          task,      \* what became of the usage task of each request
          usage,     \* committed rows of usage_logs, oldest first
          answered   \* the answers since the process started, oldest first

vars == <<settings, req, spent, metrics, audit, task, usage, answered>>

-----------------------------------------------------------------------------
(* Route protection metadata *)

Public(p) == p \in {"/livez", "/metrics"}

\* What lies below /docs or /redoc needs no key either, but is limited.
NeedsKey(p) == ~Public(p) /\ p # "/docs/oauth2-redirect"

\* _required_scope; a path no pattern matches needs a key but no scope.
RequiredScope(p) ==
    CASE p = "/v1/otp/parse" -> "read"
      [] p \in {"/v1/otp/batch", "/v1/otp/from-qr", "/v1/otp/from-uri",
                "/v1/auth/api-keys"} -> "write"
      [] p = "/v1/admin/tenants" -> "admin"
      [] OTHER -> "none"

\* _has_scope: admin implies read and write.
HasScope(scopes, required) ==
    \/ required \in scopes
    \/ required \in {"read", "write"} /\ "admin" \in scopes

Categories == {"otp", "qr", "parse", "batch"}

\* _category_for.
Category(p) ==
    CASE p = "/v1/otp/from-qr"  -> "qr"
      [] p = "/v1/otp/parse"    -> "parse"
      [] p = "/v1/otp/batch"    -> "batch"
      [] p = "/v1/otp/from-uri" -> "otp"
      [] OTHER -> "none"

-----------------------------------------------------------------------------
(* Types *)

Clients == Tenants \cup Addresses

Stores == {"redis", "memory"}

Status == {200, 400, 401, 403, 429, 500}

Settings == [auth : BOOLEAN, limiter : BOOLEAN, limit : Limits]

Request == [pc        : {"new", "auth", "limit", "fallback", "app", "leave", "done", "lost"},
            path      : Paths,
            preflight : BOOLEAN,                             \* OPTIONS of a browser
            host      : Addresses,                           \* request.client.host
            tenant    : Tenants \cup {None},                 \* state.tenant_id
            key       : KeyIds \cup {None},                  \* state.api_key_id
            scopes    : SUBSET {"read", "write", "admin"},   \* state.api_scopes
            limit     : {"unset", "unlimited", "counted"},   \* state._rate_limit_limit
            charged   : SUBSET Stores,                       \* where the limiter counted it
            served    : {"no", "cors", "route"},             \* how far it came
            status    : Status,
            headers   : {"absent", "zero", "unlimited", "counted"}]  \* X-RateLimit-*

Answer == [req : Requests, path : Paths, status : Status]

UsageRow == [req : Requests, tenant : Tenants, key : KeyIds, path : Paths, status : Status]

TypeOK ==
    /\ settings \in Settings
    /\ req \in [Requests -> Request]
    /\ spent \in [Stores -> [Clients \X Paths -> Nat]]
    /\ metrics \in [requests : Nat, errors : Nat, category : [Categories -> Nat]]
    /\ audit \in Seq(Answer)
    /\ task \in [Requests -> {"none", "pending", "written", "lost"}]
    /\ usage \in Seq(UsageRow)
    /\ answered \in Seq(Answer)

NewRequest(p, preflight, h) ==
    [pc |-> "new", path |-> p, preflight |-> preflight, host |-> h, tenant |-> None,
     key |-> None, scopes |-> {}, limit |-> "unset", charged |-> {}, served |-> "no",
     status |-> 500, headers |-> "absent"]

Empty == [w \in Clients \X Paths |-> 0]

NoMetrics == [requests |-> 0, errors |-> 0, category |-> [c \in Categories |-> 0]]

Init ==
    /\ settings \in Settings
    /\ req \in [Requests -> {NewRequest(p, pre, h) :
                               p \in Paths, pre \in BOOLEAN, h \in Addresses}]
    /\ spent = [s \in Stores |-> Empty]
    /\ metrics = NoMetrics
    /\ audit = <<>>
    /\ task = [r \in Requests |-> "none"]
    /\ usage = <<>>
    /\ answered = <<>>

-----------------------------------------------------------------------------
(* The stack, from the outside in *)

unchangedBooks == UNCHANGED <<metrics, audit, task, usage, answered>>

\* Mutant: the layer that writes the headers lies outside the one that refuses.
RefuseWithHeaders(r, status) ==
    req' = [req EXCEPT ![r].pc = "leave", ![r].status = status, ![r].headers = "zero"]

\* A middleware answers itself: the layers inside it never run, and the headers
\* are written by one of them.
Refuse(r, status) ==
    req' = [req EXCEPT ![r].pc = "leave", ![r].status = status]

\* RequestContextMiddleware lets the request in.
Arrive(r) ==
    /\ req[r].pc = "new"
    /\ req' = [req EXCEPT ![r].pc = "auth"]
    /\ UNCHANGED <<settings, spent>> /\ unchangedBooks

Protected(r) == settings.auth /\ NeedsKey(req[r].path)

\* APIKeyAuthMiddleware: authentication is off, or the path is public.
SkipAuth(r) ==
    /\ req[r].pc = "auth"
    /\ ~Protected(r)
    /\ req' = [req EXCEPT ![r].pc = "limit"]
    /\ UNCHANGED <<settings, spent>> /\ unchangedBooks

\* No token, one that is not valid, or an error of the database.  A browser
\* sends no token with a preflight.
RefuseToken(r) ==
    /\ req[r].pc = "auth"
    /\ Protected(r)
    /\ Refuse(r, 401)
    /\ UNCHANGED <<settings, spent>> /\ unchangedBooks

\* Mutant: a valid key is accepted whatever its scopes.
AllowedAnyScope(scopes, p) == TRUE

\* The scope of the path, if it needs one, is among those of the key.
Allowed(scopes, p) ==
    RequiredScope(p) = "none" \/ HasScope(scopes, RequiredScope(p))

\* The token is valid: key and tenant are known from here on, also when the scope
\* of the key is refused.
AcceptToken(r) ==
    /\ req[r].pc = "auth"
    /\ Protected(r)
    /\ ~req[r].preflight
    /\ \E k \in Keys :
          LET allowed == Allowed(k.scopes, req[r].path) IN
          req' = [req EXCEPT ![r].tenant = k.tenant,
                             ![r].key    = k.id,
                             ![r].scopes = k.scopes,
                             ![r].pc     = IF allowed THEN "limit" ELSE "leave",
                             ![r].status = IF allowed THEN @ ELSE 403]
    /\ UNCHANGED <<settings, spent>> /\ unchangedBooks

\* RateLimitMiddleware: the limiter is off, the path public, or the limit not
\* positive.
SkipLimit(r) ==
    /\ req[r].pc = "limit"
    /\ ~settings.limiter \/ Public(req[r].path) \/ settings.limit <= 0
    /\ req' = [req EXCEPT ![r].pc = "app",
                          ![r].limit = IF settings.limiter /\ ~Public(req[r].path)
                                       THEN "unlimited" ELSE "unset"]
    /\ UNCHANGED <<settings, spent>> /\ unchangedBooks

-----------------------------------------------------------------------------
(* The limiter *)

Limited(r) ==
    /\ req[r].pc = "limit"
    /\ settings.limiter /\ ~Public(req[r].path) /\ settings.limit > 0

\* Mutant: everybody without a key is one client.
ClientKeyOneAddress(r) ==
    <<IF req[r].tenant # None THEN req[r].tenant ELSE CHOOSE a \in Addresses : TRUE,
      req[r].path>>

\* _client_key and rate_limit_key: a window per tenant, or per address where no key
\* was presented, and path.
ClientKey(r) ==
    <<IF req[r].tenant # None THEN req[r].tenant ELSE req[r].host, req[r].path>>

\* How many entries are left in the window when the store evicts the old ones, as it
\* does in every call.
Left(store, r) == 0..spent[store][ClientKey(r)]

Hold(store, r, n) == spent' = [spent EXCEPT ![store][ClientKey(r)] = n]

\* A store has room: it holds one entry more, or, in Redis, the entry of another call
\* of the same millisecond again.
Count(store, r) ==
    \E n \in Left(store, r) :
        /\ n < settings.limit
        /\ Hold(store, r, n + 1) \/ (store = "redis" /\ n > 0 /\ Hold(store, r, n))

\* The request is counted and goes on.
Admit(store, r) ==
    /\ Count(store, r)
    /\ req' = [req EXCEPT ![r].limit = "counted", ![r].charged = @ \cup {store},
                          ![r].pc = "app"]

\* A store has no room: 429, and the request is not counted there.
RefuseOverLimit(store, r) ==
    /\ \E n \in Left(store, r) : n >= settings.limit /\ Hold(store, r, n)
    /\ req' = [req EXCEPT ![r].limit = "counted", ![r].pc = "leave", ![r].status = 429]

\* The script runs in Redis and its reply arrives.
RedisDecides(r) ==
    /\ Limited(r)
    /\ Admit("redis", r) \/ RefuseOverLimit("redis", r)
    /\ UNCHANGED settings /\ unchangedBooks

\* Redis is not configured, cannot be reached, or its reply is lost after the
\* script has counted the request.
RedisFails(r) ==
    /\ Limited(r)
    /\ \/ /\ req' = [req EXCEPT ![r].pc = "fallback"]
          /\ UNCHANGED spent
       \/ /\ Count("redis", r)
          /\ req' = [req EXCEPT ![r].pc = "fallback", ![r].charged = {"redis"}]
    /\ UNCHANGED settings /\ unchangedBooks

\* _InMemoryWindow.check decides.
MemoryDecides(r) ==
    /\ req[r].pc = "fallback"
    /\ Admit("memory", r) \/ RefuseOverLimit("memory", r)
    /\ UNCHANGED settings /\ unchangedBooks

\* The limiter raises, instead of falling back or over a reply it cannot read:
\* the request goes on.
LimiterFails(r) ==
    /\ req[r].pc = "fallback"
    /\ req' = [req EXCEPT ![r].limit = "counted", ![r].pc = "app"]
    /\ UNCHANGED <<settings, spent>> /\ unchangedBooks

-----------------------------------------------------------------------------
(* The application *)

\* ResponseHeadersMiddleware: what it writes into a response that passes it.
HeadersFor(r) ==
    CASE req[r].limit = "unset"     -> "zero"
      [] req[r].limit = "unlimited" -> "unlimited"
      [] OTHER                      -> "counted"

\* CORSMiddleware answers a preflight; any other request reaches its route,
\* whose errors the exception handlers turn into responses.
Respond(r) ==
    /\ req[r].pc = "app"
    /\ \E status \in {200, 400} :
          req' = [req EXCEPT ![r].pc      = "leave",
                             ![r].served  = IF req[r].preflight THEN "cors" ELSE "route",
                             ![r].status  = status,
                             ![r].headers = HeadersFor(r)]
    /\ UNCHANGED <<settings, spent>> /\ unchangedBooks

\* The route raises something unexpected: the exception passes every layer and
\* the server answers 500 outside of them.
Raise(r) ==
    /\ req[r].pc = "app"
    /\ ~req[r].preflight
    /\ req' = [req EXCEPT ![r].pc = "leave", ![r].served = "route", ![r].status = 500]
    /\ UNCHANGED <<settings, spent>> /\ unchangedBooks

-----------------------------------------------------------------------------
(* The finally clause of RequestContextMiddleware *)

AnswerOf(r) == [req |-> r, path |-> req[r].path, status |-> req[r].status]

\* MetricsState.record_request.
Recorded(r) ==
    LET c == Category(req[r].path) IN
    [requests |-> metrics.requests + 1,
     errors   |-> IF req[r].status >= 400 THEN metrics.errors + 1 ELSE metrics.errors,
     category |-> [d \in Categories |->
                     IF d = c THEN metrics.category[d] + 1 ELSE metrics.category[d]]]

\* Mutant: a full ring drops the new entry instead of the oldest.
AuditedDropsNewest(r) ==
    IF req[r].path = "/metrics" THEN audit
    ELSE IF Len(audit) >= AuditMax THEN audit ELSE <<AnswerOf(r)>> \o audit

\* _record_audit and AuditLog.add: newest first, the oldest dropped.
Audited(r) ==
    IF req[r].path = "/metrics" THEN audit
    ELSE LET entries == <<AnswerOf(r)>> \o audit IN
         SubSeq(entries, 1, IF Len(entries) > AuditMax THEN AuditMax ELSE Len(entries))

\* Mutant: usage is dispatched for successful requests only.
DispatchedIfOk(r) ==
    IF req[r].tenant = None \/ req[r].status >= 400 THEN "none" ELSE "pending"

\* Mutant: usage is dispatched whether the tenant is known or not.
DispatchedAlways(r) == "pending"

\* _dispatch_usage_log: a task, if the tenant is known.
Dispatched(r) == IF req[r].tenant = None THEN "none" ELSE "pending"

\* Metrics, audit and usage, in one piece, and the answer goes out.
Finish(r) ==
    /\ req[r].pc = "leave"
    /\ metrics' = Recorded(r)
    /\ audit' = Audited(r)
    /\ task' = [task EXCEPT ![r] = Dispatched(r)]
    /\ answered' = Append(answered, AnswerOf(r))
    /\ req' = [req EXCEPT ![r].pc = "done"]
    /\ UNCHANGED <<settings, spent, usage>>

\* What the task was given; a request does not change once it is answered.
UsageOf(r) == [req |-> r, tenant |-> req[r].tenant, key |-> req[r].key,
               path |-> req[r].path, status |-> req[r].status]

\* _write_usage_log, in a session of its own.
WriteUsage(r) ==
    /\ task[r] = "pending"
    /\ usage' = Append(usage, UsageOf(r))
    /\ task' = [task EXCEPT ![r] = "written"]
    /\ UNCHANGED <<settings, req, spent, metrics, audit, answered>>

\* The database refuses it: logged and forgotten.
LoseUsage(r) ==
    /\ task[r] = "pending"
    /\ task' = [task EXCEPT ![r] = "lost"]
    /\ UNCHANGED <<settings, req, spent, metrics, audit, usage, answered>>

\* The process dies and starts again, its memory empty; Redis goes on.
Crash ==
    /\ \E r \in Requests : req[r].pc \notin {"new", "done", "lost"} \/ task[r] = "pending"
    /\ req' = [r \in Requests |-> IF req[r].pc \in {"new", "done"} THEN req[r]
                                  ELSE [req[r] EXCEPT !.pc = "lost"]]
    /\ metrics' = NoMetrics
    /\ audit' = <<>>
    /\ task' = [r \in Requests |-> IF task[r] = "pending" THEN "lost" ELSE task[r]]
    /\ answered' = <<>>
    /\ spent' = [spent EXCEPT !["memory"] = Empty]
    /\ UNCHANGED <<settings, usage>>

-----------------------------------------------------------------------------

Step(r) ==
    \/ SkipAuth(r) \/ RefuseToken(r) \/ AcceptToken(r)
    \/ SkipLimit(r) \/ RedisDecides(r) \/ RedisFails(r) \/ MemoryDecides(r) \/ LimiterFails(r)
    \/ Respond(r) \/ Raise(r) \/ Finish(r)

Next ==
    \/ \E r \in Requests : Arrive(r) \/ Step(r) \/ WriteUsage(r) \/ LoseUsage(r)
    \/ Crash

Spec == Init /\ [][Next]_vars

-----------------------------------------------------------------------------
(* Safety *)

Accepted(r) == req[r].tenant # None /\ Allowed(req[r].scopes, req[r].path)

\* The route of a protected path runs only for a request whose key was accepted and
\* has the scope of the path, whatever the limiter, the database and other requests
\* did meanwhile (APIKeyAuthMiddleware.dispatch).
NothingServedWithoutKey ==
    \A r \in Requests :
        req[r].served = "route" /\ Protected(r) =>
            /\ req[r].tenant # None
            /\ \/ RequiredScope(req[r].path) = "none"
               \/ HasScope(req[r].scopes, RequiredScope(req[r].path))

\* The same tenant, with whichever of its keys, or the same address without a key,
\* on the same path.
SameClient(q, r) ==
    /\ req[q].path = req[r].path
    /\ req[q].tenant = req[r].tenant
    /\ req[r].tenant = None => req[q].host = req[r].host

CountedLike(store, r) ==
    {q \in Requests \ {r} : store \in req[q].charged /\ SameClient(q, r)}

\* A window belongs to its client: a 429 takes at least as many other requests of
\* the same client on the same path as the limit allows, all counted by one store,
\* through lost replies, restarts and windows that slide; and the limiter counts no
\* request that authentication refuses (401, 403).  Nobody uses up the limit of
\* somebody else.
WindowBelongsToClient ==
    \A r \in Requests :
        /\ req[r].status = 429 =>
              \E store \in Stores : Cardinality(CountedLike(store, r)) >= settings.limit
        /\ req[r].charged # {} /\ Protected(r) => Accepted(r)

\* How the settings show in the headers of a response of the application.
ExpectedHeaders(p) ==
    CASE ~settings.limiter \/ Public(p) -> "zero"
      [] settings.limiter /\ ~Public(p) /\ settings.limit <= 0 -> "unlimited"
      [] OTHER -> "counted"

\* Layers show in the answers by their order: a refusal, 401, 403 or 429, and an
\* exception bear no X-RateLimit headers, for the layer that writes them is inside
\* those that refuse; what the application answers bears those the settings call
\* for; and the preflight of a protected path, which has no key, is refused with
\* 401 before CORSMiddleware could answer it.
AnswersShowTheirLayer ==
    \A r \in Requests :
        req[r].pc \in {"leave", "done"} =>
            /\ req[r].served = "no" => req[r].headers = "absent"
                                      /\ req[r].status \in {401, 403, 429}
            /\ req[r].served # "no" =>
                  req[r].headers = IF req[r].status = 500 THEN "absent"
                                   ELSE ExpectedHeaders(req[r].path)
            /\ req[r].preflight /\ Protected(r) =>
                  req[r].served = "no" /\ req[r].status = 401

\* The answers from the i-th on that are for the ring.
AuditableFrom(i) == {j \in i..Len(answered) : answered[j].path # "/metrics"}

\* The books agree with what the clients saw: every answer is counted once, the
\* refusals of the inner layers and the raised exceptions included, and the
\* ring holds the latest of them in the order they went out.
BooksMatchAnswers ==
    /\ metrics.requests = Len(answered)
    /\ metrics.errors = Cardinality({i \in DOMAIN answered : answered[i].status >= 400})
    /\ \A c \in Categories :
          metrics.category[c] =
              Cardinality({i \in DOMAIN answered : Category(answered[i].path) = c})
    /\ LET n == Cardinality(AuditableFrom(1)) IN
       Len(audit) = IF n > AuditMax THEN AuditMax ELSE n
    /\ \A i \in AuditableFrom(1) :
          LET k == Cardinality(AuditableFrom(i)) IN
          k <= AuditMax => audit[k] = answered[i]

\* Usage is logged for a request exactly if its key was accepted, whatever the
\* answer was, 403, 429 and 500 included, in one row that names the key and its
\* tenant; a crash or a failing database may lose the row, nothing writes it twice.
UsageFollowsKey ==
    /\ \A r \in Requests :
          /\ req[r].pc = "done" => (req[r].tenant # None <=> task[r] # "none")
          /\ task[r] # "none" => req[r].pc = "done"
          /\ task[r] = "written" => \E i \in DOMAIN usage : usage[i].req = r
    /\ \A i \in DOMAIN usage :
          /\ task[usage[i].req] = "written" /\ usage[i] = UsageOf(usage[i].req)
          /\ \E k \in Keys : k.id = usage[i].key /\ k.tenant = usage[i].tenant
          /\ \A j \in DOMAIN usage : usage[j].req = usage[i].req => j = i

-----------------------------------------------------------------------------
(* The inductive invariant *)

\* The requests that stand in a window of a store.
InWindow(store, w) == {r \in Requests : store \in req[r].charged /\ ClientKey(r) = w}

\* A store holds no more entries than it has counted requests.
SpentInv ==
    /\ IsFiniteSet({r \in Requests : req[r].charged # {}})
    /\ \A store \in Stores, w \in Clients \X Paths :
          spent[store][w] <= Cardinality(InWindow(store, w))

\* What a request has with it in each layer: nothing before it was authenticated,
\* and an accepted key beyond that layer if its path is protected.
LayerInv(r) ==
    /\ req[r].pc \in {"new", "auth"} => req[r].tenant = None
    /\ req[r].pc \in {"new", "auth", "limit"} => req[r].charged = {}
    /\ req[r].pc \notin {"leave", "done", "lost"} =>
          req[r].served = "no" /\ req[r].headers = "absent" /\ req[r].status = 500
    /\ req[r].pc = "fallback" =>
          /\ settings.limiter /\ ~Public(req[r].path) /\ settings.limit > 0
          /\ "memory" \notin req[r].charged
    /\ req[r].pc = "app" => HeadersFor(r) = ExpectedHeaders(req[r].path)
    /\ /\ Protected(r)
       /\ req[r].pc \in {"limit", "fallback", "app"} \/ req[r].charged # {} \/ req[r].served # "no"
       => Accepted(r) /\ ~req[r].preflight
    /\ req[r].tenant # None =>
          \E k \in Keys : k.id = req[r].key /\ k.tenant = req[r].tenant

\* Holds in every reachable state and is kept by every step.
IInv ==
    /\ TypeOK
    /\ SpentInv
    /\ \A r \in Requests : LayerInv(r)
    /\ WindowBelongsToClient
    /\ AnswersShowTheirLayer
    /\ BooksMatchAnswers
    /\ UsageFollowsKey
=============================================================================
