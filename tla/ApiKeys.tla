------------------------------- MODULE ApiKeys -------------------------------
(***************************************************************************)
(* API keys: registration, bearer-token validation with the in-process     *)
(* cache _AUTH_CACHE, revocation and regeneration (auth.py), each inside   *)
(* the middleware and route that call it (middleware.py, routes.py) and    *)
(* the database session it runs in (db.py).                                *)
(*                                                                         *)
(* The server is one asyncio event loop.  A request gives up control only  *)
(* at an await, and all its awaits are database statements, so a request   *)
(* is a process whose steps are the statements (run by the database) and   *)
(* the pieces of Python between them (run by the loop).  Every pc value    *)
(* names the step to be taken next.                                        *)
(*                                                                         *)
(* The database shows every session the committed rows only.  A session    *)
(* that has written a row keeps the write lock until it commits or rolls   *)
(* back: the lock of the whole database under SQLite (SingleWriter), the   *)
(* lock of the row under PostgreSQL.                                       *)
(***************************************************************************)
EXTENDS Naturals, Sequences

CONSTANTS Requests,     \* requests that can be in flight at the same time
          KeyIds,       \* ApiKey.id
          TenantIds,    \* Tenant.id
          Emails,       \* normalised e-mail addresses
          RawKeys,      \* raw keys generate_api_key can draw
          None,
          CacheMax,     \* _AUTH_CACHE_MAX
          SingleWriter  \* TRUE: SQLite, FALSE: PostgreSQL

ASSUME ConstantsAssumption ==
    /\ None \notin Requests \cup KeyIds \cup TenantIds \cup Emails \cup RawKeys
    /\ CacheMax \in Nat \ {0}
    /\ SingleWriter \in BOOLEAN

VARIABLES tenants,  \* committed tenants: TenantIds -> e-mail, None when absent
          rows,     \* committed api_keys: KeyIds -> row, None when absent
          cache,    \* _AUTH_CACHE, oldest entry first
          req,      \* the requests in flight
          issued    \* raw key -> the key id it was shown to a client for

vars == <<tenants, rows, cache, req, issued>>

-----------------------------------------------------------------------------
(* Types *)

Row == [tenant : TenantIds, hash : RawKeys, active : BOOLEAN]

ValidatedKey == [key : KeyIds, tenant : TenantIds]

\* None is a missing row and a missing verdict.
ASSUME NoneAssumption == None \notin Row \cup ValidatedKey

CacheEntry == [raw : RawKeys, val : ValidatedKey \cup {None}]

\* The steps at which a session waits for the write lock, and those at which
\* it has it.
Waiting == {"touch", "update", "insertTenant"}
Holding == {"touched", "close", "insertKey", "flushed", "commit"}

Steps == Waiting \cup Holding
           \cup {"idle", "select", "absent", "route", "reply"}

Request == [pc     : Steps,
            op     : {"use", "revoke", "regenerate", "register"},
            raw    : RawKeys \cup {None},    \* bearer token
            found  : KeyIds \cup {None},     \* api_keys row validate_api_key read
            tenant : TenantIds \cup {None},  \* request.state.tenant_id
            key    : KeyIds \cup {None},     \* path parameter key_id, or the new row
            email  : Emails \cup {None},
            fresh  : RawKeys \cup {None}]    \* key generated by this request

Idle == [pc |-> "idle", op |-> "use", raw |-> None, found |-> None,
         tenant |-> None, key |-> None, email |-> None, fresh |-> None]

\* Every variable has its type; in particular a cached verdict is a key with its
\* tenant, in that order, or a refusal (auth.py ValidatedKey and _AUTH_CACHE).
TypeOK ==
    /\ tenants \in [TenantIds -> Emails \cup {None}]
    /\ rows \in [KeyIds -> Row \cup {None}]
    /\ cache \in Seq(CacheEntry)
    /\ req \in [Requests -> Request]
    /\ issued \in [RawKeys -> KeyIds \cup {None}]

Init ==
    /\ tenants = [t \in TenantIds |-> None]
    /\ rows = [k \in KeyIds |-> None]
    /\ cache = <<>>
    /\ req = [r \in Requests |-> Idle]
    /\ issued = [n \in RawKeys |-> None]

-----------------------------------------------------------------------------
(* Helpers *)

InFlight(r) == req[r].pc # "idle"

\* generate_api_key and uuid4: random values nobody has drawn before.
FreshRaw(n) ==
    /\ issued[n] = None
    /\ \A k \in KeyIds : rows[k] # None => rows[k].hash # n
    /\ \A r \in Requests : req[r].fresh # n

FreshKey(k) ==
    rows[k] = None /\ \A r \in Requests : req[r].op = "register" => req[r].key # k

FreshTenant(t) ==
    tenants[t] = None /\ \A r \in Requests : req[r].op = "register" => req[r].tenant # t

Goto(r, pc) == req' = [req EXCEPT ![r].pc = pc]

\* The response is sent and the session closed: an open transaction rolls back.
Answer(r) == req' = [req EXCEPT ![r] = Idle]

\* The row a session has locked: the validated one, then the one it changes.
LockedKey(r) ==
    IF req[r].pc \in {"touched", "close"} THEN req[r].found ELSE req[r].key

\* No other session has the lock that r needs to write row k.
LockFree(r, k) ==
    \A q \in Requests \ {r} :
        req[q].pc \in Holding => ~SingleWriter /\ LockedKey(q) # k

WantedKey(r) == IF req[r].pc = "touch" THEN req[r].found ELSE req[r].key

-----------------------------------------------------------------------------
(* The cache *)

CacheHas(raw) == \E i \in DOMAIN cache : cache[i].raw = raw

CacheGet(raw) == cache[CHOOSE i \in DOMAIN cache : cache[i].raw = raw].val

\* Mutant: the limit tested with > instead of >=.
EnforcedCacheOffByOne ==
    IF Len(cache) > CacheMax
    THEN SubSeq(cache, Len(cache) - CacheMax + 2, Len(cache))
    ELSE cache

\* _enforce_cache_limit: drop the oldest entries until there is room for one.
EnforcedCache ==
    IF Len(cache) >= CacheMax
    THEN SubSeq(cache, Len(cache) - CacheMax + 2, Len(cache))
    ELSE cache

\* _AUTH_CACHE[raw] = val: a dict keeps the place of a key it already has.
WithEntry(c, raw, val) ==
    IF \E i \in DOMAIN c : c[i].raw = raw
    THEN [i \in DOMAIN c |-> IF c[i].raw = raw THEN [c[i] EXCEPT !.val = val] ELSE c[i]]
    ELSE Append(c, [raw |-> raw, val |-> val])

-----------------------------------------------------------------------------
(* APIKeyAuthMiddleware.dispatch and validate_api_key *)

\* What the middleware does with the cached verdict for token raw: answer 401,
\* or hand the request to the route with the cached tenant; on a miss the
\* database is asked.
AfterLookup(raw) ==
    IF ~CacheHas(raw) THEN [Idle EXCEPT !.pc = "select", !.raw = raw]
    ELSE IF CacheGet(raw) = None THEN Idle
    ELSE [Idle EXCEPT !.pc = "route", !.raw = raw,
                      !.found = CacheGet(raw).key, !.tenant = CacheGet(raw).tenant]

\* A request for a protected path arrives with a token some client was given;
\* up to the first await it runs without interruption.  The random key that a
\* regenerate will draw is chosen here.
Arrive(r, raw, op, k, n) ==
    /\ ~InFlight(r)
    /\ issued[raw] # None
    /\ IF op = "regenerate" THEN n # None /\ FreshRaw(n) ELSE n = None
    /\ IF op = "use" THEN k = None ELSE k \in KeyIds
    /\ LET after == AfterLookup(raw) IN
       req' = [req EXCEPT ![r] = IF after.pc = "idle" THEN Idle
                                 ELSE [after EXCEPT !.op = op, !.key = k, !.fresh = n]]
    /\ UNCHANGED <<tenants, rows, cache, issued>>

\* Mutant: the lookup does not compare the hash.
SelectKeyAnyHash(r) ==
    /\ req[r].pc = "select"
    /\ \/ \E k \in KeyIds :
             /\ rows[k] # None
             /\ rows[k].active
             /\ req' = [req EXCEPT ![r].pc = "touch", ![r].found = k,
                                   ![r].tenant = rows[k].tenant]
       \/ /\ \A k \in KeyIds : rows[k] # None => ~rows[k].active
          /\ Goto(r, "absent")
    /\ UNCHANGED <<tenants, rows, cache, issued>>

\* SELECT the active row with the hash of the token.
SelectKey(r) ==
    /\ req[r].pc = "select"
    /\ \/ \E k \in KeyIds :
             /\ rows[k] # None
             /\ rows[k].hash = req[r].raw
             /\ rows[k].active
             /\ req' = [req EXCEPT ![r].pc = "touch", ![r].found = k,
                                   ![r].tenant = rows[k].tenant]
       \/ /\ \A k \in KeyIds :
                rows[k] # None => rows[k].hash # req[r].raw \/ ~rows[k].active
          /\ Goto(r, "absent")
    /\ UNCHANGED <<tenants, rows, cache, issued>>

\* No row: remember the refusal and answer 401.
CacheRefusal(r) ==
    /\ req[r].pc = "absent"
    /\ cache' = WithEntry(EnforcedCache, req[r].raw, None)
    /\ Answer(r)
    /\ UNCHANGED <<tenants, rows, issued>>

\* Mutant: validation reads only, without the UPDATE of last_used_at.
TouchUnlocked(r) ==
    /\ req[r].pc = "touch"
    /\ Goto(r, "touched")
    /\ UNCHANGED <<tenants, rows, cache, issued>>

\* flush of last_used_at: the UPDATE waits for the write lock.  The column
\* is left out: this session never commits, so its value is never stored.
Touch(r) ==
    /\ req[r].pc = "touch"
    /\ LockFree(r, req[r].found)
    /\ Goto(r, "touched")
    /\ UNCHANGED <<tenants, rows, cache, issued>>

\* The loop resumes the validation: the row read earlier goes into the cache.
CacheKey(r) ==
    /\ req[r].pc = "touched"
    /\ cache' = WithEntry(EnforcedCache, req[r].raw,
                          [key |-> req[r].found, tenant |-> req[r].tenant])
    /\ Goto(r, "close")
    /\ UNCHANGED <<tenants, rows, issued>>

\* The middleware's session closes: rollback, the lock is free again.
CloseAuthSession(r) ==
    /\ req[r].pc = "close"
    /\ Goto(r, "route")
    /\ UNCHANGED <<tenants, rows, cache, issued>>

-----------------------------------------------------------------------------
(* The routes *)

\* A route that changes no key.
Serve(r) ==
    /\ req[r].pc = "route"
    /\ req[r].op = "use"
    /\ Answer(r)
    /\ UNCHANGED <<tenants, rows, cache, issued>>

\* Mutant: the SELECT does not filter on the tenant.
SelectAnyTenant(r) ==
    /\ req[r].pc = "route"
    /\ req[r].op \in {"revoke", "regenerate"}
    /\ IF rows[req[r].key] # None /\ rows[req[r].key].active
       THEN Goto(r, "update")
       ELSE Answer(r)
    /\ UNCHANGED <<tenants, rows, cache, issued>>

\* revoke_api_key and regenerate_api_key: SELECT the key by id and tenant;
\* no row, or an inactive one, is answered 404.
SelectOwn(r) ==
    /\ req[r].pc = "route"
    /\ req[r].op \in {"revoke", "regenerate"}
    /\ IF /\ rows[req[r].key] # None
          /\ rows[req[r].key].tenant = req[r].tenant
          /\ rows[req[r].key].active
       THEN Goto(r, "update")
       ELSE Answer(r)
    /\ UNCHANGED <<tenants, rows, cache, issued>>

\* flush: the UPDATE waits for the write lock, whatever the row holds by then.
UpdateKey(r) ==
    /\ req[r].pc = "update"
    /\ LockFree(r, req[r].key)
    /\ Goto(r, "flushed")
    /\ UNCHANGED <<tenants, rows, cache, issued>>

\* The loop resumes and clears the cache, before the route commits.
ClearCache(r) ==
    /\ req[r].pc = "flushed"
    /\ cache' = <<>>
    /\ Goto(r, "commit")
    /\ UNCHANGED <<tenants, rows, issued>>

\* POST /v1/auth/register: register_tenant looks the e-mail up; a tenant that
\* has it is answered 409.
Register(r, e, t, k, n) ==
    /\ ~InFlight(r)
    /\ FreshTenant(t)
    /\ FreshKey(k)
    /\ FreshRaw(n)
    /\ \A u \in TenantIds : tenants[u] # e
    /\ req' = [req EXCEPT ![r] =
                 [Idle EXCEPT !.pc = "insertTenant", !.op = "register",
                              !.email = e, !.tenant = t, !.key = k, !.fresh = n]]
    /\ UNCHANGED <<tenants, rows, cache, issued>>

EmailTaken(e) == \E u \in TenantIds : tenants[u] = e

\* No other session has inserted the e-mail without having committed yet: the
\* unique index of tenants.email makes a second inserter wait for the first.
EmailSettled(r) ==
    \A q \in Requests \ {r} :
        req[q].pc \in {"insertKey", "commit"} => req[q].email # req[r].email

\* Mutant: tenants.email without its unique index.
InsertTenantNotUnique(r) ==
    /\ req[r].pc = "insertTenant"
    /\ LockFree(r, req[r].key)
    /\ Goto(r, "insertKey")
    /\ UNCHANGED <<tenants, rows, cache, issued>>

\* INSERT INTO tenants; a duplicate e-mail raises IntegrityError, answered 500.
InsertTenant(r) ==
    /\ req[r].pc = "insertTenant"
    /\ LockFree(r, req[r].key)
    /\ EmailSettled(r)
    /\ IF EmailTaken(req[r].email) THEN Answer(r) ELSE Goto(r, "insertKey")
    /\ UNCHANGED <<tenants, rows, cache, issued>>

\* Mutant: the tenant is committed before its key is inserted.
InsertKeyLate(r) ==
    /\ req[r].pc = "insertKey"
    /\ tenants' = [tenants EXCEPT ![req[r].tenant] = req[r].email]
    /\ Goto(r, "commit")
    /\ UNCHANGED <<rows, cache, issued>>

\* INSERT INTO api_keys, in the same transaction.
InsertKey(r) ==
    /\ req[r].pc = "insertKey"
    /\ Goto(r, "commit")
    /\ UNCHANGED <<tenants, rows, cache, issued>>

\* Mutant: the UPDATE writes every column as it was read.
WrittenAllColumns(r) ==
    CASE req[r].op = "revoke"     -> [rows[req[r].key] EXCEPT !.active = FALSE]
      [] req[r].op = "regenerate" -> [rows[req[r].key] EXCEPT !.hash = req[r].fresh,
                                                              !.active = TRUE]
      [] OTHER -> [tenant |-> req[r].tenant, hash |-> req[r].fresh, active |-> TRUE]

\* The row a transaction leaves: the ORM writes the changed columns only.
Written(r) ==
    CASE req[r].op = "revoke"     -> [rows[req[r].key] EXCEPT !.active = FALSE]
      [] req[r].op = "regenerate" -> [rows[req[r].key] EXCEPT !.hash = req[r].fresh]
      [] OTHER -> [tenant |-> req[r].tenant, hash |-> req[r].fresh, active |-> TRUE]

\* Mutant: the route of regenerate replies without a commit.
CommitForgotten(r) ==
    /\ req[r].pc = "commit"
    /\ rows' = IF req[r].op = "regenerate" THEN rows
               ELSE [rows EXCEPT ![req[r].key] = Written(r)]
    /\ tenants' = IF req[r].op = "register"
                  THEN [tenants EXCEPT ![req[r].tenant] = req[r].email]
                  ELSE tenants
    /\ Goto(r, "reply")
    /\ UNCHANGED <<cache, issued>>

\* await db.commit() in the route.
Commit(r) ==
    /\ req[r].pc = "commit"
    /\ rows' = [rows EXCEPT ![req[r].key] = Written(r)]
    /\ tenants' = IF req[r].op = "register"
                  THEN [tenants EXCEPT ![req[r].tenant] = req[r].email]
                  ELSE tenants
    /\ Goto(r, "reply")
    /\ UNCHANGED <<cache, issued>>

\* The response is sent; that of register and regenerate shows the raw key.
Reply(r) ==
    /\ req[r].pc = "reply"
    /\ issued' = IF req[r].fresh = None THEN issued
                 ELSE [issued EXCEPT ![req[r].fresh] = req[r].key]
    /\ Answer(r)
    /\ UNCHANGED <<tenants, rows, cache>>

-----------------------------------------------------------------------------
(* Failures *)

\* Mutant: a lookup that times out is remembered as a refusal.
LockTimeoutCached(r) ==
    /\ req[r].pc \in Waiting
    /\ ~LockFree(r, WantedKey(r))
    /\ cache' = IF req[r].pc = "touch"
                THEN WithEntry(EnforcedCache, req[r].raw, None) ELSE cache
    /\ Answer(r)
    /\ UNCHANGED <<tenants, rows, issued>>

\* Mutant: only the middleware's wait for the lock has a timeout.
LockTimeoutTouchOnly(r) ==
    /\ req[r].pc = "touch"
    /\ ~LockFree(r, WantedKey(r))
    /\ Answer(r)
    /\ UNCHANGED <<tenants, rows, cache, issued>>

\* The wait for the write lock ends in "database is locked" (SQLite, after 5 s)
\* or in an error of the connection: the middleware answers 401, a route 500.
LockTimeout(r) ==
    /\ req[r].pc \in Waiting
    /\ ~LockFree(r, WantedKey(r))
    /\ Answer(r)
    /\ UNCHANGED <<tenants, rows, cache, issued>>

\* A statement or the commit raises: the session rolls back, 401 or 500.
DatabaseError(r) ==
    /\ req[r].pc \in {"select", "route", "insertKey", "commit"} \cup Waiting
    /\ Answer(r)
    /\ UNCHANGED <<tenants, rows, cache, issued>>

\* The process dies and is started again: requests and cache are gone, open
\* transactions roll back, committed rows and the clients' keys remain.
Crash ==
    /\ \E r \in Requests : InFlight(r)
    /\ req' = [r \in Requests |-> Idle]
    /\ cache' = <<>>
    /\ UNCHANGED <<tenants, rows, issued>>

-----------------------------------------------------------------------------

\* The steps of a request that nothing outside the server has to trigger.
Step(r) ==
    \/ SelectKey(r) \/ CacheRefusal(r) \/ Touch(r) \/ CacheKey(r)
    \/ CloseAuthSession(r) \/ Serve(r) \/ SelectOwn(r) \/ UpdateKey(r)
    \/ ClearCache(r) \/ InsertTenant(r) \/ InsertKey(r) \/ Commit(r)
    \/ Reply(r) \/ LockTimeout(r)

Next ==
    \/ \E r \in Requests :
          \/ Step(r)
          \/ DatabaseError(r)
          \/ \E raw \in RawKeys, op \in {"use", "revoke", "regenerate"},
                k \in KeyIds \cup {None}, n \in RawKeys \cup {None} :
                Arrive(r, raw, op, k, n)
          \/ \E e \in Emails, t \in TenantIds, k \in KeyIds, n \in RawKeys :
                Register(r, e, t, k, n)
    \/ Crash

Spec == Init /\ [][Next]_vars

\* The event loop and the database keep running every request; a wait for the
\* lock ends, with the lock or with the timeout.
FairSpec == Spec /\ \A r \in Requests : WF_vars(Step(r))

-----------------------------------------------------------------------------
(* Safety *)

\* The database accepts the token: an active row has its hash.
Live(raw) ==
    \E k \in KeyIds : rows[k] # None /\ rows[k].hash = raw /\ rows[k].active

\* The cache never exceeds its limit and, refilled by validations that overlap
\* a clear or an eviction, never has two verdicts for one token
\* (_enforce_cache_limit and the two insertions of validate_api_key).
CacheIsBoundedMap ==
    /\ Len(cache) <= CacheMax
    /\ \A i, j \in DOMAIN cache : cache[i].raw = cache[j].raw => i = j

\* A cached acceptance, however stale, names the key the token was issued for
\* and the tenant that owns that key: nobody is ever taken for another tenant.
CacheProvenance ==
    \A i \in DOMAIN cache :
        LET v == cache[i].val IN
        v # None => /\ issued[cache[i].raw] = v.key
                    /\ rows[v.key] # None
                    /\ rows[v.key].tenant = v.tenant

\* A cached refusal never hides a key that works: entries have no lifetime, so
\* a wrong one would lock a client out until the next clear.
RefusalIsFinal ==
    \A i \in DOMAIN cache : cache[i].val = None => ~Live(cache[i].raw)

\* From the moment revoke or regenerate has cleared the cache until its route
\* commits, no validation puts the key back.  Clearing before the commit is
\* safe in this window only because validate_api_key writes last_used_at before
\* it caches, and so waits for the lock the transaction has.
ClearedUntilCommit ==
    \A r \in Requests :
        req[r].pc = "commit" /\ req[r].op # "register" =>
            \A i \in DOMAIN cache :
                cache[i].val # None => cache[i].val.key # req[r].key

\* No two tenants have the same e-mail, whatever registrations race between
\* the look-up of register_tenant and its INSERT.
OneTenantPerEmail ==
    \A t, u \in TenantIds : tenants[t] # None /\ tenants[t] = tenants[u] => t = u

\* Registration is atomic: a tenant exists exactly when its key does.
TenantHasItsKey ==
    \A t \in TenantIds :
        tenants[t] # None <=> \E k \in KeyIds : rows[k] # None /\ rows[k].tenant = t

-----------------------------------------------------------------------------
(* What a step may never do *)

\* Revocation is permanent: no step, not even a regenerate that read the row
\* before the revoke committed, makes an inactive key active again.
RevocationIsPermanent ==
    [][\A k \in KeyIds :
          rows[k] # None /\ ~rows[k].active => rows'[k] # None /\ ~rows'[k].active]_vars

\* A key is changed only by the commit of a request whose bearer token was
\* issued for a key of the same tenant.
OnlyOwnerChangesKey ==
    [][\A k \in KeyIds :
          rows[k] # None /\ rows'[k] # rows[k] =>
              \E r \in Requests :
                  /\ req[r].pc = "commit"
                  /\ req[r].key = k
                  /\ issued[req[r].raw] # None
                  /\ rows[issued[req[r].raw]].tenant = rows[k].tenant]_vars

-----------------------------------------------------------------------------
(* Refinement *)

\* Raw keys that are committed and not yet in a response.
Unshown ==
    {<<req[r].key, req[r].fresh>> :
        r \in {q \in Requests : req[q].pc = "reply" /\ req[q].fresh # None}}

KS == INSTANCE KeyStore WITH unshown <- Unshown

\* However their statements interleave, fail or are cut short by a crash,
\* register, revoke and regenerate (auth.py, and the commit and the reply of
\* their routes) act on the tables as single steps: a tenant and its key at
\* once, a change only by the owner, a secret that nobody has or had and that is
\* shown only once it is stored, and a revoked key that stays revoked.
ImplementsKeyStore == KS!StoreSpec

-----------------------------------------------------------------------------
(* Liveness *)

\* Every request is answered, even when others keep taking the write lock.
EveryRequestAnswered ==
    \A r \in Requests : InFlight(r) ~> ~InFlight(r)

-----------------------------------------------------------------------------
(* What the tests say, and the code does not do *)

\* tests/test_auth.py:91, "After revocation, validate_api_key returns None for
\* the raw key.", and tests/test_auth.py:81, "After regeneration the old key is
\* invalid": validate_api_key accepts a token from the cache only while it is
\* live.  A validation that read the row before the transaction and waited for
\* its lock caches the old row after the commit.
CachedKeyIsLive ==
    \A i \in DOMAIN cache : cache[i].val # None => Live(cache[i].raw)
=============================================================================
