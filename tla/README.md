# Verification of otp-code-extractor-api

TLA+ models of the service in `src/src/otp_code_extractor/`, the TLC runs that
check them on small instances, and the theorems about them that TLAPS proves.
The service turns `otpauth://` URIs, base32 secrets and QR images into one-time
codes over HTTP. It is one asyncio process (FastAPI on uvicorn) with a SQL
database (SQLite or PostgreSQL), an optional Redis and a pool of worker threads.
Paths below are relative to `src/src/otp_code_extractor/` unless they say more.

## 1. Inventory

Per component: its state, its operations, whom it talks to, what is hard about it
and what makes it correct.

### API keys — `auth.py`, with the callers in `middleware.py`, `routes.py`
- **State.** Tables `tenants` and `api_keys`; the dict `_AUTH_CACHE` (raw key to
  verdict, at most `_AUTH_CACHE_MAX` entries, no lifetime).
- **Operations.** `register_tenant`, `validate_api_key`, `revoke_api_key`,
  `regenerate_api_key`, `clear_auth_cache`.
- **Interaction.** Validation runs in a session of `APIKeyAuthMiddleware` that is
  closed without a commit; the other operations run in the session of the route,
  which the route commits after the operation has returned.
- **Hard.** Every `await` is a database statement at which any other request may
  run. The cache is changed before the transaction commits. Writers wait for
  locks, with a time-out. The process may die between any two statements.
- **Correct when** a cached verdict is that of the key's true owner, a cached
  refusal is right for ever, a revoked key stays revoked, a tenant comes into
  being together with its key and alone with its e-mail address, only the owner
  changes a key, and nobody waits for ever.

### Rate limiter — `redis_client.py`
- **State.** A sorted set per key in Redis with an expiry; a deque per key in
  `_InMemoryWindow`.
- **Operations.** `SlidingWindowLimiter.check`: a Lua script, and the in-memory
  window when the call raises.
- **Hard.** The time stamp is read before the call, so scripts run out of stamp
  order; an answer may be lost after Redis has counted; both windows count
  independently; their ends are treated differently; members may coincide.
- **Correct when** each window admits no more than the limit and refuses only
  when the limit is used up.

### QR decoder — `qr_decoder.py`
- **State.** The global `_decoder`; its `_qreader` and `_qreader_attempted`.
- **Operations.** `get_decoder`, `QrDecoder.decode`, `_ensure_qreader`.
- **Interaction.** The QR and batch routes are plain functions, so FastAPI runs
  them in worker threads that share the decoder.
- **Hard.** Two double-checked locks; two fields read one after the other without
  the lock; a return from inside the locked block.
- **Correct when** one decoder is made, the model is loaded at most once, its
  verdict is kept, a late decode is told the truth, and every decode ends.

### Middleware stack — `middleware.py`, `observability.py`
- **State.** `request.state` of each request; `MetricsState` and `AuditLog` of the
  process; `usage_logs` rows written by detached tasks.
- **Operations.** Request context, API-key authentication, rate limit, response
  headers, CORS; `record_request`, `AuditLog.add`, `_write_usage_log`.
- **Hard.** The order in which the layers are nested decides which answers pass
  which layer. The limiter counts in two stores, and a lost reply of Redis makes it
  count a request twice. Refusals, answers and exceptions all run through one
  `finally`.
- **Correct when** no protected route runs without a key that has the scope, nobody
  is refused for the requests of somebody else, an answer shows the layers it
  passed, and counters, audit log and usage rows agree with the answers.

### OTP extraction — `otp.py`, `validators.py`, `models.py`, `/v1/otp` in `routes.py`
- **State.** None shared but the clock and the settings.
- **Operations.** from-uri, from-secret, from-qr, from-string, parse, batch.
- **Hard.** Many ways for a parameter to come in, each with limits of its own in
  its request model; the clock is read three times, for the code, for the seconds
  left and for the time of the answer; one item of a batch may raise what is not a
  domain error; base32 is applied more often than it looks.
- **Correct when** every item of a batch is answered, the stated end of a code is
  never too early, parameters are supported ones, and the shortcuts read an input
  as the endpoints they stand for do.

The commands `code` and `parse` of `cli.py` are two more entrances to the same
functions; `parse` asks for the secret by the opposite of the flag that the
request of the endpoint has.

### Listings and counts — `auth.py`, `/v1/auth` and `/v1/admin` in `routes.py`
- **State.** None of their own; they read `tenants`, `api_keys`, `usage_logs`.
- **Operations.** `get_me`, `list_keys`, `admin_tenants`, `admin_tenant_keys`,
  `get_system_metrics`; `get_tenant_usage_stats`, `get_all_usage_stats`.
- **Hard.** Each answer is put together from several statements, and others commit
  between them. A session shows a row object it already has as it was when it was
  loaded. Usage rows are committed later than the answers they describe, or never.
- **Correct when** the numbers of one answer fit together as far as statements that
  are read one after the other can, nothing in it is older than the request, and usage is counted for the tenant it belongs to, never more
  than there was.
- **Who can ask.** The admin routes want the scope `admin`. Registration gives
  every key `read,write`, and nothing in `src/` gives more: admin keys are made in
  the database by hand.

### Sessions and the pool — `db.py`, with its users
- **State.** At most 15 connections per process (`pool_size` 5, `max_overflow` 10),
  and which session has one.
- **Operations.** The session of the authentication layer, that of the route
  (`get_db`), that of the task that writes the usage row.
- **Hard.** A request opens several sessions of one bounded pool; statements fail;
  the route's session is closed by a generator's `finally`, before or after the
  answer is sent.
- **Correct when** no request keeps a connection while it waits for another, and
  every request ends with its connections given back.

### The rest
The models, URL handling and schema creation of `db.py`, `main.py` and `config.py`
(wiring, read once), the response schemas of `models.py`, `logging_config.py`, the Alembic
migrations, `scripts/` and `examples/`. `PROJECT.json` lists each with its status.

## 2. Modules

| module | models | state and actions |
|---|---|---|
| `ApiKeys` | `auth.py` and its callers | `tenants`, `rows`: the committed tables; `cache`: `_AUTH_CACHE`, oldest first; `req[r].pc`: the next step of request `r`; `issued`: what clients were shown. One action per statement or piece of Python between two awaits |
| `ApiKeysInductive` | — | the inductive invariant `IInv` |
| `ApiKeysProofs` | — | its proof and the theorems |
| `KeyStore` | what register, revoke, regenerate and their replies promise | the tables, the secrets not shown yet (`unshown`) and those shown (`issued`). One action per operation: the abstract specification that `ApiKeys` implements and `Reports` reads |
| `ApiKeysRefinement` | — | the proof that `ApiKeys` implements `KeyStore` |
| `Reports` | listings and counts | the variables of `KeyStore` and `report[r]`: the statement a report is at and what it has read. One action per statement, `Write` for any step of `KeyStore` |
| `ReportsProofs` | — | its inductive invariant, proof and theorems |
| `Sessions` | `db.py`, `get_db`, usage log and usage statistics | `request[r]`: how far a request is; `held[r]`: its sessions with a connection; `logs`, `answered`: bags of usage rows and of the answers they stand for |
| `SessionsProofs` | — | lemmas on bags of rows, its proof and the theorems |
| `RateLimiter` | `redis_client.py`, one key | `zset`, `expiry`: the Redis key; `bucket`: the deque; `call`: the calls. `Send`, `RedisDecides`, `RedisUnreachable`, `RedisReplyLost`, `Fallback`, `Tick` |
| `RateLimiterProofs` | — | lemmas on counting stamps, the proof and the theorems |
| `QrDecoder` | `qr_decoder.py` | the three shared fields, the two locks, a `pc` per thread. One action per access to a shared field |
| `QrDecoderProofs` | — | its proof and the theorems |
| `RequestPipeline` | `middleware.py`, `observability.py` | `req`: `request.state` and how far the request came; `spent`: the entries each store of the limiter has per client and path; `metrics`, `audit`, `task`, `usage`: the books; `answered`: what clients saw. One action per outcome of each layer, `Finish` for the `finally` clause |
| `RequestPipelineProofs` | — | the proof of its inductive invariant and the theorems |
| `OtpExtraction` | `otp.py`, `validators.py`, the request models of `models.py`, `/v1/otp`, the commands `code` and `parse` | one `call`, its `results`, the `clock`. `Start` (the request model, the size of a batch), `Extract` (recognise, validate, compute), `ReadRemaining` and `Stamp` (the second and third reading of the clock), `Show` (answers without a time), `Tick` |
| `OtpExtractionProofs` | — | lemmas on the checks, on base32 and on slots of time, the proof and the theorems |
| `Base32` | the conversions of `build_pyotp` and pyotp | operators on sequences of digits and bytes |
| `MC*` | — | symmetry sets and the values a `.cfg` cannot write down |

`RequestPipeline` stands above `ApiKeys` and `RateLimiter`: its `AcceptToken` and
`RefuseToken` are what an answer of `validate_api_key` leads to, its `RedisDecides`,
`RedisFails`, `MemoryDecides` and `LimiterFails` what `SlidingWindowLimiter.check`
leads to. `OtpExtraction` is
what happens inside its `Respond` for a path under `/v1/otp`, and `QrDecoder` what
happens inside `Extract` for an image. `Sessions` is the same request seen from the
pool: where it has which session open, and what its usage row becomes.

`KeyStore` is the joint between `ApiKeys` and `Reports`. `ApiKeys` shows, with
locks, caches, failures and crashes, that the tables change only by whole
operations; `Reports` composes those operations with the readers, so that every
interleaving of statements that `ApiKeys` allows is covered without its detail.
The refinement mapping takes the tables and `issued` as they are and `unshown` as
the raw keys of the requests between commit and reply.

How the correspondence reads, by example. `revoke_api_key` is `SelectOwn` (the
SELECT by id and tenant; not found or inactive: 404), `UpdateKey` (the flush, which
waits for the lock), `ClearCache` (`_AUTH_CACHE.clear()`), then the route's
`Commit` and `Reply`. `validate_api_key` is `Arrive` (the cache lookup, with no
await before it), `SelectKey`, `CacheRefusal` or `Touch` (the flush of
`last_used_at`), `CacheKey` and `CloseAuthSession`.

Operators named in a comment "Mutant:" are not part of the specification: each is
the operator that follows it with a plausible bug, kept to show that some property
would notice.

### Abstractions

- Tokens that were never issued are left out of `ApiKeys`: they can only be
  answered 401 and fill the cache with refusals that `RefusalIsFinal` holds for
  because nobody generates the same random key. Generated keys and ids are fresh.
- A hash is represented by the raw key it is the hash of.
- `last_used_at` is not a variable: the session that sets it never commits. That
  its UPDATE takes the lock is modelled, and matters.
- The database shows committed rows only (the default isolation of both
  databases as far as these statements can tell); a writer keeps its lock to the
  end of its transaction. SQLite locks the whole file (`SingleWriter = TRUE`),
  PostgreSQL a row and the unique index entry of an e-mail address.
- Errors of a commit, driver errors and time-outs are `DatabaseError` and
  `LockTimeout`; a `Crash` drops requests, cache, counters and open transactions.
- One unit of the limiter's clock is a millisecond; the window is a few units.
- In `Reports` a statement sees what is committed when it runs. Pages and searches
  are any subset of the tenants. A row object of the session may be shown as loaded
  or reread: nothing refers to it any more, and when it is collected is not ours to
  say.
- In `Sessions` a route's statements between taking and giving back a connection are
  one step: the connection is what others can notice. Rows are never too old in
  `RowsOf`; which of them the clock leaves out is the choice of a sub-bag.
  Registration stands for every route that writes.
- `RequestPipeline` keeps of the two stores of the limiter only how many entries each
  has for a client and a path. Every call may evict any number of them, two calls of
  one millisecond may make one entry in Redis, and a reply may be lost after Redis has
  counted: whatever `RateLimiter` does to one key in detail, this covers, so that the
  limit is *not* kept here, and no property says that it is. Any route answers with
  any status; what routes do is the business of the other modules.
- HMAC and its truncation to digits are external: a code is the key and the
  moving factor they are applied to, so two codes are equal in the model when no
  authenticator could tell them apart.
- A text is what the base32 checks see of it: its digits, its padding, its case,
  its blanks, whether it has other characters, and its length as it was sent.
- Of a refusal by a request model (422) the model keeps the value refused for its
  length, because it is returned with a secret in it.

## 3. Runs

Twelve runs, each for a question of its own. All bounds are in the `.cfg` files.
Where a run checks `IInv`, that is the inductive invariant of the proofs: TLC finds
cheaply that it is true of every reachable state before TLAPS shows that it is
inductive. (`OtpExtraction!IInv` says that every result is what the operators of the
module yield, whatever they are, so its run checks the properties that follow.)

| run | shows |
|---|---|
| `keys_sqlite` | the bounded cache, `CacheProvenance`, `RefusalIsFinal`, `ClearedUntilCommit`, `OneTenantPerEmail`, `TenantHasItsKey`, `RevocationIsPermanent`, `OnlyOwnerChangesKey`, that `IInv` (with the types) holds, and `ImplementsKeyStore`: the statements implement the one-step operations |
| `keys_liveness` | `EveryRequestAnswered` |
| `keys_stale` | **refutes** `CachedKeyIsLive` |
| `limiter` | `IInv` (with the types); both windows keep the limit, refuse for cause (`RefusalJustified`), and admit nobody before the reset time they gave (`NobodyBeforeReset`) |
| `limiter_burst` | **refutes** `LimitPerWindow` |
| `qr_decoder` | one decoder, one load, a settled verdict, every decode ends, `IInv` |
| `qr_none` | **refutes** `NoneOnlyOnFailure` |
| `pipeline` | `IInv` (with the types), `NothingServedWithoutKey`, `WindowBelongsToClient`, `AnswersShowTheirLayer`, `BooksMatchAnswers`, `UsageFollowsKey` |
| `reports` | `CountsFitTogether`, `ReportsAreFresh` |
| `sessions` | `IInv` (with the types), `PoolNeverStuck`, `UsageCountsOwnAnswers`, `EveryRequestEnds` |
| `otp` | `BatchIsComplete`, `ExpiryNotUnderstated`, `OnlySupportedParameters`, `EntrancesAgree` |
| `otp_rfc` | **refutes** `KeyIsSharedSecret` |

### Bounds, and why they are enough

- `keys_sqlite`: three requests, two tenants with a key each, two raw keys, a cache
  of one. Every hazard of `auth.py` is between two requests; the third makes a
  queue for the lock. Two raw keys allow two tenants, or one whose key is
  regenerated. One cache entry makes every insertion evict. The instance ends when
  no fresh key is left, so deadlock is not checked. Row locks are covered by the
  theorems, which hold for either value of `SingleWriter`, and by `keys_stale`.
- `limiter`: four calls against a limit of two in a window of four units, with a
  clock that leaves the window; stamps expire one by one, scripts run up to one
  unit late. Two calls more than the limit are needed to see a wrong eviction.
- `qr_decoder`: three threads: one inside the lock, one between its two unlocked
  reads, one that has not begun.
- `pipeline`: two requests, a limit of one and an audit log of one, so that the
  second finds everything full; three keys, two of them of one tenant, with different
  scopes, and two addresses, so that two requests can be of one client or of two in
  every way there is; five paths, one of each kind that some layer treats in its own
  way (public and not audited; a scope and a category of each sort; an administrator's;
  open but limited); all settings. The theorems are about all ten paths.
- `otp`: a sample of calls in which every check fails once, the lengths of the request
  models included, batches of two, one that is too large for the settings and one
  that is too large for its model; the clock runs over the end of the slots of 15 and
  30 seconds, with three ticks, so that all three readings may differ; the settings
  contain one with an unsupported period.
- `reports`: one report at a time, because reports do not change what others see;
  three tenants with a key each, so that a page has a tenant counted, one being
  counted and one to come, and four raw keys, so that one key is regenerated.
- `sessions`: two requests, each with its usage task, on one connection: every
  checkout can find the pool exhausted. Two answers are enough for the rows of two
  tenants, or two rows of one. Deadlock is checked in both.

### What the refuted properties say

Each is a sentence of the repository that the code does not keep.

1. `KeyIsSharedSecret` (`src/README.md:15`, RFC 6238/4226). `build_pyotp` encodes
   the characters of the secret in base32 and pyotp decodes that again: the HMAC
   key is the text of the secret, not the bytes the text encodes.
2. `CachedKeyIsLive` (`src/tests/test_auth.py:91`). A validation that reads a key,
   then waits for the revoker's lock, caches the key after the revocation has
   committed. `ClearedUntilCommit` shows how narrow the window is: before the
   commit it cannot happen, because validation itself needs the lock.
3. `LimitPerWindow` (`redis_client.py:55`). The member added to the sorted set is
   the time stamp and a number from `math.random`, which starts from the same seed
   in every script: calls of one millisecond are counted once. `limiter` shows
   what is kept instead: the limit holds for distinct time stamps, in a window
   shortened by the delay between stamp and script.
4. `NoneOnlyOnFailure` (`qr_decoder.py:35`). A thread reads the model before it is
   loaded and the flag after it is set, and is told there is no model.
   `LateDecodesFindModel` shows that a retry finds it.

More differences are visible in the models without a run of their own:

- *Layers.* `middleware.py:3-13` and `src/ARCHITECTURE.md:26-30` give the order CORS
  (outermost), headers, limit, authentication, context. `add_middleware` puts each
  class around those added before, so the order is the reverse: CORS is innermost
  (`RequestPipeline`, checked by `AnswersShowTheirLayer`). It follows that a preflight of
  a protected path, which bears no key, is refused with 401 before CORS could answer
  it; that refusals of the outer layers bear no CORS headers; and that the headers layer,
  which "writes `X-RateLimit-*` headers on every response (success *and* error paths)"
  (`middleware.py:6-7`), never sees a 401, 403 or 429.
- *Windows.* `src/ARCHITECTURE.md:27` and `:105` speak of a window per API key or IP. It
  belongs to a tenant, whichever of its keys is used, and to an address only where no
  key was presented (`middleware.py:267-273`). `middleware.py:8` says "per tenant or
  client IP", but the path is a part of the key too (`RequestPipeline!ClientKey`). That
  the limit is kept is refuted by `limiter_burst`, and not claimed by
  `WindowBelongsToClient`. "Burst is configurable" (`:105`) has no code
  behind it: `rate_limit_burst` (`config.py:32`) is read nowhere.
- *Secrets.* `src/SECURITY.md:36-37` says that parse "echoes the secret back to the caller
  unless `redact=true` is passed"; the default of `redact` is true (`models.py:150`), so
  it is omitted unless `redact=false` is passed (`OtpExtraction!Secret`).
  `src/ARCHITECTURE.md:107-109` says "All responses are explicitly opt-in about which
  fields include the secret". The answer 422 to a URI or a secret of the wrong length
  returns what was sent, secret included (`exceptions.py:170-183`, `OtpExtraction!Echo`),
  unasked. No property is stated about who is shown a secret.
- *Entrances.* from-uri takes at most 2048 characters and from-secret 128
  (`models.py:38`, `:45`), from-qr-base64 at least 16 (`:58`); from-string takes 65536
  (`:67`), batch items and the commands any number. So an input may be taken at one
  entrance and refused for its length at another. `EntrancesAgree` says that this is all
  they differ in for what they give a code for.
- *Counts.* `get_system_metrics` counts the keys (`auth.py:291`) and then the active keys
  (`auth.py:292-294`): after a registration in between the dashboard shows more active
  keys than keys. `CountsFitTogether` bounds the excess by the keys registered since.
- `get_all_usage_stats` returns no `top_endpoints`, which its response model requires
  (`models.py:328`), so `/v1/admin/usage-stats` answers 500 (`Sessions!AllUsage`).

## 4. Fairness

`ApiKeys!FairSpec`: weak fairness of the steps of each request. The event loop runs
every ready task and the database answers every statement. A wait for a lock is
different: others may take the lock again and again. What ends the wait is the
time-out of SQLite (5 seconds in the driver's default), so the time-out is part of
the fair steps, and `EveryRequestAnswered` fails without it (the mutant
`LockTimeoutTouchOnly`). Under PostgreSQL the code sets no lock time-out, so the
property is claimed for SQLite only. Nothing is assumed of errors, crashes or
clients.

`QrDecoder!FairSpec`: weak fairness of each thread's steps: the operating system
runs every thread, and a free lock goes to some waiter. A thread takes each lock
at most once in a decode, and each waiter leaves after a bounded number of steps,
so weak fairness is enough. New decodes may begin for ever; the property is about
one that has begun.

`Sessions!Fairness`: weak fairness of a request's next step, its own or that of the
pool, and of the close of the route's session. The event loop runs every task and
the database every statement. A session that waits for a connection either gets one
or its statement fails after the pool's time-out (30 seconds, SQLAlchemy's default),
so one of the two steps is always enabled and weak fairness is enough. That the
generator of `get_db` is resumed after every outcome is FastAPI's promise;
`EveryRequestEnds` fails when the close is skipped after an error (the mutant
`ClosesRouteUnlessFailed`).

The other modules state safety only.

## 5. Proofs

All from `Spec` and the named assumptions about constants, which TLC evaluates in
every run. Nothing else is assumed:

- `NoneAssumption`, `PoolAssumption` and conjuncts of the others: `None` is no value of
  any other kind.
- `ConstantsAssumption`: the limit of the cache, of a batch, of the audit log and of
  the limiter, and the window, are positive; bounds of clocks are numbers; for the
  counts of `Reports`, there are finitely many key ids. In `RequestPipeline`, no address
  is a tenant: the code prefixes addresses with `ip:`, and a tenant's id is a UUID; and
  keys have ids of their own.
  The delay of a script in `RateLimiter` may be any number, a window or more included.
- `InputsAssumption` (`OtpExtraction`): the settings and calls have their types and the
  required fields; a call has an item, and only a batch has several. Nothing is said of
  the contents of the items: what a request model refuses, the module refuses, and a
  counter or a number of digits may be negative where nothing refuses it.

Every safety invariant and action property of the passing runs is a theorem, and so
is the refinement. What is not proved is named at the end of this section.

### `ApiKeysProofs`, for any number of requests, keys, tenants and any cache limit, with either kind of lock

| theorem | establishes |
|---|---|
| `Inductive` | `Spec => []IInv` |
| `TypeCorrect` | `[]TypeOK` |
| `CacheNamesOwner` | `[]CacheProvenance` |
| `RefusalsAreFinal` | `[]RefusalIsFinal` |
| `ClearLastsUntilCommit` | `[]ClearedUntilCommit` |
| `RegistrationIsAtomic` | `[]OneTenantPerEmail` |
| `TenantsHaveKeys` | `[]TenantHasItsKey` |
| `CacheBounded` | `[]CacheIsBoundedMap` |
| `RevocationPermanent` | `RevocationIsPermanent` |
| `OwnerOnly` | `OnlyOwnerChangesKey` |

None of the invariants is inductive alone. `CacheProvenance` depends on what a
request that is about to cache knows (`OwnerInv`), which depends on who was shown a
raw key (`IssuedInv`), which depends on nobody else having drawn it (`FreshInv`).
`ClearedUntilCommit` depends on locks excluding one another (`LockInv`): the step
that caches holds the lock of the row it caches. `OneTenantPerEmail` depends on
what the holder of an uncommitted e-mail knows (`EmailInv`), and `RefusalIsFinal`
on an absent hash staying absent (`AbsentInv` with `IssuedInv`: a hash that was
shown never becomes the hash of another row). `RequestShape` says which fields a
request has filled in at each step. `IInv` is their conjunction; the module proves
`Init => IInv` and, action by action and conjunct by conjunct,
`IInv /\ [Next]_vars => IInv'`. The two action properties follow from `IInv` in
the state before the step.

### `QrDecoderProofs`, for any set of threads

`Inductive` (`[]IInv`), `TypeCorrect`, `OnceOnly` (`MadeAndLoadedOnce`),
`LateFindsModel` (`LateDecodesFindModel`), `VerdictSettled` (`SettledForGood`).
`LoadInv` relates the lock, the flag and the number of loads; `LateInv` what a
thread that began after the flag can have read.

### `ApiKeysRefinement`, under the same generality

`Refinement`: `Spec => ImplementsKeyStore`. Initial states map to initial states.
`Commit` maps to `StoreRegister`, `StoreRevoke` or `StoreRegenerate`, `Reply` to
`StoreShow`, `Crash` to `StoreForget`, and every other step to a stutter. `IInv`
supplies what the abstract guards ask for: the tenant and key of a registration are
still free (`EmailInv`, `RequestShape`), the caller owns the row it changes
(`OwnerInv`), and a generated secret is still unused (`FreshInv`).

### `ReportsProofs`, for any number of reports, tenants and (finitely many) keys

`TypeCorrect`, `CountsFit` (`CountsFitTogether`), `Fresh` (`ReportsAreFresh`). The
invariant says, for each report, what every number and row read so far still means
in the present tables. The argument is rely and guarantee: `Grown` is what a report
relies on (tenants stay and get no more keys, keys stay, none becomes active again),
`StoreStep` proves that every step of `KeyStore` guarantees it, `UntouchedReport`
that the invariant survives it, and one lemma per statement that reading preserves
it. That there are no fewer keys than tenants is a surjection from keys to tenants
(`NoTenantWithoutKey`). `SeenInv` remembers which keys the second total of
`get_system_metrics` counted: the third lies between those of them that are active now
and all keys that were not revoked at the request, which is why it can exceed the second
by keys registered later, and by no others.

### `SessionsProofs`, for any number of requests and tenants and any pool

`HeldByStep` (which sessions can have a connection at each step) and, from it,
`PoolProgress` (`PoolNeverStuck`): a request that waits in its authentication or
route session has no connection, so if none is free, whoever has them does not wait
for the pool, except for usage tasks, and those wait without a request.

`Inductive`, `TypeCorrect`, `UsageIsOwn` (`UsageCountsOwnAnswers`). That rows are
answers is not inductive: when a task commits its row, nothing in the rows says that
the answer is not counted already by another. `LogInv` does: of each row, the copies
committed and the tasks that may still commit one are together no more than the
answers like it. An answer adds one on both sides, a task moves one from the tasks to
the rows or drops it, a crash drops all tasks. `Consistent` says what a request knows
at each step; the admin scope of a reader of other people's usage comes from it. Bags
are compared row by row (`PartProperties`); a report made earlier stays true because
answers are only added (`ReportsStay`).

### `RateLimiterProofs`, for any calls, limit, window and delay

| theorem | establishes |
|---|---|
| `Inductive` | `[]IInv` |
| `TypeCorrect` | `[]TypeOK` |
| `RedisLimited` | `[]RedisWindowLimit` |
| `MemoryLimited` | `[]MemoryWindowLimit` |
| `RefusalsJustified` | `[]RefusalJustified` |
| `NoEarlyAdmission` | `NobodyBeforeReset`: nobody before the reset time; of room at it nothing is said |

`SetInv` relates the sorted set to the stamps that were ever counted: the set has only
those, and a counted stamp that is no longer in it left the window before now.
`BucketInv` says of the deque that it is sorted and that each suffix of it counts the
admissions since its first entry; `RefusalInv` that the window which refused a call was
full of stamps that leave it no earlier than the reset time. The limits follow by
looking at all stamps of a window at once: as long as one of them could be admitted,
the others are in the set, or in a suffix of the deque.

### `RequestPipelineProofs`, for any requests, keys, limits and size of the audit log

`Inductive`, `TypeCorrect`, `ServedWithKey` (`NothingServedWithoutKey`), `WindowsAreOwn`
(`WindowBelongsToClient`), `AnswersShowLayers` (`AnswersShowTheirLayer`), `BooksAgree`
(`BooksMatchAnswers`), `UsageIsKeyed` (`UsageFollowsKey`). `LayerInv` says what is known of
a request at each layer. `SpentInv` bounds the entries of a store by the requests that it
counted for the window (`InWindow`): a step that counts a request must leave every other
window alone, which is where tenants and addresses must differ, and eviction, coinciding
members, lost replies and restarts only make the bound less tight. A full window is then
as many requests of the same client as the limit, whatever became of them since. The audit
log is the newest part of the sequence of answers that are recorded at all
(`AuditableFrom`), which is what survives an append to a full ring. `UsageIsKeyed` needs
the rows to be of different requests: a row is written by the one step that ends its task.

### `OtpExtractionProofs`, for any calls, settings, size of batches and clock

| theorem | establishes |
|---|---|
| `Inductive` | `[]IInv` |
| `TypeCorrect` | `[]TypeOK` |
| `BatchComplete` | `[]BatchIsComplete` |
| `ExpiryStated` | `[]ExpiryNotUnderstated` |
| `ParametersSupported` | `[]OnlySupportedParameters` |
| `AllEntrancesAgree` | `[]EntrancesAgree` |
| `KeysAreTexts` | `[]KeyIsText` |
| `RoundTrip` | `Decode(Encode(bytes)) = bytes` for every sequence of bytes |

`ResultInv` says that each result is the error of its item, or what the item yields at
three earlier readings of the clock, in their order, and `PendingInv` the same of the item
under way, for the readings made so far; the properties are then facts about the functions
of `otp.py` and `validators.py`, one lemma for each of them (`Sound`: an outcome without an
error has a supported configuration). `ExpiryStated` is about three readings of the clock
and `\div` and `%` of any supported period: the seconds left may be those of the next slot,
and the answer may bear a later time than they do, so the end it states can be late, but
not early.

`RoundTrip` and `KeysAreTexts` turn around what `otp_rfc` refutes on one secret: for
every secret the key is the text, because the encoding that `build_pyotp` adds is
exactly what pyotp takes off again. `RoundTrip` compares numbers made of five and of
eight bits; the induction over positions it needs is done by a least counterexample,
with the well-foundedness of the natural numbers from the library (`MinIsLeast`,
`NumberProperties`).

Two things came out of these attempts. Operators that dispatched on a `CASE` with
overlapping arms (`FromString`, `Command`) could not be proved sound, because TLA+ does
not say which arm is taken; they are now chains of `IF` in the order of the code. And
no property of `RateLimiter` turned out to need that a script is late by less than a
window, so this is no longer assumed.

### Model-checked only

- Liveness: `EveryRequestAnswered`, `EveryDecodeEnds`, `EveryRequestEnds`. Temporal
  reasoning from fairness is out of the prover's reach.
- The four refuted properties, by TLC's counterexamples.

## 6. Not modelled, and why

- Labels and issuers: data that no property tells apart.
- Reading the counters while they are written: one writer and fields that only grow;
  nothing is stated that a torn snapshot could break. `/audit` and its export copy
  the ring under its lock.
- Several worker processes, each with its own cache: accepted entries of the other
  workers outlive a revocation by design, and no sentence of the repository bounds it.
- The `qr` command writes a file with an external library; the exit status and the
  layout of the output of the commands are left out.
- A wall clock that steps back: the code says nothing of what should happen.
- Image decoding: a choice among its outcomes. Whether the model may be called from
  several threads at once cannot be seen in this code.
- Configuration, schemas, logging, migrations, scripts: no state that interacts.

## 7. Plan

1. *Abstract specification.* A `SlidingWindow` that `RateLimiter` refines when Redis
   never fails and no two stamps coincide.
2. *Proofs.* The positive side of the refuted properties: what a revocation does
   guarantee of the cache once no validation is under way (next to `CachedKeyIsLive`),
   and when `NoneOnlyOnFailure` holds.

## 8. Running

    tlc -config ApiKeysSqlite.cfg MCApiKeys.tla       # and so on, see PROJECT.json
    tlapm ApiKeysProofs.tla                           # about four minutes
    tlapm RequestPipelineProofs.tla                   # the next three: one or two
    tlapm OtpExtractionProofs.tla                     # minutes each
    tlapm ReportsProofs.tla
    tlapm SessionsProofs.tla                          # the rest: about a minute
    tlapm RateLimiterProofs.tla                       # each, or less
    tlapm QrDecoderProofs.tla
    tlapm ApiKeysRefinement.tla
