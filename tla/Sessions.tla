------------------------------ MODULE Sessions ------------------------------
(***************************************************************************)
(* Database sessions of a worker process and the pool they share (db.py).  *)
(* A request opens up to three sessions: the authentication layer's, the   *)
(* route's (get_db) and that of the background task that writes its usage  *)
(* row.  A session takes a connection at its first statement and gives it  *)
(* back when it commits or closes; with none free it waits, and after the  *)
(* pool's time-out the statement fails.  The usage rows and the reports    *)
(* made from them (auth.py, _query_usage) are modelled as bags.            *)
(***************************************************************************)
EXTENDS Naturals, FiniteSets, Bags

CONSTANTS Requests,    \* requests, with their usage tasks, in progress at a time
          Tenants,
          PoolMax,     \* connections of the pool (pool_size + max_overflow)
          MaxAnswers,  \* bound: answers given to requests of tenants
          None

ASSUME PoolAssumption ==
    /\ PoolMax \in Nat \ {0}
    /\ MaxAnswers \in Nat
    /\ None \notin Tenants \cup {"auth", "route", "usage"}

VARIABLES request,   \* the requests in progress
          held,      \* request -> its sessions that have a connection
          logs,      \* bag of the usage rows committed
          answered   \* history: bag of the answers given to tenants

vars == <<request, held, logs, answered>>

-----------------------------------------------------------------------------
(* Types *)

\* Endpoints, by what they do with the database: extraction does nothing,
\* registration writes, the others report usage.
Endpoints == {"extract", "register", "usage", "tenantUsage", "allUsage"}

Outcomes == {"ok", "error"}

Row == [tenant : Tenants, endpoint : Endpoints, outcome : Outcomes]

Session == {"auth", "route", "usage"}

\* What a usage report is about, and the bag of rows that it counts.
IsUsage(u) ==
    u.of \in Tenants /\ IsABag(u.rows) /\ BagToSet(u.rows) \subseteq Row

IsRequest(q) ==
    /\ DOMAIN q = {"pc", "endpoint", "tenant", "scope", "outcome", "usage"}
    /\ q.pc \in {"idle", "auth", "lookup", "route", "query", "answer", "log", "insert",
                 "done"}
    /\ q.endpoint \in Endpoints
    /\ q.tenant \in Tenants \cup {None}  \* request.state.tenant_id
    /\ q.scope \in {"write", "admin"}    \* the most the key may do
    /\ q.outcome \in Outcomes
    /\ q.usage # None => IsUsage(q.usage) \* the report in the answer

NoRequest == [pc |-> "idle", endpoint |-> "extract", tenant |-> None,
              scope |-> "write", outcome |-> "error", usage |-> None]

\* Requests, sessions and rows have their types.
TypeOK ==
    /\ DOMAIN request = Requests /\ \A r \in Requests : IsRequest(request[r])
    /\ held \in [Requests -> SUBSET Session]
    /\ IsABag(logs) /\ BagToSet(logs) \subseteq Row
    /\ IsABag(answered) /\ BagToSet(answered) \subseteq Row

Init ==
    /\ request = [r \in Requests |-> NoRequest]
    /\ held = [r \in Requests |-> {}]
    /\ logs = EmptyBag
    /\ answered = EmptyBag

-----------------------------------------------------------------------------
(* The pool *)

InUse == Cardinality({x \in Requests \X Session : x[2] \in held[x[1]]})

Free == PoolMax - InUse

\* The session of r that waits for a connection, None when none does.  A
\* registration or report in the route needs one, an extraction does not.
Waiting(r) ==
    CASE request[r].pc = "auth"                                     -> "auth"
      [] request[r].pc = "route" /\ request[r].endpoint # "extract" -> "route"
      [] request[r].pc = "log"                                      -> "usage"
      [] OTHER                                                      -> None

\* The statement of a session that got its connection.
Statement == [auth |-> "lookup", route |-> "query", usage |-> "insert"]

\* First statement of a session: it takes a connection.
Checkout(r) ==
    /\ Waiting(r) # None
    /\ Free > 0
    /\ held' = [held EXCEPT ![r] = @ \cup {Waiting(r)}]
    /\ request' = [request EXCEPT ![r].pc = Statement[Waiting(r)]]
    /\ UNCHANGED <<logs, answered>>

\* What becomes of a request whose statement fails: 401 from the authentication
\* layer, 500 from the route, and a usage row that is not written.
Failed(q) ==
    IF q.pc \in {"log", "insert"} THEN [q EXCEPT !.pc = "done"]
    ELSE [q EXCEPT !.pc = "answer", !.outcome = "error"]

\* The pool's time-out: the statement was never sent.
PoolTimeout(r) ==
    /\ Waiting(r) # None
    /\ Free = 0
    /\ request' = [request EXCEPT ![r] = Failed(@)]
    /\ UNCHANGED <<held, logs, answered>>

\* Mutant: the route is called inside the block of the authentication session.
LeaveAuthLater(r) == UNCHANGED held

\* The block of the authentication layer's session ends, after an error as well,
\* and before the route is called.
LeaveAuth(r) == held' = [held EXCEPT ![r] = @ \ {"auth"}]

-----------------------------------------------------------------------------
(* The request *)

Public(e) == e = "register"

Required(e) == IF e \in {"tenantUsage", "allUsage"} THEN "admin" ELSE "write"

InProgress == {r \in Requests : request[r].pc \notin {"idle", "log", "insert", "done"}}

\* Public paths go straight to the route.
Arrive(r, e) ==
    /\ request[r].pc = "idle"
    /\ BagCardinality(answered) + Cardinality(InProgress) < MaxAnswers
    /\ request' = [request EXCEPT ![r] = [NoRequest EXCEPT
                      !.endpoint = e, !.pc = IF Public(e) THEN "route" ELSE "auth"]]
    /\ UNCHANGED <<held, logs, answered>>

\* A key was found, in the cache or the table: its tenant becomes the request's,
\* and a scope too small is a 403 of that tenant.
Identified(q, t, s) ==
    [q EXCEPT !.tenant = t, !.scope = s,
              !.pc = IF s \in {Required(q.endpoint), "admin"} THEN "route" ELSE "answer"]

\* The key is missing or in the cache: no statement, no connection.
FromCache(r) ==
    /\ request[r].pc = "auth"
    /\ \/ request' = [request EXCEPT ![r].pc = "answer"]
       \/ \E t \in Tenants, s \in {"write", "admin"} :
             request' = [request EXCEPT ![r] = Identified(@, t, s)]
    /\ UNCHANGED <<held, logs, answered>>

\* The key is looked up, is found or not, or the statement fails.
Lookup(r) ==
    /\ request[r].pc = "lookup"
    /\ \/ request' = [request EXCEPT ![r] = Failed(@)]
       \/ \E t \in Tenants, s \in {"write", "admin"} :
             request' = [request EXCEPT ![r] = Identified(@, t, s)]
    /\ LeaveAuth(r)
    /\ UNCHANGED <<logs, answered>>

\* Without a statement: the answer of an extraction, or an earlier refusal (a
\* rate limit, an invalid parameter).
Refuse(r) ==
    /\ request[r].pc = "route"
    /\ \E o \in Outcomes :
          /\ o = "ok" => request[r].endpoint = "extract"
          /\ request' = [request EXCEPT ![r].pc = "answer", ![r].outcome = o]
    /\ UNCHANGED <<held, logs, answered>>

\* Register: the commit, or the rollback of a failure at the close.
Register(r) ==
    /\ request[r].pc = "query"
    /\ request[r].endpoint = "register"
    /\ \/ /\ request' = [request EXCEPT ![r].pc = "answer", ![r].outcome = "ok"]
          /\ held' = [held EXCEPT ![r] = @ \ {"route"}]
       \/ /\ request' = [request EXCEPT ![r] = Failed(@)]
          /\ UNCHANGED held
    /\ UNCHANGED <<logs, answered>>

\* Mutant: the tenant is not part of the WHERE clause.
RowsOfAll(t) == logs

\* The rows that the WHERE clause of _query_usage leaves when every row is young
\* enough.
RowsOf(t) == [x \in {y \in BagToSet(logs) : y.tenant = t} |-> logs[x]]

\* The bags of some of these rows; no row occurs more often than answers do.
SomeOf(rows) ==
    {found \in UNION {[S -> 1 .. MaxAnswers] : S \in SUBSET BagToSet(rows)} :
        found \sqsubseteq rows}

\* get_tenant_usage_stats, of the caller or for an administrator of any tenant:
\* an error when the tenant does not exist or a statement fails, or the numbers,
\* which all count the rows of one SELECT (the clock decides which are too old).
TenantUsage(r) ==
    /\ request[r].pc = "query"
    /\ request[r].endpoint \in {"usage", "tenantUsage"}
    /\ \/ request' = [request EXCEPT ![r] = Failed(@)]
       \/ \E t \in Tenants : \E found \in SomeOf(RowsOf(t)) :
             /\ request[r].endpoint = "usage" => t = request[r].tenant
             /\ request' = [request EXCEPT ![r].pc = "answer", ![r].outcome = "ok",
                                           ![r].usage = [of |-> t, rows |-> found]]
    /\ UNCHANGED <<held, logs, answered>>

\* get_all_usage_stats returns no top_endpoints, which the response model
\* requires: whatever the SELECT returned, the answer is a 500.
AllUsage(r) ==
    /\ request[r].pc = "query"
    /\ request[r].endpoint = "allUsage"
    /\ request' = [request EXCEPT ![r] = Failed(@)]
    /\ UNCHANGED <<held, logs, answered>>

\* Mutant: get_db closes the session only after a route that succeeded.
ClosesRouteUnlessFailed(r) == request[r].outcome = "ok"

\* get_db closes its session after every outcome.
ClosesRoute(r) == TRUE

\* The close may come before the answer is on its way or after it (it depends on
\* the version of FastAPI).
CloseRoute(r) ==
    /\ request[r].pc \in {"answer", "log", "insert", "done"}
    /\ "route" \in held[r]
    /\ ClosesRoute(r)
    /\ held' = [held EXCEPT ![r] = @ \ {"route"}]
    /\ UNCHANGED <<request, logs, answered>>

UsageRow(q) == [tenant |-> q.tenant, endpoint |-> q.endpoint, outcome |-> q.outcome]

\* Mutant: a task is created although no tenant is known.
RespondAlways(r) ==
    /\ request[r].pc = "answer"
    /\ request' = [request EXCEPT ![r].pc = "log"]
    /\ answered' = answered (+) SetToBag({UsageRow(request[r])})
    /\ UNCHANGED <<held, logs>>

\* The answer leaves, and when the tenant is known a task is created that writes
\* its usage row.
Respond(r) ==
    /\ request[r].pc = "answer"
    /\ IF request[r].tenant = None
       THEN /\ request' = [request EXCEPT ![r].pc = "done"]
            /\ UNCHANGED answered
       ELSE /\ request' = [request EXCEPT ![r].pc = "log"]
            /\ answered' = answered (+) SetToBag({UsageRow(request[r])})
    /\ UNCHANGED <<held, logs>>

\* _write_usage_log: the row is committed, or the failure is only logged.
WriteUsageLog(r) ==
    /\ request[r].pc = "insert"
    /\ logs' \in {logs, logs (+) SetToBag({UsageRow(request[r])})}
    /\ request' = [request EXCEPT ![r].pc = "done"]
    /\ held' = [held EXCEPT ![r] = @ \ {"usage"}]
    /\ UNCHANGED answered

\* Nothing is left of the request.
End(r) ==
    /\ request[r].pc = "done"
    /\ held[r] = {}
    /\ request' = [request EXCEPT ![r] = NoRequest]
    /\ UNCHANGED <<held, logs, answered>>

\* The process dies: the database drops its connections, the rows stay.
Crash ==
    /\ request' = [r \in Requests |-> NoRequest]
    /\ held' = [r \in Requests |-> {}]
    /\ UNCHANGED <<logs, answered>>

-----------------------------------------------------------------------------
(* Specification *)

\* A session that waits gets a connection or times out.
Connect(r) == Checkout(r) \/ PoolTimeout(r)

\* The next step of the request's own code, and of its task.
Proceed(r) ==
    \/ FromCache(r) \/ Lookup(r) \/ Refuse(r) \/ Register(r) \/ TenantUsage(r)
    \/ AllUsage(r) \/ Respond(r) \/ WriteUsageLog(r) \/ End(r)

Next ==
    \/ \E r \in Requests :
          \/ \E e \in Endpoints : Arrive(r, e)
          \/ Connect(r) \/ Proceed(r) \/ CloseRoute(r)
    \/ Crash

\* The event loop and the database server run every task on, and the pool's
\* time-out fires.
Fairness ==
    \A r \in Requests : WF_vars(Connect(r) \/ Proceed(r)) /\ WF_vars(CloseRoute(r))

Spec == Init /\ [][Next]_vars /\ Fairness

-----------------------------------------------------------------------------
(* Properties *)

\* Which sessions can have a connection at each step of a request.
HeldInv ==
    \A r \in Requests :
        held[r] \in CASE request[r].pc \in {"idle", "auth", "route"}  -> {{}}
                       [] request[r].pc = "lookup"                   -> {{"auth"}}
                       [] request[r].pc = "query"                    -> {{"route"}}
                       [] request[r].pc \in {"answer", "log", "done"} -> {{}, {"route"}}
                       [] request[r].pc = "insert" -> {{"usage"}, {"route", "usage"}}

\* The pool is never held entirely by requests that wait for another connection
\* of it: no request keeps its first session's connection while it asks for a
\* second.  (The usage task is no part of its request: it waits alone.)
PoolNeverStuck ==
    (\E r \in Requests : Waiting(r) # None) =>
        \/ Free > 0
        \/ \E r \in Requests :
              held[r] # {} /\ (Waiting(r) = None \/ Waiting(r) = "usage")

\* A usage row stands for one answer, and the usage shown for a tenant counts its
\* own answers, at most once each and with the outcome they had; somebody else
\* is shown it only with the admin scope.
UsageCountsOwnAnswers ==
    /\ logs \sqsubseteq answered
    /\ \A r \in Requests :
          LET u == request[r].usage
          IN  u # None =>
                /\ u.rows \sqsubseteq answered
                /\ \A x \in BagToSet(u.rows) : x.tenant = u.of
                /\ u.of # request[r].tenant => request[r].scope = "admin"

\* What a request knows at each step: its tenant when it leaves a usage row, the
\* admin scope in the routes that want it, a report only once it is made.
Consistent(q) ==
    /\ q.pc \in {"log", "insert"} => q.tenant # None
    /\ q.pc \in {"route", "query"} /\ Required(q.endpoint) = "admin" => q.scope = "admin"
    /\ q.usage # None => q.pc \in {"answer", "log", "insert", "done"}

\* The answers like x whose row may still be written.
Unlogged(x) ==
    {r \in Requests : request[r].pc \in {"log", "insert"} /\ UsageRow(request[r]) = x}

Copies(x, bag) == IF BagIn(x, bag) THEN bag[x] ELSE 0

\* A row to come has its answer, as the rows written have theirs.
LogInv ==
    \A x \in Row :
        /\ IsFiniteSet(Unlogged(x))
        /\ Copies(x, logs) + Cardinality(Unlogged(x)) <= Copies(x, answered)

\* The inductive invariant.
IInv ==
    /\ TypeOK
    /\ HeldInv
    /\ \A r \in Requests : Consistent(request[r])
    /\ LogInv
    /\ UsageCountsOwnAnswers

\* Every request ends, its sessions closed and their connections given back,
\* after any failure and however full the pool is.
EveryRequestEnds ==
    \A r \in Requests :
        request[r].pc # "idle" ~> request[r].pc = "idle" /\ held[r] = {}
=============================================================================
