--------------------------- MODULE SessionsProofs ---------------------------
(***************************************************************************)
(* Sessions, for any requests and tenants and any pool.  The pool: no       *)
(* session waits while its request holds another connection, so the pool is *)
(* never held by waiting requests alone.  Usage: rows and reports count     *)
(* answers, by comparing bags row by row.                                   *)
(***************************************************************************)
EXTENDS Sessions, FiniteSetTheorems, TLAPS

\* What the steps need to know of the variables.
Shape ==
    /\ DOMAIN request = Requests
    /\ \A r \in Requests :
          DOMAIN request[r] = {"pc", "endpoint", "tenant", "scope", "outcome", "usage"}
    /\ held \in [Requests -> SUBSET Session]

\* The sessions of one request that can have a connection when it is at a step.
HeldAt(r) ==
    held[r] \in CASE request[r].pc \in {"idle", "auth", "route"}    -> {{}}
                  [] request[r].pc = "lookup"                     -> {{"auth"}}
                  [] request[r].pc = "query"                      -> {{"route"}}
                  [] request[r].pc \in {"answer", "log", "done"}   -> {{}, {"route"}}
                  [] request[r].pc = "insert" -> {{"usage"}, {"route", "usage"}}

PoolInv == Shape /\ HeldInv

\* A request the step leaves alone keeps what it holds.
LEMMA OthersKeep ==
    ASSUME PoolInv, NEW q \in Requests,
           request'[q] = request[q], held'[q] = held[q]
    PROVE  HeldAt(q)'
  BY DEF PoolInv, HeldInv, HeldAt

\* A connection is taken, for the session of the step the request is at.
LEMMA CheckoutKeeps ==
    ASSUME PoolInv, NEW r \in Requests, Checkout(r)
    PROVE  PoolInv'
<1>1. Waiting(r) \in Session
  BY PoolAssumption DEF Checkout, Waiting, Session
<1>2. Shape'
  BY <1>1 DEF PoolInv, Shape, Checkout
<1>3. ASSUME NEW q \in Requests PROVE HeldAt(q)'
  <2>1. CASE q # r
    BY <2>1, OthersKeep DEF PoolInv, Shape, Checkout
  <2>2. CASE q = r
    <3>1. request'[r].pc = Statement[Waiting(r)] /\ held'[r] = held[r] \cup {Waiting(r)}
      BY DEF PoolInv, Shape, Checkout
    <3>2. CASE request[r].pc = "auth"
      <4>1. Waiting(r) = "auth" /\ held[r] = {}
        BY <3>2 DEF PoolInv, HeldInv, Waiting
      <4>2. request'[r].pc = "lookup" /\ held'[r] = {"auth"}
        BY <3>1, <4>1 DEF Statement
      <4> QED BY <2>2, <4>2 DEF HeldAt
    <3>3. CASE request[r].pc = "route"
      <4>1. Waiting(r) = "route" /\ held[r] = {}
        BY <3>3 DEF PoolInv, HeldInv, Waiting, Checkout
      <4>2. request'[r].pc = "query" /\ held'[r] = {"route"}
        BY <3>1, <4>1 DEF Statement
      <4> QED BY <2>2, <4>2 DEF HeldAt
    <3>4. CASE request[r].pc = "log"
      <4>1. Waiting(r) = "usage" /\ held[r] \in {{}, {"route"}}
        BY <3>4 DEF PoolInv, HeldInv, Waiting
      <4>2. request'[r].pc = "insert" /\ held'[r] \in {{"usage"}, {"route", "usage"}}
        BY <3>1, <4>1 DEF Statement
      <4> QED BY <2>2, <4>2 DEF HeldAt
    <3> QED BY <3>2, <3>3, <3>4 DEF Checkout, Waiting
  <2> QED BY <2>1, <2>2
<1> QED BY <1>2, <1>3 DEF PoolInv, HeldInv, HeldAt

\* A wait that timed out leaves the request with what it held before.
LEMMA PoolTimeoutKeeps ==
    ASSUME PoolInv, NEW r \in Requests, PoolTimeout(r)
    PROVE  PoolInv'
<1>1. Shape'
  BY DEF PoolInv, Shape, PoolTimeout, Failed
<1>2. ASSUME NEW q \in Requests PROVE HeldAt(q)'
  <2>1. CASE q # r
    BY <2>1, OthersKeep DEF PoolInv, Shape, PoolTimeout
  <2>2. CASE q = r
    <3>1. request[r].pc \in {"auth", "route", "log"} /\ held'[r] = held[r]
      BY DEF PoolTimeout, Waiting
    <3>2. request'[r].pc = IF request[r].pc = "log" THEN "done" ELSE "answer"
      BY <3>1 DEF PoolInv, Shape, PoolTimeout, Failed
    <3>3. held[r] \in {{}, {"route"}}
      BY <3>1 DEF PoolInv, HeldInv
    <3> QED BY <2>2, <3>1, <3>2, <3>3 DEF HeldAt
  <2> QED BY <2>1, <2>2
<1> QED BY <1>1, <1>2 DEF PoolInv, HeldInv, HeldAt

\* Steps before the first connection, and those that take or return none.
LEMMA FreeStepsKeep ==
    ASSUME PoolInv, NEW r \in Requests,
           \/ \E e \in Endpoints : Arrive(r, e)
           \/ FromCache(r) \/ Refuse(r) \/ TenantUsage(r) \/ AllUsage(r)
           \/ Respond(r) \/ End(r)
    PROVE  PoolInv'
<1>1. held' = held
  BY DEF Arrive, FromCache, Refuse, TenantUsage, AllUsage, Respond, End
<1>2. Shape' /\ \A q \in Requests \ {r} : request'[q] = request[q]
  <2>1. CASE \E e \in Endpoints : Arrive(r, e)
    BY <1>1, <2>1 DEF PoolInv, Shape, Arrive, NoRequest
  <2>2. CASE FromCache(r)
    BY <1>1, <2>2 DEF PoolInv, Shape, FromCache, Identified
  <2>3. CASE Refuse(r)
    BY <1>1, <2>3 DEF PoolInv, Shape, Refuse
  <2>4. CASE TenantUsage(r)
    BY <1>1, <2>4 DEF PoolInv, Shape, TenantUsage, Failed
  <2>5. CASE AllUsage(r)
    BY <1>1, <2>5 DEF PoolInv, Shape, AllUsage, Failed
  <2>6. CASE Respond(r)
    BY <1>1, <2>6 DEF PoolInv, Shape, Respond
  <2>7. CASE End(r)
    BY <1>1, <2>7 DEF PoolInv, Shape, End, NoRequest
  <2> QED BY <2>1, <2>2, <2>3, <2>4, <2>5, <2>6, <2>7
<1>3. HeldAt(r)'
  <2>1. CASE \E e \in Endpoints : Arrive(r, e)
    <3>1. request'[r].pc \in {"auth", "route"}
      BY <2>1 DEF PoolInv, Shape, Arrive, NoRequest
    <3>2. held[r] = {}
      BY <2>1 DEF PoolInv, HeldInv, Arrive, NoRequest
    <3> QED BY <1>1, <3>1, <3>2 DEF HeldAt
  <2>2. CASE FromCache(r)
    <3>1. request'[r].pc \in {"route", "answer"} /\ held[r] = {}
      BY <2>2 DEF PoolInv, Shape, HeldInv, FromCache, Identified
    <3> QED BY <1>1, <3>1 DEF HeldAt
  <2>3. CASE Refuse(r)
    <3>1. request'[r].pc = "answer" /\ held[r] = {}
      BY <2>3 DEF PoolInv, Shape, HeldInv, Refuse
    <3> QED BY <1>1, <3>1 DEF HeldAt
  <2>4. CASE TenantUsage(r) \/ AllUsage(r)
    <3>1. request[r].pc = "query" /\ held[r] = {"route"}
      BY <2>4 DEF PoolInv, HeldInv, TenantUsage, AllUsage
    <3>2. CASE TenantUsage(r)
      <4>1. request'[r].pc = "answer"
        <5>1. CASE request' = [request EXCEPT ![r] = Failed(@)]
          BY <3>1, <5>1 DEF PoolInv, Shape, Failed
        <5>2. ASSUME NEW u,
                     request' = [request EXCEPT ![r].pc = "answer", ![r].outcome = "ok",
                                                ![r].usage = u]
              PROVE  request'[r].pc = "answer"
          BY <5>2 DEF PoolInv, Shape
        <5> QED BY <3>2, <5>1, <5>2 DEF TenantUsage
      <4> QED BY <1>1, <3>1, <4>1 DEF HeldAt
    <3>3. CASE AllUsage(r)
      <4>1. request'[r].pc = "answer"
        BY <3>1, <3>3 DEF PoolInv, Shape, AllUsage, Failed
      <4> QED BY <1>1, <3>1, <4>1 DEF HeldAt
    <3> QED BY <2>4, <3>2, <3>3
  <2>5. CASE Respond(r)
    <3>1. request'[r].pc \in {"log", "done"} /\ held[r] \in {{}, {"route"}}
      BY <2>5 DEF PoolInv, Shape, HeldInv, Respond
    <3> QED BY <1>1, <3>1 DEF HeldAt
  <2>6. CASE End(r)
    <3>1. request'[r].pc = "idle" /\ held[r] = {}
      BY <2>6 DEF PoolInv, Shape, End, NoRequest
    <3> QED BY <1>1, <3>1 DEF HeldAt
  <2> QED BY <2>1, <2>2, <2>3, <2>4, <2>5, <2>6
<1>4. \A q \in Requests : HeldAt(q)'
  BY <1>1, <1>2, <1>3, OthersKeep
<1> QED BY <1>2, <1>4 DEF PoolInv, HeldInv, HeldAt

\* Steps that give a connection back.
LEMMA ReturnsKeep ==
    ASSUME PoolInv, NEW r \in Requests,
           Lookup(r) \/ Register(r) \/ CloseRoute(r) \/ WriteUsageLog(r)
    PROVE  PoolInv'
<1>1. Shape' /\ \A q \in Requests \ {r} : request'[q] = request[q] /\ held'[q] = held[q]
  <2>1. CASE Lookup(r)
    BY <2>1 DEF PoolInv, Shape, Lookup, LeaveAuth, Identified, Failed
  <2>2. CASE Register(r)
    BY <2>2 DEF PoolInv, Shape, Register, Failed
  <2>3. CASE CloseRoute(r)
    BY <2>3 DEF PoolInv, Shape, CloseRoute
  <2>4. CASE WriteUsageLog(r)
    BY <2>4 DEF PoolInv, Shape, WriteUsageLog
  <2> QED BY <2>1, <2>2, <2>3, <2>4
<1>2. HeldAt(r)'
  <2>1. CASE Lookup(r)
    <3>1. request'[r].pc \in {"route", "answer"}
      BY <2>1 DEF PoolInv, Shape, Lookup, Identified, Failed
    <3>2. held[r] = {"auth"} /\ held'[r] = held[r] \ {"auth"}
      BY <2>1 DEF PoolInv, Shape, HeldInv, Lookup, LeaveAuth
    <3> QED BY <3>1, <3>2 DEF HeldAt
  <2>2. CASE Register(r)
    <3>1. request'[r].pc = "answer"
      BY <2>2 DEF PoolInv, Shape, Register, Failed
    <3>2. held[r] = {"route"} /\ held'[r] \in {held[r], held[r] \ {"route"}}
      BY <2>2 DEF PoolInv, Shape, HeldInv, Register
    <3> QED BY <3>1, <3>2 DEF HeldAt
  <2>3. CASE CloseRoute(r)
    <3>1. /\ request'[r].pc = request[r].pc
          /\ request[r].pc \in {"answer", "log", "insert", "done"}
          /\ held'[r] = held[r] \ {"route"}
      BY <2>3 DEF PoolInv, Shape, CloseRoute
    <3>2. CASE request[r].pc = "insert"
      <4>1. held[r] \in {{"usage"}, {"route", "usage"}}
        BY <3>2 DEF PoolInv, HeldInv
      <4>2. held'[r] = {"usage"}
        BY <3>1, <4>1
      <4> QED BY <3>1, <3>2, <4>2 DEF HeldAt
    <3>3. CASE request[r].pc # "insert"
      <4>1. held[r] \in {{}, {"route"}}
        BY <3>1, <3>3 DEF PoolInv, HeldInv
      <4>2. held'[r] = {}
        BY <3>1, <4>1
      <4> QED BY <3>1, <3>3, <4>2 DEF HeldAt
    <3> QED BY <3>2, <3>3
  <2>4. CASE WriteUsageLog(r)
    <3>1. request'[r].pc = "done" /\ held'[r] = held[r] \ {"usage"}
      BY <2>4 DEF PoolInv, Shape, WriteUsageLog
    <3>2. held[r] \in {{"usage"}, {"route", "usage"}}
      BY <2>4 DEF PoolInv, HeldInv, WriteUsageLog
    <3>3. held'[r] \in {{}, {"route"}}
      BY <3>1, <3>2
    <3> QED BY <3>1, <3>3 DEF HeldAt
  <2> QED BY <2>1, <2>2, <2>3, <2>4
<1>3. \A q \in Requests : HeldAt(q)'
  BY <1>1, <1>2, OthersKeep
<1> QED BY <1>1, <1>3 DEF PoolInv, HeldInv, HeldAt

\* No step gives a request a connection its step does not need.
LEMMA PoolSteps ==
    ASSUME PoolInv, [Next]_vars
    PROVE  PoolInv'
<1>1. ASSUME NEW r \in Requests,
             (\E e \in Endpoints : Arrive(r, e)) \/ Connect(r) \/ Proceed(r)
                \/ CloseRoute(r)
      PROVE  PoolInv'
  BY <1>1, CheckoutKeeps, PoolTimeoutKeeps, FreeStepsKeep, ReturnsKeep DEF Connect, Proceed
<1>2. CASE Crash
  BY <1>2 DEF Crash, PoolInv, Shape, HeldInv, NoRequest, Session
<1>3. CASE UNCHANGED vars
  BY <1>3 DEF vars, PoolInv, Shape, HeldInv
<1> QED BY <1>1, <1>2, <1>3 DEF Next

\* The connections a request has are those of its current step (Spec, any pool).
THEOREM HeldByStep == Spec => []HeldInv
<1>1. Init => PoolInv
  BY DEF Init, PoolInv, Shape, HeldInv, NoRequest, Session
<1>2. PoolInv /\ [Next]_vars => PoolInv'
  BY PoolSteps
<1>3. PoolInv => HeldInv
  BY DEF PoolInv
<1> QED BY <1>1, <1>2, <1>3, PTL DEF Spec

\* A full pool is held by somebody, and who holds a connection does not wait with
\* it: a wait for a connection ends without the time-out.
THEOREM PoolProgress == Spec => []PoolNeverStuck
<1>1. HeldInv => PoolNeverStuck
  <2> SUFFICES ASSUME HeldInv, ~(Free > 0)
               PROVE  \E r \in Requests :
                         held[r] # {} /\ (Waiting(r) = None \/ Waiting(r) = "usage")
    BY DEF PoolNeverStuck
  <2> DEFINE H == {x \in Requests \X Session : x[2] \in held[x[1]]}
  <2>1. H # {}
    <3> SUFFICES ASSUME H = {} PROVE FALSE
      OBVIOUS
    <3>1. InUse = 0
      BY FS_EmptySet DEF InUse
    <3> QED BY <3>1, PoolAssumption DEF Free
  <2>2. PICK r \in Requests : held[r] # {}
    BY <2>1
  <2>3. request[r].pc \notin {"auth", "route"}
    BY <2>2 DEF HeldInv
  <2>4. Waiting(r) = None \/ Waiting(r) = "usage"
    BY <2>3 DEF Waiting
  <2> QED BY <2>2, <2>4
<1> QED BY <1>1, HeldByStep, PTL

-----------------------------------------------------------------------------
(* Bags of usage rows *)

\* How often a row occurs.
LEMMA BagProperties ==
    ASSUME NEW bag, IsABag(bag)
    PROVE  /\ \A x \in BagToSet(bag) : bag[x] \in Nat /\ bag[x] > 0
           /\ \A x : Copies(x, bag) \in Nat /\ (x \in BagToSet(bag) <=> Copies(x, bag) > 0)
           /\ \A x \in BagToSet(bag) : Copies(x, bag) = bag[x]
<1>1. \A x \in BagToSet(bag) : bag[x] \in Nat /\ bag[x] > 0
  BY DEF IsABag, BagToSet
<1> QED BY <1>1 DEF Copies, BagIn

\* A row that is added, and no other.
LEMMA AddedProperties ==
    ASSUME NEW bag, IsABag(bag), NEW x
    PROVE  /\ IsABag(bag (+) SetToBag({x}))
           /\ BagToSet(bag (+) SetToBag({x})) = BagToSet(bag) \cup {x}
           /\ \A y : Copies(y, bag (+) SetToBag({x})) =
                       IF y = x THEN Copies(y, bag) + 1 ELSE Copies(y, bag)
<1> DEFINE more == bag (+) SetToBag({x})
<1>1. DOMAIN more = DOMAIN bag \cup {x}
  BY DEF (+), SetToBag
<1>2. \A y \in DOMAIN bag : bag[y] \in Nat /\ bag[y] > 0
  BY BagProperties DEF BagToSet
<1>3. \A y \in DOMAIN bag \cup {x} :
        more[y] = (IF y \in DOMAIN bag THEN bag[y] ELSE 0) + (IF y = x THEN 1 ELSE 0)
  BY DEF (+), SetToBag
<1>4. more = [y \in DOMAIN more |-> more[y]]
  BY DEF (+)
<1> HIDE DEF more
<1>5. \A y \in DOMAIN more : more[y] \in {n \in Nat : n > 0}
  BY <1>1, <1>2, <1>3
<1>6. IsABag(more)
  BY <1>4, <1>5 DEF IsABag
<1>7. \A y : Copies(y, more) = IF y = x THEN Copies(y, bag) + 1 ELSE Copies(y, bag)
  BY <1>1, <1>2, <1>3 DEF Copies, BagIn, BagToSet
<1> QED BY <1>1, <1>6, <1>7 DEF more, BagToSet

\* Bags of rows are compared row by row.
LEMMA PartProperties ==
    ASSUME NEW a, IsABag(a), BagToSet(a) \subseteq Row, NEW b, IsABag(b)
    PROVE  a \sqsubseteq b <=> \A x \in Row : Copies(x, a) <= Copies(x, b)
<1>1. ASSUME a \sqsubseteq b, NEW x \in Row
      PROVE  Copies(x, a) <= Copies(x, b)
  <2>1. CASE x \in BagToSet(a)
    BY <1>1, <2>1, BagProperties DEF \sqsubseteq, BagToSet
  <2>2. CASE x \notin BagToSet(a)
    BY <2>2, BagProperties DEF Copies, BagIn
  <2> QED BY <2>1, <2>2
<1>2. ASSUME \A x \in Row : Copies(x, a) <= Copies(x, b)
      PROVE  a \sqsubseteq b
  <2>1. ASSUME NEW x \in BagToSet(a)
        PROVE  x \in BagToSet(b) /\ a[x] <= b[x]
    <3>1. Copies(x, a) > 0 /\ Copies(x, a) <= Copies(x, b)
          /\ Copies(x, a) \in Nat /\ Copies(x, b) \in Nat
      BY <1>2, BagProperties
    <3>2. x \in BagToSet(b)
      BY <3>1, BagProperties
    <3> QED BY <3>1, <3>2, BagProperties
  <2> QED BY <2>1 DEF \sqsubseteq, BagToSet
<1> QED BY <1>1, <1>2

\* Rows among rows that are answers are answers.
LEMMA PartOfPart ==
    ASSUME NEW a, NEW b, NEW c, IsABag(a), IsABag(b), IsABag(c),
           a \sqsubseteq b, b \sqsubseteq c
    PROVE  a \sqsubseteq c
<1>1. \A x \in DOMAIN a : a[x] \in Nat
  BY BagProperties DEF BagToSet
<1>2. \A x \in DOMAIN b : b[x] \in Nat
  BY BagProperties DEF BagToSet
<1>3. \A x \in DOMAIN c : c[x] \in Nat
  BY BagProperties DEF BagToSet
<1>4. \A x \in DOMAIN a : x \in DOMAIN b /\ a[x] <= b[x]
  BY DEF \sqsubseteq
<1>5. \A x \in DOMAIN b : x \in DOMAIN c /\ b[x] <= c[x]
  BY DEF \sqsubseteq
<1>6. \A x \in DOMAIN a : x \in DOMAIN c /\ a[x] <= c[x]
  BY <1>1, <1>2, <1>3, <1>4, <1>5
<1> QED BY <1>6 DEF \sqsubseteq

\* What _query_usage counts for a tenant are rows of its own.
LEMMA SomeOfProperties ==
    ASSUME TypeOK, NEW t \in Tenants, NEW found \in SomeOf(RowsOf(t))
    PROVE  /\ IsABag(found) /\ BagToSet(found) \subseteq Row
           /\ found \sqsubseteq logs
           /\ \A x \in BagToSet(found) : x.tenant = t
<1>1. PICK S \in SUBSET BagToSet(RowsOf(t)) : found \in [S -> 1 .. MaxAnswers]
  BY DEF SomeOf
<1>2. found \sqsubseteq RowsOf(t)
  BY DEF SomeOf
<1>3. DOMAIN found = S /\ found \in [DOMAIN found -> {n \in Nat : n > 0}]
  BY <1>1, PoolAssumption
<1>4. DOMAIN RowsOf(t) = {y \in BagToSet(logs) : y.tenant = t}
      /\ \A x \in DOMAIN RowsOf(t) : RowsOf(t)[x] = logs[x]
  BY DEF RowsOf
<1>5. \A x \in DOMAIN found : x \in DOMAIN RowsOf(t) /\ found[x] <= RowsOf(t)[x]
  BY <1>2 DEF \sqsubseteq
<1>6. \A x \in DOMAIN found : x \in BagToSet(logs) /\ x.tenant = t /\ found[x] <= logs[x]
  BY <1>4, <1>5
<1>7. BagToSet(logs) \subseteq Row
  BY DEF TypeOK
<1> QED BY <1>3, <1>6, <1>7 DEF IsABag, BagToSet, \sqsubseteq

-----------------------------------------------------------------------------
(* Requests, their reports and their rows *)

\* The report in an answer counts answers of one tenant, its reader's own or that
\* of an administrator's choice.
Reported(q) ==
    q.usage # None =>
        /\ q.usage.rows \sqsubseteq answered
        /\ \A x \in BagToSet(q.usage.rows) : x.tenant = q.usage.of
        /\ q.usage.of # q.tenant => q.scope = "admin"

\* The invariant for one request.
LEMMA RequestProperties ==
    ASSUME IInv, NEW r \in Requests
    PROVE  /\ IsRequest(request[r]) /\ Consistent(request[r]) /\ Reported(request[r])
           /\ Required(request[r].endpoint) \in {"write", "admin"}
  BY DEF IInv, TypeOK, UsageCountsOwnAnswers, Reported, Required

\* The invariant holds what the pool needs to know.
LEMMA InvPool ==
    ASSUME IInv
    PROVE  PoolInv
  BY DEF IInv, TypeOK, IsRequest, PoolInv, Shape

\* The row of a request whose tenant is known.
LEMMA RowTypes ==
    ASSUME NEW q, IsRequest(q), q.tenant # None
    PROVE  UsageRow(q) \in Row
  BY DEF IsRequest, UsageRow, Row

\* A step of one request that writes no row and gives no answer.
LEMMA RequestKeeps ==
    ASSUME IInv, PoolInv', UNCHANGED <<logs, answered>>,
           NEW r \in Requests, NEW q, IsRequest(q), Consistent(q), Reported(q),
           request'[r] = q, \A s \in Requests \ {r} : request'[s] = request[s],
           q.pc \in {"log", "insert"} => /\ request[r].pc \in {"log", "insert"}
                                        /\ UsageRow(q) = UsageRow(request[r])
    PROVE  IInv'
<1>1. ASSUME NEW s \in Requests
      PROVE  /\ IsRequest(request'[s]) /\ Consistent(request'[s]) /\ Reported(request'[s])
  BY RequestProperties
<1>2. Reported(request'[r]) /\ answered' = answered /\ logs' = logs
  BY <1>1
<1>3. TypeOK'
  BY <1>1, <1>2 DEF IInv, TypeOK, PoolInv, Shape
<1>4. LogInv'
  <2> SUFFICES ASSUME NEW x \in Row
               PROVE  /\ IsFiniteSet(Unlogged(x)')
                      /\ Copies(x, logs) + Cardinality(Unlogged(x)') <= Copies(x, answered)
    BY <1>2 DEF LogInv
  <2>1. Unlogged(x)' \subseteq Unlogged(x)
    <3> SUFFICES ASSUME NEW s \in Requests, request'[s].pc \in {"log", "insert"},
                        UsageRow(request'[s]) = x
                 PROVE  request[s].pc \in {"log", "insert"} /\ UsageRow(request[s]) = x
      BY DEF Unlogged, UsageRow
    <3> QED OBVIOUS
  <2>2. IsFiniteSet(Unlogged(x)) /\ Copies(x, logs) + Cardinality(Unlogged(x)) <= Copies(x, answered)
    BY DEF IInv, LogInv
  <2>3. /\ IsFiniteSet(Unlogged(x)') /\ Cardinality(Unlogged(x)') <= Cardinality(Unlogged(x))
        /\ Cardinality(Unlogged(x)') \in Nat /\ Cardinality(Unlogged(x)) \in Nat
    BY <2>1, <2>2, FS_Subset, FS_CardinalityType
  <2>4. Copies(x, logs) \in Nat /\ Copies(x, answered) \in Nat
    BY BagProperties DEF IInv, TypeOK
  <2> QED BY <2>2, <2>3, <2>4
<1>5. UsageCountsOwnAnswers'
  <2>1. logs' \sqsubseteq answered'
    BY <1>2 DEF IInv, UsageCountsOwnAnswers
  <2> QED BY <1>1, <1>2, <2>1 DEF Reported, UsageCountsOwnAnswers
<1>6. \A s \in Requests : Consistent(request[s])'
  BY <1>1 DEF Consistent
<1>7. HeldInv'
  BY DEF PoolInv
<1> QED BY <1>3, <1>4, <1>5, <1>6, <1>7 DEF IInv

\* What a request knows when it is moved on.
Moves(p, q) ==
    /\ DOMAIN q = DOMAIN p
    /\ q.endpoint = p.endpoint /\ q.tenant = p.tenant /\ q.scope = p.scope
    /\ q.usage = p.usage

\* A request that is moved on and otherwise keeps what it knows.
LEMMA MovedProperties ==
    ASSUME IInv, NEW r \in Requests, NEW q, Moves(request[r], q), q.outcome \in Outcomes,
           q.pc \in {"lookup", "query", "answer", "insert", "done", "log"},
           q.pc = "lookup" => request[r].pc = "auth",
           q.pc = "query" => request[r].pc = "route",
           q.pc \in {"log", "insert"} => request[r].tenant # None,
           request[r].usage # None => q.pc \notin {"lookup", "query"}
    PROVE  IsRequest(q) /\ Consistent(q) /\ Reported(q)
<1>1. IsRequest(request[r]) /\ Consistent(request[r]) /\ Reported(request[r])
  BY RequestProperties
<1>2. IsRequest(q)
  BY <1>1 DEF IsRequest, Moves
<1>3. Reported(q)
  BY <1>1 DEF Reported, Moves
<1>4. Consistent(q)
  BY <1>1 DEF Consistent, Moves
<1> QED BY <1>2, <1>3, <1>4

\* A request that is answered.
LEMMA AnsweredProperties ==
    ASSUME IInv, NEW r \in Requests, NEW o \in Outcomes,
           NEW q, q = [request[r] EXCEPT !.pc = "answer", !.outcome = o]
    PROVE  IsRequest(q) /\ Consistent(q) /\ Reported(q) /\ q.pc = "answer"
<1>1. IsRequest(request[r])
  BY RequestProperties
<1>2. Moves(request[r], q) /\ q.pc = "answer" /\ q.outcome = o
  BY <1>1 DEF IsRequest, Moves
<1>3. IsRequest(q) /\ Consistent(q) /\ Reported(q)
  BY <1>2, MovedProperties
<1> QED BY <1>2, <1>3

\* A failed statement ends the request's work, or its task's.
LEMMA FailedProperties ==
    ASSUME IInv, NEW r \in Requests, NEW q, q = Failed(request[r])
    PROVE  /\ IsRequest(q) /\ Consistent(q) /\ Reported(q)
           /\ q.pc \in {"answer", "done"}
<1>1. IsRequest(request[r])
  BY RequestProperties
<1>2. CASE request[r].pc \in {"log", "insert"}
  <2>1. Moves(request[r], q) /\ q.pc = "done" /\ q.outcome = request[r].outcome
    BY <1>1, <1>2 DEF Failed, IsRequest, Moves
  <2>2. q.outcome \in Outcomes
    BY <1>1, <2>1 DEF IsRequest
  <2>3. IsRequest(q) /\ Consistent(q) /\ Reported(q)
    BY <2>1, <2>2, MovedProperties
  <2> QED BY <2>1, <2>3
<1>3. CASE request[r].pc \notin {"log", "insert"}
  <2>1. q = [request[r] EXCEPT !.pc = "answer", !.outcome = "error"]
    BY <1>3 DEF Failed
  <2>2. IsRequest(q) /\ Consistent(q) /\ Reported(q) /\ q.pc = "answer"
    BY <2>1, AnsweredProperties DEF Outcomes
  <2> QED BY <2>2
<1> QED BY <1>2, <1>3

\* The tenant and the scope of a key that was found.
LEMMA IdentifiedProperties ==
    ASSUME IInv, NEW r \in Requests, request[r].pc \in {"auth", "lookup"},
           NEW t \in Tenants, NEW s \in {"write", "admin"}
    PROVE  LET q == Identified(request[r], t, s) IN
           /\ IsRequest(q) /\ Consistent(q) /\ Reported(q)
           /\ q.pc \in {"route", "answer"}
<1> DEFINE p == request[r]
           pc == IF s \in {Required(p.endpoint), "admin"} THEN "route" ELSE "answer"
           q == Identified(p, t, s)
<1>1. IsRequest(p) /\ Consistent(p)
  BY RequestProperties
<1>2. p.usage = None
  BY <1>1 DEF Consistent
<1>3. pc \in {"route", "answer"} /\ (pc = "route" /\ Required(p.endpoint) = "admin" => s = "admin")
  OBVIOUS
<1>4. q = [p EXCEPT !.tenant = t, !.scope = s, !.pc = pc]
  BY DEF Identified
<1> HIDE DEF pc, q
<1>5. /\ DOMAIN q = DOMAIN p /\ q.pc = pc /\ q.tenant = t /\ q.scope = s
      /\ q.endpoint = p.endpoint /\ q.outcome = p.outcome /\ q.usage = p.usage
  BY <1>1, <1>4 DEF IsRequest
<1> HIDE DEF p
<1>6. IsRequest(q)
  BY <1>1, <1>2, <1>3, <1>5 DEF IsRequest
<1>7. Consistent(q) /\ Reported(q)
  BY <1>2, <1>3, <1>5 DEF Consistent, Reported
<1> QED BY <1>3, <1>5, <1>6, <1>7 DEF q, p

\* A request that has just come in knows nothing yet.
LEMMA FreshProperties ==
    ASSUME NEW q, DOMAIN q = {"pc", "endpoint", "tenant", "scope", "outcome", "usage"},
           q.endpoint \in Endpoints, q.pc \in {"idle", "auth", "route"},
           q.pc = "route" => Public(q.endpoint),
           q.tenant = None, q.scope = "write", q.outcome = "error", q.usage = None
    PROVE  IsRequest(q) /\ Consistent(q) /\ Reported(q)
<1>1. IsRequest(q)
  BY DEF IsRequest, Outcomes
<1>2. Consistent(q)
  BY DEF Consistent, Public, Required
<1> QED BY <1>1, <1>2 DEF Reported

-----------------------------------------------------------------------------
(* The steps that write no row and give no answer *)

\* A statement is sent, by the request's route or by its task.
LEMMA CheckoutRows ==
    ASSUME IInv, PoolInv', NEW r \in Requests, Checkout(r)
    PROVE  IInv'
<1> DEFINE q == [request[r] EXCEPT !.pc = Statement[Waiting(r)]]
<1>1. IsRequest(request[r]) /\ Consistent(request[r]) /\ Reported(request[r])
      /\ DOMAIN request = Requests
  BY RequestProperties DEF IInv, TypeOK
<1>2. request'[r] = q /\ \A s \in Requests \ {r} : request'[s] = request[s]
  BY <1>1 DEF Checkout
<1>3. /\ Statement[Waiting(r)] = CASE request[r].pc = "auth"  -> "lookup"
                                   [] request[r].pc = "route" -> "query"
                                   [] request[r].pc = "log"   -> "insert"
      /\ request[r].pc \in {"auth", "route", "log"}
  BY DEF Checkout, Waiting, Statement
<1>4. /\ DOMAIN q = {"pc", "endpoint", "tenant", "scope", "outcome", "usage"}
      /\ q.pc = Statement[Waiting(r)] /\ q.endpoint = request[r].endpoint
      /\ q.tenant = request[r].tenant /\ q.scope = request[r].scope
      /\ q.outcome = request[r].outcome /\ q.usage = request[r].usage
  BY <1>1 DEF IsRequest
<1> HIDE DEF q
<1>5. IsRequest(q) /\ Consistent(q) /\ Reported(q)
  <2>1. IsRequest(q)
    BY <1>1, <1>3, <1>4 DEF IsRequest
  <2>2. Consistent(q)
    BY <1>1, <1>3, <1>4 DEF Consistent
  <2>3. Reported(q)
    BY <1>1, <1>4 DEF Reported
  <2> QED BY <2>1, <2>2, <2>3
<1>6. q.pc \in {"log", "insert"} => /\ request[r].pc \in {"log", "insert"}
                                   /\ UsageRow(q) = UsageRow(request[r])
  BY <1>3, <1>4 DEF UsageRow
<1>7. UNCHANGED <<logs, answered>>
  BY DEF Checkout
<1> QED BY <1>2, <1>5, <1>6, <1>7, RequestKeeps

\* A request comes in, or is over.
LEMMA FreshRows ==
    ASSUME IInv, PoolInv', NEW r \in Requests,
           (\E e \in Endpoints : Arrive(r, e)) \/ End(r)
    PROVE  IInv'
<1>1. DOMAIN request = Requests /\ UNCHANGED <<logs, answered>>
  BY DEF IInv, TypeOK, Arrive, End
<1>2. \A s \in Requests \ {r} : request'[s] = request[s]
  BY <1>1 DEF Arrive, End
<1> DEFINE q == request'[r]
<1>3. /\ DOMAIN q = {"pc", "endpoint", "tenant", "scope", "outcome", "usage"}
      /\ q.endpoint \in Endpoints /\ q.pc \in {"idle", "auth", "route"}
      /\ q.pc = "route" => Public(q.endpoint)
      /\ q.tenant = None /\ q.scope = "write" /\ q.outcome = "error" /\ q.usage = None
  <2>1. CASE End(r)
    BY <1>1, <2>1 DEF End, NoRequest, Endpoints
  <2>2. ASSUME NEW e \in Endpoints, Arrive(r, e)
        PROVE  /\ DOMAIN q = DOMAIN NoRequest /\ q.endpoint = e
               /\ q.pc = IF Public(e) THEN "route" ELSE "auth"
               /\ q.tenant = None /\ q.scope = "write" /\ q.outcome = "error"
               /\ q.usage = None
    BY <1>1, <2>2 DEF Arrive, NoRequest
  <2>3. DOMAIN NoRequest = {"pc", "endpoint", "tenant", "scope", "outcome", "usage"}
    BY DEF NoRequest
  <2> HIDE DEF q
  <2> QED BY <2>1, <2>2, <2>3
<1> HIDE DEF q
<1>4. IsRequest(q) /\ Consistent(q) /\ Reported(q)
  BY <1>3, FreshProperties
<1>5. q.pc \notin {"log", "insert"} /\ request'[r] = q
  BY <1>3 DEF q
<1> QED BY <1>1, <1>2, <1>4, <1>5, RequestKeeps

\* A statement fails, before it was sent or after it.
LEMMA FailureRows ==
    ASSUME IInv, PoolInv', NEW r \in Requests, UNCHANGED <<logs, answered>>,
           request' = [request EXCEPT ![r] = Failed(@)]
    PROVE  IInv'
<1> DEFINE q == Failed(request[r])
<1>1. request'[r] = q /\ \A s \in Requests \ {r} : request'[s] = request[s]
  BY DEF IInv, TypeOK
<1> HIDE DEF q
<1>2. IsRequest(q) /\ Consistent(q) /\ Reported(q) /\ q.pc \in {"answer", "done"}
  BY FailedProperties DEF q
<1>3. q.pc \notin {"log", "insert"}
  BY <1>2
<1> QED BY <1>1, <1>2, <1>3, RequestKeeps

\* The key's owner is known.
LEMMA IdentifiedRows ==
    ASSUME IInv, PoolInv', NEW r \in Requests, UNCHANGED <<logs, answered>>,
           request[r].pc \in {"auth", "lookup"},
           NEW t \in Tenants, NEW s \in {"write", "admin"},
           request' = [request EXCEPT ![r] = Identified(@, t, s)]
    PROVE  IInv'
<1> DEFINE q == Identified(request[r], t, s)
<1>1. request'[r] = q /\ \A x \in Requests \ {r} : request'[x] = request[x]
  BY DEF IInv, TypeOK
<1>2. IsRequest(q) /\ Consistent(q) /\ Reported(q) /\ q.pc \in {"route", "answer"}
  BY IdentifiedProperties
<1> HIDE DEF q
<1>3. q.pc \notin {"log", "insert"}
  BY <1>2
<1> QED BY <1>1, <1>2, <1>3, RequestKeeps

\* The request is answered, without a new report.
LEMMA AnswerRows ==
    ASSUME IInv, PoolInv', NEW r \in Requests, UNCHANGED <<logs, answered>>,
           NEW o \in Outcomes,
           request' = [request EXCEPT ![r].pc = "answer", ![r].outcome = o]
    PROVE  IInv'
<1> DEFINE q == [request[r] EXCEPT !.pc = "answer", !.outcome = o]
<1>1. request'[r] = q /\ \A s \in Requests \ {r} : request'[s] = request[s]
  BY DEF IInv, TypeOK
<1>2. IsRequest(q) /\ Consistent(q) /\ Reported(q) /\ q.pc = "answer"
  BY AnsweredProperties
<1> HIDE DEF q
<1>3. q.pc \notin {"log", "insert"}
  BY <1>2
<1> QED BY <1>1, <1>2, <1>3, RequestKeeps

\* The report that a tenant, or an administrator, is answered with.
LEMMA ReportRows ==
    ASSUME IInv, PoolInv', NEW r \in Requests, TenantUsage(r)
    PROVE  IInv'
<1>1. UNCHANGED <<logs, answered>> /\ request[r].pc = "query"
      /\ request[r].endpoint \in {"usage", "tenantUsage"}
  BY DEF TenantUsage
<1>2. CASE request' = [request EXCEPT ![r] = Failed(@)]
  BY <1>1, <1>2, FailureRows
<1>3. ASSUME NEW t \in Tenants, NEW found \in SomeOf(RowsOf(t)),
             request[r].endpoint = "usage" => t = request[r].tenant,
             request' = [request EXCEPT ![r].pc = "answer", ![r].outcome = "ok",
                                        ![r].usage = [of |-> t, rows |-> found]]
      PROVE  IInv'
  <2> DEFINE p == request[r]
             u == [of |-> t, rows |-> found]
             q == [p EXCEPT !.pc = "answer", !.outcome = "ok", !.usage = u]
  <2>1. request'[r] = q /\ \A s \in Requests \ {r} : request'[s] = request[s]
    BY <1>3 DEF IInv, TypeOK
  <2>2. IsRequest(p) /\ Consistent(p)
    BY RequestProperties
  <2>3. /\ DOMAIN q = {"pc", "endpoint", "tenant", "scope", "outcome", "usage"}
        /\ q.pc = "answer" /\ q.endpoint = p.endpoint /\ q.tenant = p.tenant
        /\ q.scope = p.scope /\ q.outcome = "ok" /\ q.usage = u
    BY <2>2 DEF IsRequest
  <2>4. /\ IsABag(found) /\ BagToSet(found) \subseteq Row /\ found \sqsubseteq logs
        /\ \A x \in BagToSet(found) : x.tenant = t
    BY SomeOfProperties DEF IInv
  <2>5. found \sqsubseteq answered
    <3>1. logs \sqsubseteq answered /\ IsABag(logs) /\ IsABag(answered)
      BY DEF IInv, TypeOK, UsageCountsOwnAnswers
    <3> QED BY <2>4, <3>1, PartOfPart
  <2>6. t # p.tenant => p.scope = "admin"
    BY <1>1, <1>3, <2>2 DEF Consistent, Required
  <2>7. u.of = t /\ u.rows = found
    OBVIOUS
  <2> HIDE DEF p, u, q
  <2>8. IsRequest(q)
    BY <2>2, <2>3, <2>4, <2>7 DEF IsRequest, IsUsage, Outcomes
  <2>9. Consistent(q)
    BY <2>3 DEF Consistent
  <2>10. Reported(q)
    BY <2>3, <2>4, <2>5, <2>6, <2>7 DEF Reported
  <2>11. q.pc \notin {"log", "insert"}
    BY <2>3
  <2> QED BY <1>1, <2>1, <2>8, <2>9, <2>10, <2>11, RequestKeeps
<1> QED BY <1>2, <1>3 DEF TenantUsage

\* Any of these steps.
LEMMA QuietStepsKeep ==
    ASSUME IInv, PoolInv', NEW r \in Requests,
           \/ \E e \in Endpoints : Arrive(r, e)
           \/ Connect(r) \/ FromCache(r) \/ Lookup(r) \/ Refuse(r) \/ Register(r)
           \/ TenantUsage(r) \/ AllUsage(r) \/ CloseRoute(r) \/ End(r)
    PROVE  IInv'
<1>1. CASE (\E e \in Endpoints : Arrive(r, e)) \/ End(r)
  BY <1>1, FreshRows
<1>2. CASE Connect(r)
  <2>1. CASE Checkout(r)
    BY <2>1, CheckoutRows
  <2>2. CASE PoolTimeout(r)
    BY <2>2, FailureRows DEF PoolTimeout
  <2> QED BY <1>2, <2>1, <2>2 DEF Connect
<1>3. CASE FromCache(r)
  <2>1. UNCHANGED <<logs, answered>> /\ request[r].pc = "auth"
    BY <1>3 DEF FromCache
  <2>2. CASE request' = [request EXCEPT ![r].pc = "answer"]
    <3>1. IsRequest(request[r])
      BY RequestProperties
    <3>2. request[r].outcome \in Outcomes
      BY <3>1 DEF IsRequest
    <3>3. request' = [request EXCEPT ![r].pc = "answer", ![r].outcome = request[r].outcome]
      BY <2>2, <3>1 DEF IsRequest, IInv, TypeOK
    <3> QED BY <2>1, <3>2, <3>3, AnswerRows
  <2>3. ASSUME NEW t \in Tenants, NEW s \in {"write", "admin"},
               request' = [request EXCEPT ![r] = Identified(@, t, s)]
        PROVE  IInv'
    BY <2>1, <2>3, IdentifiedRows
  <2> QED BY <1>3, <2>2, <2>3 DEF FromCache
<1>4. CASE Lookup(r)
  <2>1. UNCHANGED <<logs, answered>> /\ request[r].pc = "lookup"
    BY <1>4 DEF Lookup
  <2>2. CASE request' = [request EXCEPT ![r] = Failed(@)]
    BY <2>1, <2>2, FailureRows
  <2>3. ASSUME NEW t \in Tenants, NEW s \in {"write", "admin"},
               request' = [request EXCEPT ![r] = Identified(@, t, s)]
        PROVE  IInv'
    BY <2>1, <2>3, IdentifiedRows
  <2> QED BY <1>4, <2>2, <2>3 DEF Lookup
<1>5. CASE Refuse(r)
  <2>1. PICK o \in Outcomes :
          request' = [request EXCEPT ![r].pc = "answer", ![r].outcome = o]
    BY <1>5 DEF Refuse
  <2>2. UNCHANGED <<logs, answered>>
    BY <1>5 DEF Refuse
  <2> QED BY <2>1, <2>2, AnswerRows
<1>6. CASE Register(r)
  <2>1. UNCHANGED <<logs, answered>>
    BY <1>6 DEF Register
  <2>2. CASE request' = [request EXCEPT ![r].pc = "answer", ![r].outcome = "ok"]
    BY <2>1, <2>2, AnswerRows DEF Outcomes
  <2>3. CASE request' = [request EXCEPT ![r] = Failed(@)]
    BY <2>1, <2>3, FailureRows
  <2> QED BY <1>6, <2>2, <2>3 DEF Register
<1>7. CASE TenantUsage(r)
  BY <1>7, ReportRows
<1>8. CASE AllUsage(r)
  BY <1>8, FailureRows DEF AllUsage
<1>9. CASE CloseRoute(r)
  <2> DEFINE q == request[r]
  <2>1. IsRequest(q) /\ Consistent(q) /\ Reported(q)
    BY RequestProperties
  <2>2. request'[r] = q /\ \A s \in Requests \ {r} : request'[s] = request[s]
    BY <1>9 DEF CloseRoute
  <2>3. UNCHANGED <<logs, answered>>
    BY <1>9 DEF CloseRoute
  <2> HIDE DEF q
  <2>4. q.pc \in {"log", "insert"} => /\ request[r].pc \in {"log", "insert"}
                                     /\ UsageRow(q) = UsageRow(request[r])
    BY DEF q
  <2> QED BY <2>1, <2>2, <2>3, <2>4, RequestKeeps
<1> QED BY <1>1, <1>2, <1>3, <1>4, <1>5, <1>6, <1>7, <1>8, <1>9

-----------------------------------------------------------------------------
(* The steps that give an answer, write its row or end the process *)

\* The bag of the answers only grows.
LEMMA AnswersGrow ==
    ASSUME IInv, NEW x \in Row, answered' = answered (+) SetToBag({x})
    PROVE  /\ IsABag(answered) /\ IsABag(answered') /\ answered \sqsubseteq answered'
           /\ BagToSet(answered') \subseteq Row
           /\ \A y : Copies(y, answered') =
                       IF y = x THEN Copies(y, answered) + 1 ELSE Copies(y, answered)
<1>1. IsABag(answered) /\ BagToSet(answered) \subseteq Row
  BY DEF IInv, TypeOK
<1>2. /\ IsABag(answered') /\ BagToSet(answered') = BagToSet(answered) \cup {x}
      /\ \A y : Copies(y, answered') =
                  IF y = x THEN Copies(y, answered) + 1 ELSE Copies(y, answered)
  BY <1>1, AddedProperties
<1>3. \A y \in Row : Copies(y, answered) <= Copies(y, answered')
  BY <1>1, <1>2, BagProperties
<1> QED BY <1>1, <1>2, <1>3, PartProperties

\* Reports made before stay true while answers are only added.
LEMMA ReportsStay ==
    ASSUME IInv, NEW x \in Row, answered' = answered (+) SetToBag({x}),
           NEW q, IsRequest(q), Reported(q)
    PROVE  q.usage # None =>
             /\ q.usage.rows \sqsubseteq answered'
             /\ \A y \in BagToSet(q.usage.rows) : y.tenant = q.usage.of
             /\ q.usage.of # q.tenant => q.scope = "admin"
<1>1. IsABag(answered) /\ IsABag(answered') /\ answered \sqsubseteq answered'
  BY AnswersGrow
<1>2. q.usage # None => IsABag(q.usage.rows)
  BY DEF IsRequest, IsUsage
<1> QED BY <1>1, <1>2, PartOfPart DEF Reported

\* The answer is counted, and its row is to come.
LEMMA AnswerCounted ==
    ASSUME IInv, PoolInv', NEW r \in Requests, NEW q, NEW x \in Row,
           IsRequest(q), Consistent(q), Reported(q),
           logs' = logs, answered' = answered (+) SetToBag({x}),
           request'[r] = q, \A s \in Requests \ {r} : request'[s] = request[s],
           request[r].pc = "answer", q.pc = "log", UsageRow(q) = x
    PROVE  IInv'
<1>1. /\ IsABag(answered) /\ IsABag(answered') /\ answered \sqsubseteq answered'
      /\ BagToSet(answered') \subseteq Row
      /\ \A y : Copies(y, answered') =
                  IF y = x THEN Copies(y, answered) + 1 ELSE Copies(y, answered)
  BY AnswersGrow
<1>2. ASSUME NEW s \in Requests
      PROVE  IsRequest(request'[s]) /\ Consistent(request'[s]) /\ Reported(request'[s])
  BY RequestProperties
<1>3. TypeOK'
  BY <1>1, <1>2 DEF IInv, TypeOK, PoolInv, Shape
<1>4. LogInv'
  <2> SUFFICES ASSUME NEW y \in Row
               PROVE  /\ IsFiniteSet(Unlogged(y)')
                      /\ Copies(y, logs) + Cardinality(Unlogged(y)') <= Copies(y, answered')
    BY DEF LogInv
  <2>1. IsFiniteSet(Unlogged(y)) /\ Copies(y, logs) + Cardinality(Unlogged(y)) <= Copies(y, answered)
    BY DEF IInv, LogInv
  <2>2. Copies(y, logs) \in Nat /\ Copies(y, answered) \in Nat
    BY BagProperties DEF IInv, TypeOK
  <2>3. Cardinality(Unlogged(y)) \in Nat
    BY <2>1, FS_CardinalityType
  <2>4. CASE y = x
    <3>1. Unlogged(y)' = Unlogged(y) \cup {r} /\ r \notin Unlogged(y)
      BY <2>4 DEF Unlogged, UsageRow
    <3>2. IsFiniteSet(Unlogged(y)') /\ Cardinality(Unlogged(y)') = Cardinality(Unlogged(y)) + 1
      BY <2>1, <3>1, FS_AddElement
    <3> QED BY <1>1, <2>1, <2>2, <2>3, <2>4, <3>2
  <2>5. CASE y # x
    <3>1. Unlogged(y)' = Unlogged(y)
      BY <2>5 DEF Unlogged, UsageRow
    <3> QED BY <1>1, <2>1, <2>5, <3>1
  <2> QED BY <2>4, <2>5
<1>5. UsageCountsOwnAnswers'
  <2>1. logs' \sqsubseteq answered'
    BY <1>1, PartOfPart DEF IInv, TypeOK, UsageCountsOwnAnswers
  <2>2. ASSUME NEW s \in Requests, request'[s].usage # None
        PROVE  /\ request'[s].usage.rows \sqsubseteq answered'
               /\ \A y \in BagToSet(request'[s].usage.rows) : y.tenant = request'[s].usage.of
               /\ request'[s].usage.of # request'[s].tenant => request'[s].scope = "admin"
    BY <1>2, <2>2, ReportsStay
  <2> QED BY <2>1, <2>2 DEF UsageCountsOwnAnswers
<1>6. \A s \in Requests : Consistent(request[s])'
  BY <1>2 DEF Consistent
<1>7. HeldInv'
  BY DEF PoolInv
<1> QED BY <1>3, <1>4, <1>5, <1>6, <1>7 DEF IInv

\* An answer is given.
LEMMA RespondKeeps ==
    ASSUME IInv, PoolInv', NEW r \in Requests, Respond(r)
    PROVE  IInv'
<1>1. IsRequest(request[r]) /\ Consistent(request[r]) /\ Reported(request[r])
      /\ DOMAIN request = Requests
  BY RequestProperties DEF IInv, TypeOK
<1>2. logs' = logs
  BY DEF Respond
<1> DEFINE q == request'[r]
<1>3. CASE request[r].tenant = None
  <2>1. request' = [request EXCEPT ![r].pc = "done"] /\ answered' = answered
    BY <1>3 DEF Respond
  <2>2. Moves(request[r], q) /\ q.pc = "done" /\ q.outcome = request[r].outcome
        /\ \A s \in Requests \ {r} : request'[s] = request[s]
    BY <1>1, <2>1 DEF IsRequest, Moves
  <2>3. q.outcome \in Outcomes
    BY <1>1, <2>2 DEF IsRequest
  <2> HIDE DEF q
  <2>4. IsRequest(q) /\ Consistent(q) /\ Reported(q)
    BY <2>2, <2>3, MovedProperties
  <2>5. q.pc \notin {"log", "insert"} /\ request'[r] = q
    BY <2>2 DEF q
  <2> QED BY <1>2, <2>1, <2>2, <2>4, <2>5, RequestKeeps
<1>4. CASE request[r].tenant # None
  <2> DEFINE x == UsageRow(request[r])
  <2>1. request' = [request EXCEPT ![r].pc = "log"]
        /\ answered' = answered (+) SetToBag({x})
    BY <1>4 DEF Respond
  <2>2. Moves(request[r], q) /\ q.pc = "log" /\ q.outcome = request[r].outcome
        /\ \A s \in Requests \ {r} : request'[s] = request[s]
    BY <1>1, <2>1 DEF IsRequest, Moves
  <2>3. q.outcome \in Outcomes
    BY <1>1, <2>2 DEF IsRequest
  <2>4. x \in Row /\ UsageRow(q) = x
    BY <1>1, <1>4, <2>2, RowTypes DEF UsageRow, Moves
  <2> HIDE DEF q, x
  <2>5. IsRequest(q) /\ Consistent(q) /\ Reported(q)
    BY <1>4, <2>2, <2>3, MovedProperties
  <2>6. request[r].pc = "answer" /\ request'[r] = q
    BY DEF Respond, q
  <2> QED BY <1>2, <2>1, <2>2, <2>4, <2>5, <2>6, AnswerCounted
<1> QED BY <1>3, <1>4

\* The row of an answer is committed, or lost.
LEMMA WriteUsageLogKeeps ==
    ASSUME IInv, PoolInv', NEW r \in Requests, WriteUsageLog(r)
    PROVE  IInv'
<1> DEFINE q == request'[r]
           x == UsageRow(request[r])
<1>1. IsRequest(request[r]) /\ Consistent(request[r]) /\ Reported(request[r])
      /\ DOMAIN request = Requests
  BY RequestProperties DEF IInv, TypeOK
<1>2. /\ request[r].pc = "insert" /\ answered' = answered
      /\ logs' \in {logs, logs (+) SetToBag({x})}
      /\ request' = [request EXCEPT ![r].pc = "done"]
  BY DEF WriteUsageLog
<1>3. Moves(request[r], q) /\ q.pc = "done" /\ q.outcome = request[r].outcome
      /\ \A s \in Requests \ {r} : request'[s] = request[s]
  BY <1>1, <1>2 DEF IsRequest, Moves
<1>4. q.outcome \in Outcomes
  BY <1>1, <1>3 DEF IsRequest
<1>5. x \in Row
  BY <1>1, <1>2, RowTypes DEF Consistent
<1> HIDE DEF q, x
<1>6. IsRequest(q) /\ Consistent(q) /\ Reported(q)
  BY <1>3, <1>4, MovedProperties
<1>7. request'[r] = q /\ UsageRow(request[r]) = x
  BY DEF q, x
<1>8. ASSUME NEW s \in Requests
      PROVE  IsRequest(request'[s]) /\ Consistent(request'[s]) /\ Reported(request'[s])
  BY <1>3, <1>6, <1>7, RequestProperties
<1>9. IsABag(logs) /\ BagToSet(logs) \subseteq Row /\ IsABag(answered)
  BY DEF IInv, TypeOK
<1>10. /\ IsABag(logs') /\ BagToSet(logs') \subseteq Row
       /\ \A y : Copies(y, logs') <= (IF y = x THEN Copies(y, logs) + 1 ELSE Copies(y, logs))
  <2>1. CASE logs' = logs
    BY <1>9, <2>1, BagProperties
  <2>2. CASE logs' = logs (+) SetToBag({x})
    <3>1. /\ IsABag(logs') /\ BagToSet(logs') = BagToSet(logs) \cup {x}
          /\ \A y : Copies(y, logs') =
                      IF y = x THEN Copies(y, logs) + 1 ELSE Copies(y, logs)
      BY <1>9, <2>2, AddedProperties
    <3>2. \A y : Copies(y, logs) \in Nat
      BY <1>9, BagProperties
    <3> QED BY <1>5, <1>9, <3>1, <3>2
  <2> QED BY <1>2, <2>1, <2>2
<1>11. TypeOK'
  BY <1>2, <1>3, <1>8, <1>10 DEF IInv, TypeOK, PoolInv, Shape
<1>12. LogInv'
  <2> SUFFICES ASSUME NEW y \in Row
               PROVE  /\ IsFiniteSet(Unlogged(y)')
                      /\ Copies(y, logs') + Cardinality(Unlogged(y)') <= Copies(y, answered)
    BY <1>2 DEF LogInv
  <2>1. IsFiniteSet(Unlogged(y)) /\ Copies(y, logs) + Cardinality(Unlogged(y)) <= Copies(y, answered)
    BY DEF IInv, LogInv
  <2>2. Copies(y, logs) \in Nat /\ Copies(y, logs') \in Nat /\ Copies(y, answered) \in Nat
    BY <1>9, <1>10, BagProperties
  <2>3. Cardinality(Unlogged(y)) \in Nat
    BY <2>1, FS_CardinalityType
  <2>4. CASE y = x
    <3>1. Unlogged(y)' = Unlogged(y) \ {r} /\ r \in Unlogged(y)
      BY <1>2, <1>3, <1>7, <2>4 DEF Unlogged, UsageRow
    <3>2. IsFiniteSet(Unlogged(y)') /\ Cardinality(Unlogged(y)') = Cardinality(Unlogged(y)) - 1
      BY <2>1, <3>1, FS_RemoveElement
    <3>3. Copies(y, logs') <= Copies(y, logs) + 1
      BY <1>10, <2>4
    <3> QED BY <2>1, <2>2, <2>3, <3>2, <3>3
  <2>5. CASE y # x
    <3>1. Unlogged(y)' = Unlogged(y)
      BY <1>2, <1>3, <1>7, <2>5 DEF Unlogged, UsageRow
    <3>2. Copies(y, logs') <= Copies(y, logs)
      BY <1>10, <2>5
    <3> QED BY <2>1, <2>2, <2>3, <3>1, <3>2
  <2> QED BY <2>4, <2>5
<1>13. UsageCountsOwnAnswers'
  <2>1. \A y \in Row : Copies(y, logs') <= Copies(y, answered)
    <3> SUFFICES ASSUME NEW y \in Row PROVE Copies(y, logs') <= Copies(y, answered)
      OBVIOUS
    <3>1. IsFiniteSet(Unlogged(y)') /\ Copies(y, logs') + Cardinality(Unlogged(y)') <= Copies(y, answered)
      BY <1>2, <1>12 DEF LogInv
    <3>2. Cardinality(Unlogged(y)') \in Nat
      BY <3>1, FS_CardinalityType
    <3>3. Copies(y, logs') \in Nat /\ Copies(y, answered) \in Nat
      BY <1>9, <1>10, BagProperties
    <3> QED BY <3>1, <3>2, <3>3
  <2>2. logs' \sqsubseteq answered'
    BY <1>2, <1>9, <1>10, <2>1, PartProperties
  <2> QED BY <1>2, <1>8, <2>2 DEF Reported, UsageCountsOwnAnswers
<1>14. \A s \in Requests : Consistent(request[s])'
  BY <1>8 DEF Consistent
<1>15. HeldInv'
  BY DEF PoolInv
<1> QED BY <1>11, <1>12, <1>13, <1>14, <1>15 DEF IInv

\* The process dies, with the rows that were to come.
LEMMA CrashKeeps ==
    ASSUME IInv, PoolInv', Crash
    PROVE  IInv'
<1>1. \A s \in Requests : request'[s] = NoRequest
  BY DEF Crash
<1>2. logs' = logs /\ answered' = answered
  BY DEF Crash
<1>3. IsRequest(NoRequest) /\ Consistent(NoRequest) /\ Reported(NoRequest)
      /\ NoRequest.pc = "idle" /\ NoRequest.usage = None
  <2> DEFINE q == NoRequest
  <2>1. /\ DOMAIN q = {"pc", "endpoint", "tenant", "scope", "outcome", "usage"}
        /\ q.endpoint = "extract" /\ q.pc = "idle"
        /\ q.tenant = None /\ q.scope = "write" /\ q.outcome = "error" /\ q.usage = None
    BY DEF NoRequest
  <2> HIDE DEF q
  <2>2. IsRequest(q) /\ Consistent(q) /\ Reported(q)
    BY <2>1, FreshProperties DEF Endpoints
  <2> QED BY <2>1, <2>2 DEF q
<1>4. TypeOK'
  BY <1>1, <1>2, <1>3 DEF IInv, TypeOK, PoolInv, Shape
<1>5. LogInv'
  <2> SUFFICES ASSUME NEW x \in Row
               PROVE  /\ IsFiniteSet(Unlogged(x)')
                      /\ Copies(x, logs) + Cardinality(Unlogged(x)') <= Copies(x, answered)
    BY <1>2 DEF LogInv
  <2>1. Unlogged(x)' = {}
    BY <1>1, <1>3 DEF Unlogged
  <2>2. IsFiniteSet(Unlogged(x)) /\ Copies(x, logs) + Cardinality(Unlogged(x)) <= Copies(x, answered)
    BY DEF IInv, LogInv
  <2>3. Copies(x, logs) \in Nat /\ Copies(x, answered) \in Nat
    BY BagProperties DEF IInv, TypeOK
  <2> QED BY <2>1, <2>2, <2>3, FS_EmptySet, FS_CardinalityType
<1>6. UsageCountsOwnAnswers'
  BY <1>1, <1>2, <1>3 DEF IInv, UsageCountsOwnAnswers
<1>7. \A s \in Requests : Consistent(request[s])'
  BY <1>1, <1>3 DEF Consistent
<1>8. HeldInv'
  BY DEF PoolInv
<1> QED BY <1>4, <1>5, <1>6, <1>7, <1>8 DEF IInv

-----------------------------------------------------------------------------
(* Every step, and the theorems *)

\* Every step keeps the invariant.
LEMMA StepKeeps ==
    ASSUME IInv, [Next]_vars
    PROVE  IInv'
<1>1. PoolInv'
  BY InvPool, PoolSteps
<1>2. ASSUME NEW r \in Requests,
             (\E e \in Endpoints : Arrive(r, e)) \/ Connect(r) \/ Proceed(r)
                \/ CloseRoute(r)
      PROVE  IInv'
  BY <1>1, <1>2, QuietStepsKeep, RespondKeeps, WriteUsageLogKeeps DEF Proceed
<1>3. CASE Crash
  BY <1>1, <1>3, CrashKeeps
<1>4. CASE UNCHANGED vars
  <2>1. request' = request /\ held' = held /\ logs' = logs /\ answered' = answered
    BY <1>4 DEF vars
  <2>2. \A x : Unlogged(x)' = Unlogged(x)
    BY <2>1 DEF Unlogged
  <2>3. LogInv'
    BY <2>1, <2>2 DEF IInv, LogInv
  <2>4. TypeOK' /\ HeldInv'
    BY <2>1 DEF IInv, TypeOK, HeldInv
  <2>5. UsageCountsOwnAnswers' /\ \A r \in Requests : Consistent(request[r])'
    BY <2>1 DEF IInv, UsageCountsOwnAnswers, Consistent
  <2> QED BY <2>3, <2>4, <2>5 DEF IInv
<1> QED BY <1>2, <1>3, <1>4 DEF Next

\* It holds at the start.
LEMMA InitHolds == Init => IInv
<1> SUFFICES ASSUME Init PROVE IInv
  OBVIOUS
<1>1. \A s \in Requests : request[s] = NoRequest
  BY DEF Init
<1>2. logs = EmptyBag /\ answered = EmptyBag
  BY DEF Init
<1>3. IsRequest(NoRequest) /\ Consistent(NoRequest)
      /\ NoRequest.pc = "idle" /\ NoRequest.usage = None
  <2> DEFINE q == NoRequest
  <2>1. /\ DOMAIN q = {"pc", "endpoint", "tenant", "scope", "outcome", "usage"}
        /\ q.endpoint = "extract" /\ q.pc = "idle"
        /\ q.tenant = None /\ q.scope = "write" /\ q.outcome = "error" /\ q.usage = None
    BY DEF NoRequest
  <2> HIDE DEF q
  <2>2. IsRequest(q) /\ Consistent(q) /\ Reported(q)
    BY <2>1, FreshProperties DEF Endpoints
  <2> QED BY <2>1, <2>2 DEF q
<1>4. IsABag(EmptyBag) /\ BagToSet(EmptyBag) = {}
  BY DEF IsABag, EmptyBag, BagToSet, SetToBag
<1>5. TypeOK
  BY <1>1, <1>2, <1>3, <1>4 DEF Init, TypeOK, Session
<1>6. HeldInv
  BY <1>1, <1>3 DEF Init, HeldInv
<1>7. LogInv
  <2> SUFFICES ASSUME NEW x \in Row
               PROVE  /\ IsFiniteSet(Unlogged(x))
                      /\ Copies(x, logs) + Cardinality(Unlogged(x)) <= Copies(x, answered)
    BY DEF LogInv
  <2>1. Unlogged(x) = {}
    BY <1>1, <1>3 DEF Unlogged
  <2>2. Copies(x, logs) = 0 /\ Copies(x, answered) = 0
    BY <1>2, <1>4 DEF Copies, BagIn
  <2> QED BY <2>1, <2>2, FS_EmptySet
<1>8. UsageCountsOwnAnswers
  <2>1. logs \sqsubseteq answered
    BY <1>2, <1>4 DEF \sqsubseteq, BagToSet
  <2> QED BY <1>1, <1>3, <2>1 DEF UsageCountsOwnAnswers
<1> QED BY <1>1, <1>3, <1>5, <1>6, <1>7, <1>8 DEF IInv

\* What a request knows and holds at each step, and that a row that may still be
\* written has its answer (Spec, any requests, tenants and pool).
THEOREM Inductive == Spec => []IInv
<1>1. Init => IInv
  BY InitHolds
<1>2. IInv /\ [Next]_vars => IInv'
  BY StepKeeps
<1> QED BY <1>1, <1>2, PTL DEF Spec

\* Requests, sessions and rows have their types.
THEOREM TypeCorrect == Spec => []TypeOK
<1>1. IInv => TypeOK
  BY DEF IInv
<1> QED BY <1>1, Inductive, PTL

\* A usage row stands for one answer, and a report counts answers of the tenant
\* it is about, for that tenant or for an administrator (_write_usage_log,
\* _query_usage).
THEOREM UsageIsOwn == Spec => []UsageCountsOwnAnswers
<1>1. IInv => UsageCountsOwnAnswers
  BY DEF IInv
<1> QED BY <1>1, Inductive, PTL

=============================================================================
