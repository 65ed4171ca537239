----------------------- MODULE RequestPipelineProofs -----------------------
(***************************************************************************)
(* The middleware stack of RequestPipeline for any number of requests,     *)
(* tenants, keys and addresses, any limits and any size of the audit ring. *)
(***************************************************************************)
EXTENDS RequestPipeline, FiniteSetTheorems, SequenceTheorems, TLAPS

-----------------------------------------------------------------------------
(* One request *)

\* AnswersShowTheirLayer for one request.
AnswerInv(r) ==
    req[r].pc \in {"leave", "done"} =>
        /\ req[r].served = "no" => req[r].headers = "absent"
                                  /\ req[r].status \in {401, 403, 429}
        /\ req[r].served # "no" =>
              req[r].headers = IF req[r].status = 500 THEN "absent"
                               ELSE ExpectedHeaders(req[r].path)
        /\ req[r].preflight /\ Protected(r) =>
              req[r].served = "no" /\ req[r].status = 401

LEMMA EachAnswer == AnswersShowTheirLayer <=> \A r \in Requests : AnswerInv(r)
  BY Zenon DEF AnswersShowTheirLayer, AnswerInv

\* The type of one request.
LEMMA RequestType == IInv => req \in [Requests -> Request] /\ \A r \in Requests : req[r] \in Request
  BY DEF IInv, TypeOK

\* The request r becomes q.
Becomes(r, q) == req' = [req EXCEPT ![r] = q]

\* It is the only one.
LEMMA Written ==
    ASSUME req \in [Requests -> Request], NEW r \in Requests, NEW q \in Request, Becomes(r, q)
    PROVE  /\ req' \in [Requests -> Request] /\ req'[r] = q
           /\ \A t \in Requests \ {r} : req'[t] = req[t]
  BY DEF Becomes

\* What a step on the request r leaves alone.
LEMMA OthersKeep ==
    ASSUME TypeOK, NEW r \in Requests, NEW q \in Request, Becomes(r, q),
           UNCHANGED settings
    PROVE  /\ req' \in [Requests -> Request] /\ req'[r] = q
           /\ \A p \in Requests \ {r} :
                 /\ req'[p] = req[p]
                 /\ UsageOf(p)' = UsageOf(p)
                 /\ LayerInv(p) => LayerInv(p)'
                 /\ AnswerInv(p) => AnswerInv(p)'
<1>1. req' \in [Requests -> Request] /\ req'[r] = q /\ \A p \in Requests \ {r} : req'[p] = req[p]
  BY Written DEF TypeOK
<1>2. ASSUME NEW p \in Requests \ {r}
      PROVE  /\ UsageOf(p)' = UsageOf(p)
             /\ LayerInv(p) => LayerInv(p)'
             /\ AnswerInv(p) => AnswerInv(p)'
  <2>1. req'[p] = req[p] /\ settings' = settings
    BY <1>1
  <2>2. UsageOf(p)' = UsageOf(p)
    BY <2>1 DEF UsageOf
  <2>3. LayerInv(p) => LayerInv(p)'
    BY <2>1 DEF LayerInv, Protected, Accepted, HeadersFor, ExpectedHeaders
  <2>4. AnswerInv(p) => AnswerInv(p)'
    BY <2>1 DEF AnswerInv, Protected, ExpectedHeaders
  <2> QED BY <2>2, <2>3, <2>4
<1> QED BY <1>1, <1>2

\* Protection depends on the path, acceptance on what authentication has left.
LEMMA SameRequest ==
    ASSUME NEW r \in Requests, req'[r].path = req[r].path, UNCHANGED settings
    PROVE  /\ Protected(r)' <=> Protected(r)
           /\ ExpectedHeaders(req[r].path)' = ExpectedHeaders(req[r].path)
           /\ req'[r].tenant = req[r].tenant /\ req'[r].scopes = req[r].scopes =>
                 (Accepted(r)' <=> Accepted(r))
           /\ req'[r].limit = req[r].limit => HeadersFor(r)' = HeadersFor(r)
  BY Zenon DEF Protected, Accepted, ExpectedHeaders, HeadersFor

\* Nothing is answered and nothing booked.
LEMMA BooksKeep ==
    ASSUME BooksMatchAnswers, UNCHANGED <<metrics, audit, answered>>
    PROVE  BooksMatchAnswers'
  BY DEF BooksMatchAnswers, AuditableFrom

-----------------------------------------------------------------------------
(* Windows *)

Charged == {r \in Requests : req[r].charged # {}}

\* What the limiter has counted stays counted, for the same client.
ClientsKept ==
    \A t \in Requests :
        /\ req'[t].path = req[t].path /\ req'[t].host = req[t].host
        /\ req[t].charged \subseteq req'[t].charged
        /\ req[t].charged # {} => req'[t].tenant = req[t].tenant

\* Two requests of one window come from one client: tenants are not addresses.
LEMMA OneClient ==
    ASSUME TypeOK, NEW q \in Requests, NEW r \in Requests, ClientKey(q) = ClientKey(r)
    PROVE  SameClient(q, r)
<1>1. /\ req[q].path = req[r].path
      /\ (IF req[q].tenant # None THEN req[q].tenant ELSE req[q].host) =
         (IF req[r].tenant # None THEN req[r].tenant ELSE req[r].host)
  BY DEF ClientKey
<1>2. /\ req[q].tenant \in Tenants \cup {None} /\ req[r].tenant \in Tenants \cup {None}
      /\ req[q].host \in Addresses /\ req[r].host \in Addresses
      /\ Tenants \cap Addresses = {} /\ None \notin Tenants
  BY ConstantsAssumption DEF TypeOK, Request
<1> QED BY <1>1, <1>2 DEF SameClient

\* The requests of a window are finitely many.
LEMMA WindowsFinite ==
    ASSUME IsFiniteSet(Charged), NEW store
    PROVE  /\ \A w : IsFiniteSet(InWindow(store, w)) /\ Cardinality(InWindow(store, w)) \in Nat
           /\ \A r : IsFiniteSet(CountedLike(store, r)) /\ Cardinality(CountedLike(store, r)) \in Nat
<1>1. \A w : InWindow(store, w) \subseteq Charged
  BY DEF InWindow, Charged
<1>2. \A r : CountedLike(store, r) \subseteq Charged
  BY DEF CountedLike, Charged
<1> QED BY <1>1, <1>2, FS_Subset, FS_CardinalityType

\* A window never loses a request.
LEMMA WindowsGrow ==
    ASSUME ClientsKept, IsFiniteSet(Charged'), NEW store, NEW w
    PROVE  Cardinality(InWindow(store, w)) <= Cardinality(InWindow(store, w)')
<1>1. InWindow(store, w) \subseteq InWindow(store, w)'
  BY DEF ClientsKept, InWindow, ClientKey
<1>2. IsFiniteSet(InWindow(store, w)')
  <2>1. InWindow(store, w)' \subseteq Charged'
    BY DEF InWindow, Charged
  <2> QED BY <2>1, FS_Subset
<1> QED BY <1>1, <1>2, FS_Subset

\* Nor do those counted before a refusal.
LEMMA CountedGrow ==
    ASSUME ClientsKept, IsFiniteSet(Charged'), NEW store, NEW r \in Requests,
           req'[r].tenant = req[r].tenant
    PROVE  Cardinality(CountedLike(store, r)) <= Cardinality(CountedLike(store, r)')
<1>1. CountedLike(store, r) \subseteq CountedLike(store, r)'
  BY DEF ClientsKept, CountedLike, SameClient
<1>2. IsFiniteSet(CountedLike(store, r)')
  <2>1. CountedLike(store, r)' \subseteq Charged'
    BY DEF CountedLike, Charged
  <2> QED BY <2>1, FS_Subset
<1> QED BY <1>1, <1>2, FS_Subset

\* Refusals are justified as long as each new one is.
LEMMA WindowsKeep ==
    ASSUME IInv, ClientsKept, IsFiniteSet(Charged'), UNCHANGED settings,
           \A t \in Requests : LayerInv(t)',
           \A t \in Requests :
              req'[t].status = 429 =>
                 /\ req'[t].tenant = req[t].tenant
                 /\ \/ req[t].status = 429
                    \/ \E store \in Stores : Cardinality(CountedLike(store, t)) >= settings.limit
    PROVE  WindowBelongsToClient'
<1> SUFFICES ASSUME NEW r \in Requests
             PROVE  /\ req'[r].status = 429 =>
                         \E store \in Stores :
                             Cardinality(CountedLike(store, r)') >= settings'.limit
                    /\ req'[r].charged # {} /\ Protected(r)' => Accepted(r)'
  BY Zenon DEF WindowBelongsToClient
<1>1. ASSUME req'[r].status = 429
      PROVE  \E store \in Stores : Cardinality(CountedLike(store, r)') >= settings'.limit
  <2>1. req'[r].tenant = req[r].tenant
    BY <1>1
  <2>2. PICK store \in Stores : Cardinality(CountedLike(store, r)) >= settings.limit
    BY <1>1, Zenon DEF IInv, WindowBelongsToClient
  <2>3. Cardinality(CountedLike(store, r)) <= Cardinality(CountedLike(store, r)')
    BY <2>1, CountedGrow
  <2>4. /\ Cardinality(CountedLike(store, r)) \in Nat /\ settings.limit \in Int
        /\ Cardinality(CountedLike(store, r)') \in Nat
    <3>1. settings.limit \in Int
      BY ConstantsAssumption DEF IInv, TypeOK, Settings
    <3>2. Cardinality(CountedLike(store, r)) \in Nat
      BY WindowsFinite, Zenon DEF IInv, SpentInv, Charged
    <3>3. Cardinality(CountedLike(store, r)') \in Nat
      <4>1. CountedLike(store, r)' \subseteq Charged'
        BY DEF CountedLike, Charged
      <4> QED BY <4>1, FS_Subset, FS_CardinalityType
    <3> QED BY <3>1, <3>2, <3>3
  <2>5. Cardinality(CountedLike(store, r)') >= settings'.limit
    BY <2>2, <2>3, <2>4
  <2> QED BY <2>5
<1>2. req'[r].charged # {} /\ Protected(r)' => Accepted(r)'
  <2>1. LayerInv(r)'
    OBVIOUS
  <2> QED BY <2>1, Zenon DEF LayerInv
<1> QED BY <1>1, <1>2

\* A store that only forgets holds no more than it has counted.
LEMMA SpentKeeps ==
    ASSUME IInv, ClientsKept, IsFiniteSet(Charged'),
           spent' \in [Stores -> [Clients \X Paths -> Nat]],
           \A store \in Stores, w \in Clients \X Paths : spent'[store][w] <= spent[store][w]
    PROVE  SpentInv'
<1> SUFFICES ASSUME NEW store \in Stores, NEW w \in Clients \X Paths
             PROVE  spent'[store][w] <= Cardinality(InWindow(store, w)')
  BY Zenon DEF SpentInv, Charged
<1>1. spent[store][w] <= Cardinality(InWindow(store, w))
  BY DEF IInv, SpentInv
<1>2. Cardinality(InWindow(store, w)) <= Cardinality(InWindow(store, w)')
  BY WindowsGrow
<1>3. Cardinality(InWindow(store, w)) \in Nat
  BY WindowsFinite, Zenon DEF IInv, SpentInv, Charged
<1>4. Cardinality(InWindow(store, w)') \in Nat
  <2>1. InWindow(store, w)' \subseteq Charged'
    BY DEF InWindow, Charged
  <2> QED BY <2>1, FS_Subset, FS_CardinalityType
<1>5. spent[store][w] \in Nat /\ spent'[store][w] \in Nat
  BY DEF IInv, TypeOK
<1> QED BY <1>1, <1>2, <1>3, <1>4, <1>5

LEMMA SpentStays ==
    ASSUME IInv, ClientsKept, spent' = spent
    PROVE  /\ spent' \in [Stores -> [Clients \X Paths -> Nat]]
           /\ IsFiniteSet(Charged') => SpentInv'
<1>1. spent \in [Stores -> [Clients \X Paths -> Nat]]
  BY DEF IInv, TypeOK
<1>2. ASSUME NEW store \in Stores, NEW w \in Clients \X Paths
      PROVE  spent'[store][w] <= spent[store][w]
  <2>1. spent[store][w] \in Nat
    BY <1>1
  <2> QED BY <2>1
<1> QED BY <1>1, <1>2, SpentKeeps

\* A row of the usage log: of a written task, with a key of its tenant, and the only
\* one of its request.
RowInv(i) ==
    /\ task[usage[i].req] = "written" /\ usage[i] = UsageOf(usage[i].req)
    /\ \E k \in Keys : k.id = usage[i].key /\ k.tenant = usage[i].tenant
    /\ \A j \in DOMAIN usage : usage[j].req = usage[i].req => j = i

\* A usage task begins with the answer, for a request with a key.
TaskInv(r) ==
    /\ req[r].pc = "done" => (req[r].tenant # None <=> task[r] # "none")
    /\ task[r] # "none" => req[r].pc = "done"
    /\ task[r] = "written" => \E i \in DOMAIN usage : usage[i].req = r

LEMMA EachUsage ==
    UsageFollowsKey <=> (\A r \in Requests : TaskInv(r)) /\ (\A i \in DOMAIN usage : RowInv(i))
  BY Zenon DEF UsageFollowsKey, TaskInv, RowInv

\* Rows are of requests.
LEMMA RowsTyped ==
    ASSUME TypeOK
    PROVE  /\ DOMAIN usage = 1..Len(usage) /\ Len(usage) \in Nat
           /\ \A i \in DOMAIN usage : usage[i] \in UsageRow /\ usage[i].req \in Requests
<1>1. usage \in Seq(UsageRow) /\ DOMAIN usage = 1..Len(usage) /\ Len(usage) \in Nat
  BY LenProperties DEF TypeOK
<1>2. \A i \in DOMAIN usage : usage[i] \in UsageRow
  BY <1>1, ElementOfSeq
<1> QED BY <1>1, <1>2 DEF UsageRow

\* Rows stay as long as their requests do.
LEMMA RowsKeep ==
    ASSUME IInv, usage' = usage,
           \A p \in Requests : task[p] = "written" =>
              task'[p] = "written" /\ UsageOf(p)' = UsageOf(p)
    PROVE  \A i \in DOMAIN usage' : RowInv(i)'
<1> SUFFICES ASSUME NEW i \in DOMAIN usage' PROVE RowInv(i)'
  OBVIOUS
<1>1. i \in DOMAIN usage /\ RowInv(i)
  BY EachUsage DEF IInv
<1>2. PICK p \in Requests : p = usage[i].req
  BY <1>1, RowsTyped DEF IInv
<1>3. task'[p] = "written" /\ UsageOf(p)' = UsageOf(p) /\ usage[i] = UsageOf(p)
  BY <1>1, <1>2 DEF RowInv
<1>4. UsageOf(usage[i].req)' = UsageOf(p)'
  BY <1>2 DEF UsageOf
<1> QED BY <1>1, <1>2, <1>3, <1>4 DEF RowInv

\* No usage is logged before a request is answered.
LEMMA UsageKeeps ==
    ASSUME IInv, NEW r \in Requests, NEW q \in Request, Becomes(r, q),
           UNCHANGED settings, UNCHANGED <<task, usage>>, req[r].pc # "done", q.pc # "done"
    PROVE  UsageFollowsKey'
<1>1. /\ req'[r] = q
      /\ \A p \in Requests \ {r} : req'[p] = req[p] /\ UsageOf(p)' = UsageOf(p)
  BY OthersKeep DEF IInv
<1>2. task[r] = "none"
  BY DEF IInv, UsageFollowsKey
<1>3. \A i \in DOMAIN usage' : RowInv(i)'
  BY <1>1, <1>2, RowsKeep
<1>4. \A p \in Requests : TaskInv(p)'
  BY <1>1, <1>2, EachUsage DEF IInv, TaskInv
<1> QED BY <1>3, <1>4, Zenon DEF UsageFollowsKey, TaskInv, RowInv

-----------------------------------------------------------------------------
(* Steps of the layers *)

\* A step of one of the layers on the request r, which becomes q.  It may be counted
\* by a store, and refused where the store has no room.
LEMMA LayerStep ==
    ASSUME IInv, NEW r \in Requests, NEW q \in Request,
           Becomes(r, q),
           UNCHANGED settings, unchangedBooks,
           spent' \in [Stores -> [Clients \X Paths -> Nat]],
           req[r].pc # "done", q.pc # "done",
           q.path = req[r].path, q.host = req[r].host, req[r].charged \subseteq q.charged,
           req[r].charged # {} => q.tenant = req[r].tenant,
           q.status = 429 =>
              /\ q.tenant = req[r].tenant
              /\ \/ req[r].status = 429
                 \/ \E store \in Stores : Cardinality(CountedLike(store, r)) >= settings.limit,
           IsFiniteSet(Charged') => SpentInv',
           LayerInv(r)', AnswerInv(r)'
    PROVE  IInv'
<1>1. /\ req' \in [Requests -> Request] /\ req'[r] = q
      /\ \A p \in Requests \ {r} :
            req'[p] = req[p] /\ LayerInv(p)' /\ AnswerInv(p)'
  BY OthersKeep, EachAnswer DEF IInv
<1>2. TypeOK'
  BY <1>1 DEF IInv, TypeOK, unchangedBooks
<1>3. \A p \in Requests : LayerInv(p)'
  BY <1>1
<1>4. AnswersShowTheirLayer'
  <2>1. \A p \in Requests : AnswerInv(p)'
    BY <1>1
  <2> QED BY <2>1, Zenon DEF AnswersShowTheirLayer, AnswerInv
<1>5. IsFiniteSet(Charged')
  <2>1. IsFiniteSet(Charged \cup {r})
    BY FS_AddElement, Zenon DEF IInv, SpentInv, Charged
  <2>2. Charged' \subseteq Charged \cup {r}
    BY <1>1 DEF Charged
  <2> QED BY <2>1, <2>2, FS_Subset
<1>6. ClientsKept
  BY <1>1 DEF ClientsKept
<1>7. WindowBelongsToClient'
  <2>1. ASSUME NEW t \in Requests, req'[t].status = 429
        PROVE  /\ req'[t].tenant = req[t].tenant
               /\ \/ req[t].status = 429
                  \/ \E store \in Stores : Cardinality(CountedLike(store, t)) >= settings.limit
    <3>1. CASE t = r
      BY <1>1, <2>1, <3>1, Zenon
    <3>2. CASE t # r
      <4>1. req'[t] = req[t]
        BY <1>1, <3>2
      <4> QED BY <2>1, <4>1
    <3> QED BY <3>1, <3>2
  <2> QED BY <1>3, <1>5, <1>6, <2>1, WindowsKeep
<1>8. BooksMatchAnswers'
  BY BooksKeep DEF IInv, unchangedBooks
<1>9. UsageFollowsKey'
  BY UsageKeeps DEF unchangedBooks
<1> QED BY <1>2, <1>3, <1>4, <1>5, <1>7, <1>8, <1>9 DEF IInv

\* A step on r that the limiter does not count.
LEMMA InnerStep ==
    ASSUME IInv, NEW r \in Requests, NEW q \in Request,
           Becomes(r, q),
           UNCHANGED <<settings, spent>>, unchangedBooks,
           req[r].pc # "done", q.pc # "done",
           q.path = req[r].path, q.host = req[r].host, q.charged = req[r].charged,
           req[r].charged # {} => q.tenant = req[r].tenant,
           q.status # 429, LayerInv(r)', AnswerInv(r)'
    PROVE  IInv'
<1> settings' = settings /\ spent' = spent
  OBVIOUS
<1>1. /\ req'[r] = q /\ \A p \in Requests \ {r} : req'[p] = req[p]
  BY Written, RequestType
<1>2. ClientsKept
  BY <1>1 DEF ClientsKept
<1>3. /\ spent' \in [Stores -> [Clients \X Paths -> Nat]]
      /\ IsFiniteSet(Charged') => SpentInv'
  BY <1>2, SpentStays
<1> QED BY <1>3, LayerStep

LEMMA ArriveKeeps == ASSUME IInv, NEW r \in Requests, Arrive(r) PROVE IInv'
<1> DEFINE q == [req[r] EXCEPT !.pc = "auth"]
<1>1. /\ req[r].pc = "new" /\ UNCHANGED <<settings, spent>> /\ unchangedBooks
      /\ Becomes(r, q) /\ req'[r] = q
  BY RequestType DEF Arrive, Becomes
<1>2. /\ q \in Request /\ q.pc = "auth" /\ q.path = req[r].path /\ q.host = req[r].host
      /\ q.tenant = req[r].tenant /\ q.charged = req[r].charged /\ q.status = req[r].status
      /\ q.served = req[r].served /\ q.headers = req[r].headers
  BY <1>1, RequestType DEF Request
<1> HIDE DEF q
<1>3. LayerInv(r) /\ q.status = 500
  BY <1>1, <1>2 DEF IInv, LayerInv
<1>4. LayerInv(r)' /\ AnswerInv(r)'
  BY <1>1, <1>2, <1>3 DEF LayerInv, AnswerInv
<1>5. req[r].pc # "done" /\ q.pc # "done" /\ q.status # 429
  BY <1>1, <1>2, <1>3
<1> QED BY <1>1, <1>2, <1>4, <1>5, InnerStep

LEMMA SkipAuthKeeps == ASSUME IInv, NEW r \in Requests, SkipAuth(r) PROVE IInv'
<1> DEFINE q == [req[r] EXCEPT !.pc = "limit"]
<1>1. /\ req[r].pc = "auth" /\ UNCHANGED <<settings, spent>> /\ unchangedBooks
      /\ Becomes(r, q) /\ req'[r] = q /\ ~Protected(r)
  BY RequestType DEF SkipAuth, Becomes
<1>2. /\ q \in Request /\ q.pc = "limit" /\ q.path = req[r].path /\ q.host = req[r].host
      /\ q.tenant = req[r].tenant /\ q.charged = req[r].charged /\ q.status = req[r].status
      /\ q.served = req[r].served /\ q.headers = req[r].headers
  BY <1>1, RequestType DEF Request
<1> HIDE DEF q
<1>3. LayerInv(r) /\ q.status = 500
  BY <1>1, <1>2 DEF IInv, LayerInv
<1>4. ~Protected(r)'
  BY <1>1, <1>2 DEF Protected
<1>5. LayerInv(r)' /\ AnswerInv(r)'
  <2>1. LayerInv(r)'
    BY <1>1, <1>2, <1>3, <1>4 DEF LayerInv
  <2>2. AnswerInv(r)'
    BY <1>1, <1>2, <1>3, <1>4 DEF LayerInv, AnswerInv
  <2> QED BY <2>1, <2>2
<1>6. req[r].pc # "done" /\ q.pc # "done" /\ q.status # 429
  BY <1>1, <1>2, <1>3
<1> QED BY <1>1, <1>2, <1>3, <1>5, <1>6, InnerStep

LEMMA RefuseTokenKeeps == ASSUME IInv, NEW r \in Requests, RefuseToken(r) PROVE IInv'
<1> DEFINE status == 401
           q == [req[r] EXCEPT !.pc = "leave", !.status = status]
<1>1. /\ req[r].pc = "auth" /\ UNCHANGED <<settings, spent>> /\ unchangedBooks
      /\ req' = [req EXCEPT ![r].pc = "leave", ![r].status = status]
      /\ status = 401 /\ status \in Status
  BY DEF RefuseToken, Refuse, Status
<1> HIDE DEF status
<1>2. Becomes(r, q) /\ req'[r] = q
  <2>1. req \in [Requests -> Request]
    BY RequestType
  <2>2. req' = [req EXCEPT ![r].pc = "leave", ![r].status = status]
    BY <1>1
  <2> QED BY <2>1, <2>2 DEF Becomes
<1>3. /\ q \in Request /\ q.pc = "leave" /\ q.path = req[r].path /\ q.host = req[r].host
      /\ q.tenant = req[r].tenant /\ q.charged = req[r].charged /\ q.status = 401
      /\ q.served = req[r].served /\ q.headers = req[r].headers
  <2>1. req[r] \in Request
    BY RequestType
  <2>2. status \in Status
    BY <1>1
  <2>3. q \in Request
    BY <2>1, <2>2 DEF Request
  <2> QED BY <1>1, <2>1, <2>3 DEF Request
<1> HIDE DEF q
<1>4. /\ req[r].charged = {} /\ req[r].tenant = None
      /\ req[r].served = "no" /\ req[r].headers = "absent"
  BY <1>1 DEF IInv, LayerInv
<1>5. LayerInv(r)' /\ AnswerInv(r)'
  <2>1. LayerInv(r)'
    BY <1>2, <1>3, <1>4 DEF LayerInv
  <2>2. AnswerInv(r)'
    BY <1>1, <1>2, <1>3, <1>4 DEF LayerInv, AnswerInv
  <2> QED BY <2>1, <2>2
<1>6. req[r].pc # "done" /\ q.pc # "done" /\ q.status # 429
  BY <1>1, <1>3
<1> QED BY <1>1, <1>2, <1>3, <1>5, <1>6, InnerStep

\* The layers inside a protected path are reached with a key that has its scope.
LEMMA AcceptTokenKeeps == ASSUME IInv, NEW r \in Requests, AcceptToken(r) PROVE IInv'
<1>1. PICK k \in Keys :
         LET allowed == Allowed(k.scopes, req[r].path) IN
         req' = [req EXCEPT ![r].tenant = k.tenant,
                            ![r].key    = k.id,
                            ![r].scopes = k.scopes,
                            ![r].pc     = IF allowed THEN "limit" ELSE "leave",
                            ![r].status = IF allowed THEN @ ELSE 403]
  BY DEF AcceptToken
<1> DEFINE allowed == Allowed(k.scopes, req[r].path)
           pc == IF allowed THEN "limit" ELSE "leave"
           status == IF allowed THEN req[r].status ELSE 403
           q == [req[r] EXCEPT !.tenant = k.tenant, !.key = k.id, !.scopes = k.scopes,
                               !.pc = pc, !.status = status]
<1>2. /\ req \in [Requests -> Request] /\ req[r] \in Request
      /\ k.tenant \in Tenants /\ k.tenant # None /\ k.id \in KeyIds
      /\ k.scopes \in SUBSET {"read", "write", "admin"}
      /\ req[r].pc = "auth" /\ ~req[r].preflight
      /\ UNCHANGED <<settings, spent>> /\ unchangedBooks
  BY ConstantsAssumption, RequestType DEF Key, AcceptToken
<1>3. LayerInv(r)
  BY DEF IInv
<1>4. /\ pc \in {"limit", "leave"} /\ (pc = "limit" => allowed)
      /\ status = IF pc = "limit" THEN 500 ELSE 403
      /\ status \in Status
  BY <1>2, <1>3 DEF LayerInv, Status
<1>5. req' = [req EXCEPT ![r].tenant = k.tenant, ![r].key = k.id, ![r].scopes = k.scopes,
                         ![r].pc = pc, ![r].status = status]
  BY <1>1, <1>2
<1> HIDE DEF allowed, pc, status
<1>6. Becomes(r, q) /\ req'[r] = q
  BY <1>2, <1>5 DEF Becomes
<1>7. /\ q \in Request /\ q.pc = pc /\ q.tenant = k.tenant /\ q.scopes = k.scopes
      /\ q.key = k.id /\ q.path = req[r].path /\ q.host = req[r].host
      /\ q.charged = req[r].charged /\ q.served = req[r].served
      /\ q.headers = req[r].headers /\ q.status = status /\ q.preflight = req[r].preflight
  <2>1. /\ req[r] \in Request /\ k.tenant \in Tenants /\ k.id \in KeyIds
        /\ k.scopes \in SUBSET {"read", "write", "admin"}
        /\ pc \in {"limit", "leave"} /\ status \in Status
    BY <1>2, <1>4
  <2>2. q \in Request
    BY <2>1 DEF Request
  <2> QED BY <2>1, <2>2 DEF Request
<1> HIDE DEF q
<1>8. pc = "limit" => Accepted(r)'
  BY <1>2, <1>4, <1>6, <1>7 DEF Accepted, allowed
<1>9. LayerInv(r)' /\ AnswerInv(r)'
  BY <1>2, <1>3, <1>4, <1>6, <1>7, <1>8 DEF LayerInv, AnswerInv
<1>10. /\ req[r].charged = {} /\ q.status # 429 /\ q.pc # "done" /\ req[r].pc # "done"
  BY <1>2, <1>3, <1>4, <1>7 DEF LayerInv
<1>11. req[r].charged # {} => q.tenant = req[r].tenant
  BY <1>10
<1>12. /\ q \in Request /\ UNCHANGED <<settings, spent>> /\ unchangedBooks
       /\ q.path = req[r].path /\ q.host = req[r].host /\ q.charged = req[r].charged
  BY <1>2, <1>7
<1> QED BY <1>6, <1>9, <1>10, <1>11, <1>12, InnerStep, Zenon

LEMMA SkipLimitKeeps == ASSUME IInv, NEW r \in Requests, SkipLimit(r) PROVE IInv'
<1> DEFINE limit == IF settings.limiter /\ ~Public(req[r].path) THEN "unlimited" ELSE "unset"
           q == [req[r] EXCEPT !.pc = "app", !.limit = limit]
<1>1. /\ req[r].pc = "limit" /\ UNCHANGED <<settings, spent>> /\ unchangedBooks
      /\ Becomes(r, q) /\ req'[r] = q
      /\ limit \in {"unset", "unlimited"}
  BY RequestType DEF SkipLimit, Becomes
<1>2. \/ limit = "unset" /\ ExpectedHeaders(req[r].path) = "zero"
      \/ limit = "unlimited" /\ ExpectedHeaders(req[r].path) = "unlimited"
  BY DEF ExpectedHeaders, SkipLimit
<1> HIDE DEF limit
<1>3. /\ q \in Request /\ q.pc = "app" /\ q.path = req[r].path /\ q.host = req[r].host
      /\ q.tenant = req[r].tenant /\ q.charged = req[r].charged /\ q.status = req[r].status
      /\ q.served = req[r].served /\ q.headers = req[r].headers /\ q.scopes = req[r].scopes
      /\ q.key = req[r].key /\ q.preflight = req[r].preflight /\ q.limit = limit
  <2>1. req[r] \in Request
    BY RequestType
  <2>2. q \in Request
    BY <1>1, <2>1 DEF Request
  <2> QED BY <2>1, <2>2 DEF Request
<1> HIDE DEF q
<1>4. LayerInv(r) /\ q.status = 500
  BY <1>1, <1>3 DEF IInv, LayerInv
<1>5. (Protected(r)' <=> Protected(r)) /\ (Accepted(r)' <=> Accepted(r))
  BY <1>1, <1>3, SameRequest
<1>6. HeadersFor(r)' = ExpectedHeaders(req[r].path)'
  BY <1>1, <1>2, <1>3 DEF HeadersFor, ExpectedHeaders
<1>7. LayerInv(r)' /\ AnswerInv(r)'
  BY <1>1, <1>3, <1>4, <1>5, <1>6 DEF LayerInv, AnswerInv
<1>8. req[r].pc # "done" /\ q.pc # "done" /\ q.status # 429
  BY <1>1, <1>3, <1>4
<1> QED BY <1>1, <1>3, <1>7, <1>8, InnerStep

-----------------------------------------------------------------------------
(* The limiter *)

\* What only the layers before the limiter write.
SameFields(q, x) ==
    /\ q.path = x.path /\ q.host = x.host /\ q.tenant = x.tenant
    /\ q.key = x.key /\ q.scopes = x.scopes /\ q.preflight = x.preflight

\* What a request has with it while the limiter decides.
AtLimiter(r) ==
    /\ req[r].pc \in {"limit", "fallback"}
    /\ settings.limiter /\ ~Public(req[r].path) /\ settings.limit > 0

LEMMA AtLimiterFacts ==
    ASSUME IInv, NEW r \in Requests, Limited(r) \/ req[r].pc = "fallback"
    PROVE  /\ AtLimiter(r) /\ LayerInv(r) /\ req[r] \in Request
           /\ "memory" \notin req[r].charged
           /\ req[r].pc = "limit" => req[r].charged = {}
           /\ ExpectedHeaders(req[r].path) = "counted"
           /\ ClientKey(r) \in Clients \X Paths
<1>1. LayerInv(r) /\ req[r] \in Request
  BY RequestType DEF IInv
<1>2. /\ req[r].pc \in {"limit", "fallback"} /\ settings.limiter /\ ~Public(req[r].path)
      /\ settings.limit > 0 /\ "memory" \notin req[r].charged
      /\ req[r].pc = "limit" => req[r].charged = {}
  BY <1>1 DEF LayerInv, Limited
<1>3. settings.limit \in Int
  BY ConstantsAssumption DEF IInv, TypeOK, Settings
<1>4. ExpectedHeaders(req[r].path) = "counted"
  BY <1>2, <1>3 DEF ExpectedHeaders
<1>5. ClientKey(r) \in Clients \X Paths
  BY <1>1 DEF ClientKey, Clients, Request
<1> QED BY <1>1, <1>2, <1>4, <1>5 DEF AtLimiter

\* What becomes of it.
Outcome(r, q) ==
    \/ q.pc = "fallback" /\ "memory" \notin q.charged /\ q.status = 500
    \/ q.pc = "app" /\ q.limit = "counted" /\ q.status = 500
    \/ /\ q.pc = "leave" /\ q.status = 429
       /\ \E store \in Stores : Cardinality(CountedLike(store, r)) >= settings.limit

\* Whatever the limiter does with a request, it takes nothing of what authentication
\* has left.
LEMMA LimiterStep ==
    ASSUME IInv, NEW r \in Requests, Limited(r) \/ req[r].pc = "fallback",
           NEW q \in Request, Becomes(r, q),
           SameFields(q, req[r]), q.served = req[r].served, q.headers = req[r].headers,
           UNCHANGED settings, unchangedBooks,
           spent' \in [Stores -> [Clients \X Paths -> Nat]],
           req[r].charged \subseteq q.charged,
           Outcome(r, q),
           IsFiniteSet(Charged') => SpentInv'
    PROVE  IInv'
<1>1. /\ AtLimiter(r) /\ LayerInv(r) /\ ExpectedHeaders(req[r].path) = "counted"
      /\ q.path = req[r].path /\ q.host = req[r].host /\ q.tenant = req[r].tenant
      /\ q.key = req[r].key /\ q.scopes = req[r].scopes /\ q.preflight = req[r].preflight
  BY AtLimiterFacts DEF SameFields
<1>2. req'[r] = q
  BY Written, RequestType
<1>3. /\ Protected(r)' <=> Protected(r)
      /\ Accepted(r)' <=> Accepted(r)
      /\ ExpectedHeaders(req[r].path)' = "counted"
  BY <1>1, <1>2, SameRequest
<1>4. q.pc = "app" => HeadersFor(r)' = "counted"
  BY <1>2 DEF HeadersFor, Outcome
<1>5. /\ req[r].pc \in {"limit", "fallback"}
      /\ settings.limiter /\ ~Public(req[r].path) /\ settings.limit > 0
      /\ req[r].served = "no" /\ req[r].headers = "absent"
      /\ Protected(r) => Accepted(r) /\ ~req[r].preflight
      /\ req[r].tenant # None => \E k \in Keys : k.id = req[r].key /\ k.tenant = req[r].tenant
  BY <1>1 DEF AtLimiter, LayerInv
<1>6. LayerInv(r)'
  BY <1>1, <1>2, <1>3, <1>4, <1>5 DEF LayerInv, Outcome
<1>7. AnswerInv(r)'
  BY <1>1, <1>2, <1>3, <1>5 DEF AnswerInv, Outcome
<1>8. /\ req[r].pc # "done" /\ q.pc # "done"
      /\ q.status = 429 =>
            /\ q.tenant = req[r].tenant
            /\ \/ req[r].status = 429
               \/ \E store \in Stores : Cardinality(CountedLike(store, r)) >= settings.limit
  BY <1>1, <1>5 DEF Outcome
<1> QED BY <1>1, <1>6, <1>7, <1>8, LayerStep

\* A store that holds another number of entries.
LEMMA HoldStep ==
    ASSUME IInv, NEW r \in Requests, NEW store \in Stores, NEW n \in Nat,
           ClientKey(r) \in Clients \X Paths, Hold(store, r, n)
    PROVE  /\ spent' \in [Stores -> [Clients \X Paths -> Nat]]
           /\ spent'[store][ClientKey(r)] = n
           /\ \A s \in Stores, w \in Clients \X Paths :
                 s # store \/ w # ClientKey(r) => spent'[s][w] = spent[s][w]
<1> DEFINE W == Clients \X Paths
           w0 == ClientKey(r)
<1>1. /\ spent \in [Stores -> [W -> Nat]] /\ w0 \in W
      /\ spent' = [spent EXCEPT ![store] = [spent[store] EXCEPT ![w0] = n]]
  BY DEF IInv, TypeOK, Hold
<1> HIDE DEF W, w0
<1>2. [spent[store] EXCEPT ![w0] = n] \in [W -> Nat]
  BY <1>1
<1>3. /\ spent' \in [Stores -> [W -> Nat]]
      /\ spent'[store] = [spent[store] EXCEPT ![w0] = n]
      /\ \A s \in Stores : s # store => spent'[s] = spent[s]
  BY <1>1, <1>2
<1>4. spent'[store][w0] = n /\ \A w \in W : w # w0 => spent'[store][w] = spent[store][w]
  BY <1>1, <1>3
<1> QED BY <1>3, <1>4 DEF W, w0

\* A store that counts a request has one request more to answer for.
LEMMA CountStep ==
    ASSUME IInv, NEW r \in Requests, NEW store \in Stores, Count(store, r),
           Limited(r) \/ req[r].pc = "fallback",
           store \notin req[r].charged, store \in req'[r].charged,
           ClientKey(r)' = ClientKey(r), ClientsKept
    PROVE  /\ spent' \in [Stores -> [Clients \X Paths -> Nat]]
           /\ IsFiniteSet(Charged') => SpentInv'
<1> DEFINE w0 == ClientKey(r)
<1>1. w0 \in Clients \X Paths /\ spent \in [Stores -> [Clients \X Paths -> Nat]]
  BY AtLimiterFacts DEF IInv, TypeOK
<1>2. spent[store][w0] \in Nat
  BY <1>1
<1>3. PICK n \in Left(store, r) :
         /\ n < settings.limit
         /\ Hold(store, r, n + 1) \/ (store = "redis" /\ n > 0 /\ Hold(store, r, n))
  BY DEF Count
<1>4. PICK m \in Nat : m <= spent[store][w0] + 1 /\ Hold(store, r, m)
  <2>1. n \in Nat /\ n <= spent[store][w0]
    BY <1>2 DEF Left
  <2>2. CASE Hold(store, r, n + 1)
    BY <2>1, <1>2, <2>2
  <2>3. CASE Hold(store, r, n)
    BY <2>1, <1>2, <2>3
  <2> QED BY <1>3, <2>2, <2>3
<1>5. /\ spent' \in [Stores -> [Clients \X Paths -> Nat]]
      /\ spent'[store][w0] = m
      /\ \A s \in Stores, w \in Clients \X Paths :
            s # store \/ w # w0 => spent'[s][w] = spent[s][w]
  BY <1>1, <1>4, HoldStep
<1>6. ASSUME IsFiniteSet(Charged'), NEW s \in Stores, NEW w \in Clients \X Paths
      PROVE  spent'[s][w] <= Cardinality(InWindow(s, w)')
  <2>1. /\ spent[s][w] \in Nat /\ spent[s][w] <= Cardinality(InWindow(s, w))
        /\ IsFiniteSet(InWindow(s, w)) /\ Cardinality(InWindow(s, w)) \in Nat
    <3>1. spent[s][w] \in Nat
      BY <1>1
    <3>2. IsFiniteSet(InWindow(s, w)) /\ Cardinality(InWindow(s, w)) \in Nat
      BY WindowsFinite, Zenon DEF IInv, SpentInv, Charged
    <3> QED BY <3>1, <3>2 DEF IInv, SpentInv
  <2>2. IsFiniteSet(InWindow(s, w)') /\ Cardinality(InWindow(s, w)') \in Nat
    <3>1. InWindow(s, w)' \subseteq Charged'
      BY DEF InWindow, Charged
    <3> QED BY <1>6, <3>1, FS_Subset, FS_CardinalityType
  <2>3. CASE s = store /\ w = w0
    <3>1. r \notin InWindow(s, w) /\ r \in InWindow(s, w)'
      BY <2>3 DEF InWindow
    <3>2. InWindow(s, w) \subseteq InWindow(s, w)'
      BY DEF InWindow, ClientsKept, ClientKey
    <3>3. Cardinality(InWindow(s, w) \cup {r}) = Cardinality(InWindow(s, w)) + 1
      BY <2>1, <3>1, FS_AddElement
    <3>4. InWindow(s, w) \cup {r} \subseteq InWindow(s, w)'
      BY <3>1, <3>2
    <3>5. Cardinality(InWindow(s, w) \cup {r}) <= Cardinality(InWindow(s, w)')
      BY <2>2, <3>4, FS_Subset
    <3> QED BY <1>4, <1>5, <2>1, <2>2, <2>3, <3>3, <3>5
  <2>4. CASE ~(s = store /\ w = w0)
    <3>1. spent'[s][w] = spent[s][w]
      BY <1>5, <2>4
    <3>2. Cardinality(InWindow(s, w)) <= Cardinality(InWindow(s, w)')
      BY <1>6, WindowsGrow
    <3> QED BY <2>1, <2>2, <3>1, <3>2
  <2> QED BY <2>3, <2>4
<1>7. IsFiniteSet(Charged') => SpentInv'
  BY <1>6, Zenon DEF SpentInv, Charged
<1> QED BY <1>5, <1>7

\* A store that refuses holds as many entries as the limit, all of the client's own
\* requests.
LEMMA RefuseKeeps ==
    ASSUME IInv, NEW r \in Requests, NEW store \in Stores,
           Limited(r) \/ req[r].pc = "fallback", store \notin req[r].charged,
           RefuseOverLimit(store, r), UNCHANGED settings, unchangedBooks
    PROVE  IInv'
<1> DEFINE w0 == ClientKey(r)
<1>1. /\ req[r] \in Request /\ w0 \in Clients \X Paths
      /\ req \in [Requests -> Request] /\ spent \in [Stores -> [Clients \X Paths -> Nat]]
      /\ settings.limit \in Int
  BY AtLimiterFacts, ConstantsAssumption DEF IInv, TypeOK, Settings
<1> DEFINE status == 429
           q == [req[r] EXCEPT !.limit = "counted", !.pc = "leave", !.status = status]
<1>4. status = 429 /\ status \in Status
  BY DEF Status
<1> req' = [req EXCEPT ![r].limit = "counted", ![r].pc = "leave", ![r].status = status]
  BY DEF RefuseOverLimit
<1> HIDE DEF status
<1>2. Becomes(r, q) /\ req'[r] = q /\ \A t \in Requests \ {r} : req'[t] = req[t]
  BY <1>1 DEF Becomes
<1>3. /\ q \in Request /\ SameFields(q, req[r]) /\ q.charged = req[r].charged
      /\ q.served = req[r].served /\ q.headers = req[r].headers
      /\ q.pc = "leave" /\ q.status = status
  <2>1. req[r] \in Request /\ status \in Status
    BY <1>1, <1>4
  <2>2. q \in Request
    BY <2>1 DEF Request
  <2> QED BY <2>1, <2>2 DEF Request, SameFields
<1> HIDE DEF q
<1>5. PICK n \in Left(store, r) : n >= settings.limit /\ Hold(store, r, n)
  BY DEF RefuseOverLimit
<1>6. spent[store][w0] \in Nat /\ n \in Nat /\ n <= spent[store][w0]
  BY <1>1 DEF Left
<1>7. /\ spent' \in [Stores -> [Clients \X Paths -> Nat]]
      /\ spent'[store][w0] = n
      /\ \A s \in Stores, w \in Clients \X Paths :
            s # store \/ w # w0 => spent'[s][w] = spent[s][w]
  BY <1>1, <1>5, <1>6, HoldStep
<1>8. ClientsKept
  BY <1>2, <1>3 DEF ClientsKept, SameFields
<1>9. \A s \in Stores, w \in Clients \X Paths : spent'[s][w] <= spent[s][w]
  <2>1. \A s \in Stores, w \in Clients \X Paths : spent[s][w] \in Nat
    BY <1>1
  <2> QED BY <1>6, <1>7, <2>1
<1>10. Cardinality(CountedLike(store, r)) >= settings.limit
  <2>1. InWindow(store, w0) \subseteq CountedLike(store, r)
    BY OneClient DEF InWindow, CountedLike, IInv
  <2>2. IsFiniteSet(Charged)
    BY DEF IInv, SpentInv, Charged
  <2>3. /\ IsFiniteSet(CountedLike(store, r)) /\ Cardinality(CountedLike(store, r)) \in Nat
        /\ Cardinality(InWindow(store, w0)) \in Nat
    BY <2>2, WindowsFinite
  <2>4. Cardinality(InWindow(store, w0)) <= Cardinality(CountedLike(store, r))
    BY <2>1, <2>3, FS_Subset
  <2>5. spent[store][w0] <= Cardinality(InWindow(store, w0))
    BY <1>1 DEF IInv, SpentInv
  <2> QED BY <1>1, <1>5, <1>6, <2>3, <2>4, <2>5
<1>11. IsFiniteSet(Charged') => SpentInv'
  BY <1>7, <1>8, <1>9, SpentKeeps
<1>12. Outcome(r, q) /\ req[r].charged \subseteq q.charged
  BY <1>3, <1>4, <1>10 DEF Outcome
<1> QED BY <1>2, <1>3, <1>7, <1>11, <1>12, LimiterStep

\* A store that admits a request counts it in the window of its client.
LEMMA CountedStep ==
    ASSUME IInv, NEW r \in Requests, NEW store \in Stores,
           Limited(r) \/ req[r].pc = "fallback", store \notin req[r].charged,
           Count(store, r), UNCHANGED settings, unchangedBooks,
           NEW q \in Request, Becomes(r, q),
           SameFields(q, req[r]), q.served = req[r].served, q.headers = req[r].headers,
           q.charged = req[r].charged \cup {store}, q.status = 500,
           \/ q.pc = "fallback" /\ store # "memory"
           \/ q.pc = "app" /\ q.limit = "counted"
    PROVE  IInv'
<1>0. req'[r] = q /\ \A t \in Requests \ {r} : req'[t] = req[t]
  BY Written, RequestType
<1>1. "memory" \notin req[r].charged
  BY AtLimiterFacts
<1>2. ClientsKept
  BY <1>0 DEF ClientsKept, SameFields
<1>3. ClientKey(r)' = ClientKey(r)
  BY <1>0 DEF ClientKey, SameFields
<1>4. store \in req'[r].charged
  BY <1>0
<1>5. /\ spent' \in [Stores -> [Clients \X Paths -> Nat]]
      /\ IsFiniteSet(Charged') => SpentInv'
  BY <1>2, <1>3, <1>4, CountStep
<1>6. Outcome(r, q)
  BY <1>1 DEF Outcome
<1>7. req[r].charged \subseteq q.charged
  OBVIOUS
<1> QED BY <1>5, <1>6, <1>7, LimiterStep

\* A request the limiter lets pass uncounted.
LEMMA UncountedStep ==
    ASSUME IInv, NEW r \in Requests, Limited(r) \/ req[r].pc = "fallback",
           UNCHANGED <<settings, spent>>, unchangedBooks,
           NEW q \in Request, Becomes(r, q),
           SameFields(q, req[r]), q.served = req[r].served, q.headers = req[r].headers,
           q.charged = req[r].charged, q.status = 500,
           q.pc = "fallback" \/ (q.pc = "app" /\ q.limit = "counted")
    PROVE  IInv'
<1>0. req'[r] = q /\ \A t \in Requests \ {r} : req'[t] = req[t]
  BY Written, RequestType
<1>1. "memory" \notin req[r].charged
  BY AtLimiterFacts
<1> settings' = settings /\ spent' = spent
  OBVIOUS
<1>2. ClientsKept
  BY <1>0 DEF ClientsKept, SameFields
<1>3. /\ spent' \in [Stores -> [Clients \X Paths -> Nat]]
      /\ IsFiniteSet(Charged') => SpentInv'
  BY <1>2, SpentStays
<1>4. Outcome(r, q)
  BY <1>1 DEF Outcome
<1>5. req[r].charged \subseteq q.charged
  OBVIOUS
<1> QED BY <1>3, <1>4, <1>5, LimiterStep

\* A request that stands before the limiter has no status of its own yet.
LEMMA NoStatusYet ==
    ASSUME IInv, NEW r \in Requests, Limited(r) \/ req[r].pc = "fallback"
    PROVE  req[r].status = 500
  BY DEF IInv, LayerInv, Limited

LEMMA AdmitKeeps ==
    ASSUME IInv, NEW r \in Requests, NEW store \in Stores,
           Limited(r) \/ req[r].pc = "fallback", store \notin req[r].charged,
           Admit(store, r), UNCHANGED settings, unchangedBooks
    PROVE  IInv'
<1>1. req[r] \in Request /\ req \in [Requests -> Request]
  BY RequestType
<1> DEFINE charged == req[r].charged \cup {store}
           q == [req[r] EXCEPT !.limit = "counted", !.charged = charged, !.pc = "app"]
<1>2. /\ Count(store, r) /\ charged \in SUBSET Stores
      /\ req' = [req EXCEPT ![r].limit = "counted", ![r].charged = charged, ![r].pc = "app"]
  BY <1>1 DEF Admit, Request
<1> HIDE DEF charged
<1>3. Becomes(r, q)
  BY <1>1, <1>2 DEF Becomes
<1>4. /\ q \in Request /\ SameFields(q, req[r])
      /\ q.served = req[r].served /\ q.headers = req[r].headers
      /\ q.charged = charged /\ q.status = req[r].status
      /\ q.pc = "app" /\ q.limit = "counted"
  <2>1. q \in Request
    BY <1>1, <1>2 DEF Request
  <2> QED BY <1>1, <2>1 DEF Request, SameFields
<1> HIDE DEF q
<1>5. q.charged = req[r].charged \cup {store}
  BY <1>4 DEF charged
<1>6. q.status = 500
  BY <1>4, NoStatusYet
<1>7. Count(store, r)
  BY <1>2
<1>8. q \in Request /\ q.pc = "app" /\ q.limit = "counted" /\ SameFields(q, req[r])
  BY <1>4
<1> QED BY <1>3, <1>4, <1>5, <1>6, <1>7, <1>8, CountedStep

LEMMA RedisDecidesKeeps == ASSUME IInv, NEW r \in Requests, RedisDecides(r) PROVE IInv'
<1>1. /\ Limited(r) /\ "redis" \in Stores /\ UNCHANGED settings /\ unchangedBooks
      /\ Admit("redis", r) \/ RefuseOverLimit("redis", r)
  BY DEF RedisDecides, Stores
<1>2. "redis" \notin req[r].charged
  BY <1>1, AtLimiterFacts DEF Limited
<1> QED BY <1>1, <1>2, AdmitKeeps, RefuseKeeps

LEMMA MemoryDecidesKeeps == ASSUME IInv, NEW r \in Requests, MemoryDecides(r) PROVE IInv'
<1>1. /\ req[r].pc = "fallback" /\ "memory" \in Stores /\ UNCHANGED settings /\ unchangedBooks
      /\ Admit("memory", r) \/ RefuseOverLimit("memory", r)
  BY DEF MemoryDecides, Stores
<1>2. "memory" \notin req[r].charged
  BY <1>1, AtLimiterFacts
<1> QED BY <1>1, <1>2, AdmitKeeps, RefuseKeeps

LEMMA RedisFailsKeeps == ASSUME IInv, NEW r \in Requests, RedisFails(r) PROVE IInv'
<1>1. /\ Limited(r) /\ UNCHANGED settings /\ unchangedBooks /\ "redis" \in Stores
      /\ req[r] \in Request /\ req \in [Requests -> Request]
  BY AtLimiterFacts DEF RedisFails, Stores, IInv, TypeOK
<1>2. req[r].status = 500 /\ req[r].charged = {}
  BY <1>1, AtLimiterFacts, NoStatusYet DEF Limited
<1>3. CASE UNCHANGED spent /\ req' = [req EXCEPT ![r].pc = "fallback"]
  <2> DEFINE q == [req[r] EXCEPT !.pc = "fallback"]
  <2>1. Becomes(r, q)
    BY <1>1, <1>3 DEF Becomes
  <2>2. /\ q \in Request /\ SameFields(q, req[r])
        /\ q.served = req[r].served /\ q.headers = req[r].headers
        /\ q.charged = req[r].charged /\ q.status = req[r].status /\ q.pc = "fallback"
    <3>1. q \in Request
      BY <1>1 DEF Request
    <3> QED BY <1>1, <3>1 DEF Request, SameFields
  <2> HIDE DEF q
  <2>3. q.status = 500 /\ UNCHANGED <<settings, spent>>
    BY <1>1, <1>2, <1>3, <2>2
  <2>4. Limited(r) /\ unchangedBooks
    BY <1>1
  <2> QED BY <2>1, <2>2, <2>3, <2>4, UncountedStep
<1>4. CASE Count("redis", r) /\ req' = [req EXCEPT ![r].pc = "fallback", ![r].charged = {"redis"}]
  <2> DEFINE q == [req[r] EXCEPT !.pc = "fallback", !.charged = {"redis"}]
  <2>1. Becomes(r, q)
    BY <1>1, <1>4 DEF Becomes
  <2>2. /\ q \in Request /\ SameFields(q, req[r])
        /\ q.served = req[r].served /\ q.headers = req[r].headers
        /\ q.charged = {"redis"} /\ q.status = req[r].status /\ q.pc = "fallback"
    <3>1. {"redis"} \in SUBSET Stores
      BY DEF Stores
    <3>2. q \in Request
      BY <1>1, <3>1 DEF Request
    <3> QED BY <1>1, <3>2 DEF Request, SameFields
  <2> HIDE DEF q
  <2>3. PICK store \in Stores :
           /\ store # "memory" /\ store \notin req[r].charged /\ Count(store, r)
           /\ q.charged = req[r].charged \cup {store}
    BY <1>1, <1>2, <1>4, <2>2
  <2>4. q.status = 500
    BY <1>2, <2>2
  <2>5. Limited(r) /\ UNCHANGED settings /\ unchangedBooks
    BY <1>1
  <2>6. q \in Request /\ SameFields(q, req[r]) /\ q.pc = "fallback"
        /\ q.served = req[r].served /\ q.headers = req[r].headers
    BY <2>2
  <2> QED BY <2>1, <2>3, <2>4, <2>5, <2>6, CountedStep
<1> QED BY <1>3, <1>4 DEF RedisFails

LEMMA LimiterFailsKeeps == ASSUME IInv, NEW r \in Requests, LimiterFails(r) PROVE IInv'
<1>1. /\ req[r].pc = "fallback" /\ UNCHANGED <<settings, spent>> /\ unchangedBooks
      /\ req[r] \in Request /\ req \in [Requests -> Request]
  BY RequestType DEF LimiterFails
<1> DEFINE q == [req[r] EXCEPT !.limit = "counted", !.pc = "app"]
<1>2. Becomes(r, q)
  BY <1>1 DEF LimiterFails, Becomes
<1>3. /\ q \in Request /\ SameFields(q, req[r])
      /\ q.served = req[r].served /\ q.headers = req[r].headers
      /\ q.charged = req[r].charged /\ q.status = req[r].status
      /\ q.pc = "app" /\ q.limit = "counted"
  <2>1. q \in Request
    BY <1>1 DEF Request
  <2> QED BY <1>1, <2>1 DEF Request, SameFields
<1> HIDE DEF q
<1>4. q.status = 500
  BY <1>1, <1>3, NoStatusYet
<1> QED BY <1>1, <1>2, <1>3, <1>4, UncountedStep, Zenon

-----------------------------------------------------------------------------
(* The application *)

\* What the application answers, whoever of its parts does.
LEMMA ApplicationStep ==
    ASSUME IInv, NEW r \in Requests, req[r].pc = "app",
           NEW q \in Request, Becomes(r, q),
           UNCHANGED <<settings, spent>>, unchangedBooks,
           q.pc = "leave", q.served \in {"cors", "route"}, q.status \in {200, 400, 500},
           q.headers = IF q.status = 500 THEN "absent" ELSE HeadersFor(r),
           SameFields(q, req[r]), q.charged = req[r].charged
    PROVE  IInv'
<1>1. /\ LayerInv(r) /\ req'[r] = q
      /\ q.path = req[r].path /\ q.host = req[r].host /\ q.tenant = req[r].tenant
      /\ q.key = req[r].key /\ q.scopes = req[r].scopes /\ q.preflight = req[r].preflight
  BY Written, RequestType DEF IInv, SameFields
<1>2. /\ Protected(r)' <=> Protected(r)
      /\ Accepted(r)' <=> Accepted(r)
      /\ ExpectedHeaders(req[r].path)' = ExpectedHeaders(req[r].path)
  BY <1>1, SameRequest
<1>3. /\ HeadersFor(r) = ExpectedHeaders(req[r].path)
      /\ Protected(r) => Accepted(r) /\ ~req[r].preflight
      /\ req[r].tenant # None => \E k \in Keys : k.id = req[r].key /\ k.tenant = req[r].tenant
  BY <1>1 DEF LayerInv
<1>4. LayerInv(r)'
  BY <1>1, <1>2, <1>3 DEF LayerInv
<1>5. AnswerInv(r)'
  BY <1>1, <1>2, <1>3 DEF AnswerInv
<1>6. q.status # 429 /\ req[r].pc # "done" /\ q.pc # "done"
  BY <1>1
<1> QED BY <1>1, <1>4, <1>5, <1>6, InnerStep

\* A response is written into four fields of its request.
Responded(r, served, status, headers) ==
    req' = [req EXCEPT ![r].pc = "leave", ![r].served = served, ![r].status = status,
                       ![r].headers = headers]

LEMMA ResponseWritten ==
    ASSUME IInv, NEW r \in Requests, NEW served \in {"no", "cors", "route"},
           NEW status \in Status, NEW headers \in {"absent", "zero", "unlimited", "counted"},
           Responded(r, served, status, headers)
    PROVE  \E q \in Request :
              /\ Becomes(r, q)
              /\ SameFields(q, req[r]) /\ q.charged = req[r].charged
              /\ q.pc = "leave" /\ q.served = served /\ q.status = status
              /\ q.headers = headers
<1> DEFINE q == [req[r] EXCEPT !.pc = "leave", !.served = served, !.status = status,
                               !.headers = headers]
<1>1. req[r] \in Request /\ req \in [Requests -> Request]
  BY RequestType
<1>2. Becomes(r, q)
  BY <1>1 DEF Responded, Becomes
<1>3. q \in Request
  BY <1>1 DEF Request
<1>4. /\ SameFields(q, req[r]) /\ q.charged = req[r].charged
      /\ q.pc = "leave" /\ q.served = served /\ q.status = status /\ q.headers = headers
  BY <1>1, <1>3 DEF Request, SameFields
<1> HIDE DEF q
<1> QED BY <1>2, <1>3, <1>4

LEMMA RespondKeeps == ASSUME IInv, NEW r \in Requests, Respond(r) PROVE IInv'
<1> DEFINE served == IF req[r].preflight THEN "cors" ELSE "route"
           headers == HeadersFor(r)
<1>1. PICK status \in Status : status \in {200, 400} /\ Responded(r, served, status, headers)
  <2>1. \E status \in {200, 400} : Responded(r, served, status, headers)
    BY Zenon DEF Respond, Responded
  <2>2. {200, 400} \subseteq Status
    BY DEF Status
  <2> QED BY <2>1, <2>2, Zenon
<1>2. /\ req[r].pc = "app" /\ UNCHANGED <<settings, spent>> /\ unchangedBooks
      /\ served \in {"cors", "route"} /\ headers = HeadersFor(r)
      /\ headers \in {"absent", "zero", "unlimited", "counted"}
  BY DEF Respond, HeadersFor
<1>3. status \in {200, 400, 500} /\ status # 500
  BY <1>1
<1> HIDE DEF served, headers
<1>4. PICK q \in Request :
         /\ Becomes(r, q)
         /\ SameFields(q, req[r]) /\ q.charged = req[r].charged
         /\ q.pc = "leave" /\ q.served = served /\ q.status = status /\ q.headers = headers
  <2>1. served \in {"no", "cors", "route"}
    BY <1>2
  <2>2. headers \in {"absent", "zero", "unlimited", "counted"}
    BY <1>2
  <2>3. Responded(r, served, status, headers)
    BY <1>1
  <2> QED BY <2>1, <2>2, <2>3, ResponseWritten
<1>5. /\ q.headers = IF q.status = 500 THEN "absent" ELSE HeadersFor(r)
      /\ q.served \in {"cors", "route"} /\ q.status \in {200, 400, 500}
  BY <1>2, <1>3, <1>4
<1> QED BY <1>2, <1>4, <1>5, ApplicationStep, Zenon

LEMMA RaiseKeeps == ASSUME IInv, NEW r \in Requests, Raise(r) PROVE IInv'
<1> DEFINE status == 500
           q == [req[r] EXCEPT !.pc = "leave", !.served = "route", !.status = status]
<1>1. /\ req[r].pc = "app" /\ UNCHANGED <<settings, spent>> /\ unchangedBooks
      /\ req' = [req EXCEPT ![r].pc = "leave", ![r].served = "route", ![r].status = status]
  BY DEF Raise
<1>2. req[r] \in Request /\ req \in [Requests -> Request] /\ req[r].headers = "absent"
  BY <1>1, RequestType DEF IInv, LayerInv
<1>3. status = 500 /\ status \in Status
  BY DEF Status
<1> HIDE DEF status
<1>4. Becomes(r, q)
  BY <1>1, <1>2 DEF Becomes
<1>5. /\ q \in Request /\ SameFields(q, req[r]) /\ q.charged = req[r].charged
      /\ q.pc = "leave" /\ q.served = "route" /\ q.status = status
      /\ q.headers = req[r].headers
  <2>1. status \in Status
    BY <1>3
  <2>2. q \in Request
    BY <1>2, <2>1 DEF Request
  <2> QED BY <1>2, <2>2 DEF Request, SameFields
<1> HIDE DEF q
<1>6. /\ q.status \in {200, 400, 500} /\ q.served \in {"cors", "route"}
      /\ q.headers = IF q.status = 500 THEN "absent" ELSE HeadersFor(r)
  BY <1>2, <1>3, <1>5
<1> QED BY <1>1, <1>4, <1>5, <1>6, ApplicationStep

-----------------------------------------------------------------------------
(* The books *)

\* A set of numbers up to n and one more.
LEMMA OneMore ==
    ASSUME NEW n \in Nat, NEW S \in SUBSET (1..n)
    PROVE  /\ IsFiniteSet(S) /\ Cardinality(S) \in Nat
           /\ Cardinality(S \cup {n + 1}) = Cardinality(S) + 1
<1>1. IsFiniteSet(S) /\ Cardinality(S) \in Nat
  <2>1. IsFiniteSet(1..n)
    BY FS_Interval
  <2> QED BY <2>1, FS_Subset, FS_CardinalityType
<1>2. n + 1 \notin S
  OBVIOUS
<1> QED BY <1>1, <1>2, FS_AddElement

\* The ring with one entry more: the oldest goes when it is full.
LEMMA RingGrows ==
    ASSUME TypeOK, NEW r \in Requests, req[r].path # "/metrics", AnswerOf(r) \in Answer
    PROVE  /\ Audited(r) \in Seq(Answer)
           /\ Len(Audited(r)) = IF Len(audit) + 1 > AuditMax THEN AuditMax ELSE Len(audit) + 1
           /\ Audited(r)[1] = AnswerOf(r)
           /\ \A k \in 1..Len(audit) : k + 1 <= AuditMax => Audited(r)[k + 1] = audit[k]
<1> DEFINE a == AnswerOf(r)
           entries == <<a>> \o audit
           m == IF Len(entries) > AuditMax THEN AuditMax ELSE Len(entries)
<1>1. audit \in Seq(Answer) /\ Len(audit) \in Nat /\ AuditMax \in Nat /\ AuditMax >= 1
  BY LenProperties, ConstantsAssumption DEF TypeOK
<1>2. Audited(r) = SubSeq(entries, 1, m)
  BY DEF Audited
<1> HIDE DEF a
<1>3. <<a>> \in Seq(Answer) /\ Len(<<a>>) = 1 /\ <<a>>[1] = a
  BY DEF a
<1>4. /\ entries \in Seq(Answer) /\ Len(entries) = Len(audit) + 1
      /\ entries[1] = a
      /\ \A k \in 1..Len(audit) : entries[k + 1] = audit[k]
  BY <1>1, <1>3, ConcatProperties
<1> HIDE DEF entries
<1>5. m \in Nat /\ 1 <= m /\ m <= Len(entries) /\ m <= AuditMax
  BY <1>1, <1>4
<1>6. m = IF Len(audit) + 1 > AuditMax THEN AuditMax ELSE Len(audit) + 1
  BY <1>4
<1> HIDE DEF m
<1>7. /\ SubSeq(entries, 1, m) \in Seq(Answer) /\ Len(SubSeq(entries, 1, m)) = m
      /\ \A k \in 1..m : SubSeq(entries, 1, m)[k] = entries[k]
  BY <1>1, <1>4, <1>5, SubSeqProperties
<1>8. \A k \in 1..Len(audit) : k + 1 <= AuditMax => k + 1 \in 1..m
  BY <1>1, <1>6
<1> QED BY <1>1, <1>2, <1>4, <1>5, <1>6, <1>7, <1>8 DEF a

\* One answer more, counted and audited once.
LEMMA BooksGrow ==
    ASSUME TypeOK, BooksMatchAnswers, NEW r \in Requests,
           answered' = Append(answered, AnswerOf(r)), metrics' = Recorded(r),
           audit' = Audited(r)
    PROVE  /\ BooksMatchAnswers'
           /\ answered' \in Seq(Answer) /\ audit' \in Seq(Answer)
           /\ metrics' \in [requests : Nat, errors : Nat, category : [Categories -> Nat]]
<1> DEFINE a == AnswerOf(r)
           n == Len(answered)
<1>1. /\ a \in Answer /\ a.path = req[r].path /\ a.status = req[r].status
      /\ a.status \in Int
  BY DEF TypeOK, Request, Answer, AnswerOf, Status
<1>2. /\ answered \in Seq(Answer) /\ n \in Nat /\ DOMAIN answered = 1..n
      /\ audit \in Seq(Answer) /\ Len(audit) \in Nat
      /\ AuditMax \in Nat /\ AuditMax >= 1
  BY LenProperties, ConstantsAssumption DEF TypeOK
<1>3. /\ answered' \in Seq(Answer) /\ Len(answered') = n + 1 /\ DOMAIN answered' = 1..(n + 1)
      /\ \A i \in 1..n : answered'[i] = answered[i]
      /\ answered'[n + 1] = a
  <2>1. /\ answered' \in Seq(Answer) /\ Len(answered') = n + 1
        /\ \A i \in 1..n : answered'[i] = answered[i]
        /\ answered'[n + 1] = a
    BY <1>1, <1>2, AppendProperties
  <2> QED BY <2>1, LenProperties
<1> HIDE DEF a, n
<1>4. metrics'.requests = Len(answered')
  BY <1>2, <1>3 DEF BooksMatchAnswers, Recorded, n
<1>5. metrics'.errors = Cardinality({i \in DOMAIN answered' : answered'[i].status >= 400})
  <2> DEFINE E == {i \in DOMAIN answered : answered[i].status >= 400}
             F == {i \in DOMAIN answered' : answered'[i].status >= 400}
             failed == a.status >= 400
  <2>1. E \in SUBSET (1..n) /\ metrics.errors = Cardinality(E)
    BY <1>2 DEF BooksMatchAnswers
  <2>2. F = IF failed THEN E \cup {n + 1} ELSE E
    BY <1>2, <1>3
  <2>3. metrics'.errors = IF failed THEN metrics.errors + 1 ELSE metrics.errors
    BY <1>1 DEF Recorded
  <2> HIDE DEF E, F, failed
  <2>4. metrics'.errors = Cardinality(F)
    BY <1>2, <2>1, <2>2, <2>3, OneMore
  <2> QED BY <2>4, Zenon DEF F
<1>6. ASSUME NEW c \in Categories
      PROVE  metrics'.category[c] =
                 Cardinality({i \in DOMAIN answered' : Category(answered'[i].path) = c})
  <2> DEFINE E == {i \in DOMAIN answered : Category(answered[i].path) = c}
             F == {i \in DOMAIN answered' : Category(answered'[i].path) = c}
  <2>1. E \in SUBSET (1..n) /\ metrics.category[c] = Cardinality(E)
    BY <1>2 DEF BooksMatchAnswers
  <2>2. F = IF Category(a.path) = c THEN E \cup {n + 1} ELSE E
    BY <1>2, <1>3
  <2>3. metrics'.category[c] = IF Category(a.path) = c THEN metrics.category[c] + 1
                               ELSE metrics.category[c]
    BY <1>1 DEF Recorded
  <2> HIDE DEF E, F
  <2> QED BY <1>2, <2>1, <2>2, <2>3, OneMore DEF F
<1>7. metrics' \in [requests : Nat, errors : Nat, category : [Categories -> Nat]]
  BY DEF Recorded, TypeOK
\* What is audited from the i-th answer on, with the new answer.
<1>8. \A i \in 1..(n + 1) :
         /\ AuditableFrom(i) \in SUBSET (1..n)
         /\ AuditableFrom(i)' = IF a.path # "/metrics" THEN AuditableFrom(i) \cup {n + 1}
                                ELSE AuditableFrom(i)
  <2> SUFFICES ASSUME NEW i \in 1..(n + 1)
               PROVE  /\ AuditableFrom(i) \in SUBSET (1..n)
                      /\ AuditableFrom(i)' = IF a.path # "/metrics"
                                             THEN AuditableFrom(i) \cup {n + 1}
                                             ELSE AuditableFrom(i)
    OBVIOUS
  <2>1. AuditableFrom(i) = {j \in i..n : answered[j].path # "/metrics"}
    BY DEF AuditableFrom, n
  <2>2. AuditableFrom(i)' = {j \in i..(n + 1) : answered'[j].path # "/metrics"}
    BY <1>3 DEF AuditableFrom
  <2>3. i..(n + 1) = (i..n) \cup {n + 1} /\ i..n \subseteq 1..n
    BY <1>2
  <2> QED BY <1>3, <2>1, <2>2, <2>3
<1>9. CASE a.path = "/metrics"
  <2>1. audit' = audit
    BY <1>1, <1>9 DEF Audited
  <2>2. \A i \in 1..(n + 1) : AuditableFrom(i)' = AuditableFrom(i)
    BY <1>8, <1>9
  <2>3. 1 \in 1..(n + 1)
    BY <1>2
  <2>4. Len(audit') = IF Cardinality(AuditableFrom(1)') > AuditMax THEN AuditMax
                      ELSE Cardinality(AuditableFrom(1)')
    BY <2>1, <2>2, <2>3 DEF BooksMatchAnswers
  <2>5. ASSUME NEW i \in AuditableFrom(1)', Cardinality(AuditableFrom(i)') <= AuditMax
        PROVE  audit'[Cardinality(AuditableFrom(i)')] = answered'[i]
    <3>1. i \in AuditableFrom(1) /\ i \in 1..n /\ i \in 1..(n + 1)
      BY <1>2, <1>8, <2>2, <2>3
    <3> QED BY <1>3, <2>1, <2>2, <2>5, <3>1 DEF BooksMatchAnswers
  <2> QED BY <1>2, <1>3, <1>4, <1>5, <1>6, <1>7, <2>1, <2>4, <2>5, Zenon DEF BooksMatchAnswers
<1>10. CASE a.path # "/metrics"
  <2> DEFINE N == Cardinality(AuditableFrom(1))
  <2>1. /\ audit' \in Seq(Answer)
        /\ Len(audit') = IF Len(audit) + 1 > AuditMax THEN AuditMax ELSE Len(audit) + 1
        /\ audit'[1] = a
        /\ \A k \in 1..Len(audit) : k + 1 <= AuditMax => audit'[k + 1] = audit[k]
    BY <1>1, <1>10, RingGrows DEF a
  <2>2. 1 \in 1..(n + 1) /\ n + 1 \in 1..(n + 1) /\ \A i \in 1..n : i \in 1..(n + 1)
    BY <1>2
  <2>3. \A i \in 1..(n + 1) :
           /\ AuditableFrom(i) \in SUBSET (1..n) /\ Cardinality(AuditableFrom(i)) \in Nat
           /\ AuditableFrom(i)' = AuditableFrom(i) \cup {n + 1}
           /\ Cardinality(AuditableFrom(i)') = Cardinality(AuditableFrom(i)) + 1
    BY <1>2, <1>8, <1>10, OneMore
  <2>4. N \in Nat /\ Len(audit) = IF N > AuditMax THEN AuditMax ELSE N
    BY <2>2, <2>3 DEF BooksMatchAnswers
  <2>5. Len(audit') = IF Cardinality(AuditableFrom(1)') > AuditMax THEN AuditMax
                      ELSE Cardinality(AuditableFrom(1)')
    BY <1>2, <2>1, <2>2, <2>3, <2>4
  <2>6. ASSUME NEW i \in AuditableFrom(1)', Cardinality(AuditableFrom(i)') <= AuditMax
        PROVE  audit'[Cardinality(AuditableFrom(i)')] = answered'[i]
    <3>1. CASE i = n + 1
      <4>1. AuditableFrom(i) = {}
        BY <1>2, <3>1 DEF AuditableFrom, n
      <4>2. Cardinality(AuditableFrom(i)') = Cardinality(AuditableFrom(i)) + 1
        BY <2>2, <2>3, <3>1
      <4>3. Cardinality(AuditableFrom(i)) = 0
        BY <4>1, FS_EmptySet, Zenon
      <4>4. Cardinality(AuditableFrom(i)') = 1
        BY <4>2, <4>3
      <4> QED BY <1>3, <2>1, <3>1, <4>4
    <3>2. CASE i # n + 1
      <4> DEFINE k == Cardinality(AuditableFrom(i))
      <4>1. i \in AuditableFrom(1) /\ i \in 1..n
        BY <2>2, <2>3, <2>6, <3>2
      <4>2. k \in Nat /\ Cardinality(AuditableFrom(i)') = k + 1
        BY <2>2, <2>3, <4>1
      <4>3. AuditableFrom(i) \subseteq AuditableFrom(1) /\ i \in AuditableFrom(i)
        BY <4>1, <1>2 DEF AuditableFrom, n
      <4>4. IsFiniteSet(AuditableFrom(1)) /\ IsFiniteSet(AuditableFrom(i))
        BY <1>2, <2>2, <2>3, <4>1, OneMore
      <4>5. k <= N
        BY <4>3, <4>4, FS_Subset
      <4>6. k # 0
        BY <4>3, <4>4, FS_EmptySet
      <4> HIDE DEF k, N
      <4>7. k <= AuditMax /\ k + 1 <= AuditMax
        BY <1>2, <2>6, <4>2
      <4>8. k \in 1..Len(audit)
        BY <1>2, <2>4, <4>2, <4>5, <4>6, <4>7
      <4>9. audit[k] = answered[i]
        BY <4>1, <4>7 DEF BooksMatchAnswers, k
      <4> QED BY <1>3, <2>1, <4>1, <4>2, <4>7, <4>8, <4>9
    <3> QED BY <3>1, <3>2
  <2> QED BY <1>2, <1>3, <1>4, <1>5, <1>6, <1>7, <2>1, <2>5, <2>6, Zenon DEF BooksMatchAnswers
<1> QED BY <1>9, <1>10

-----------------------------------------------------------------------------
(* The answer and the usage log *)

\* The finally clause counts, audits and dispatches once, and leaves the windows alone.
LEMMA FinishKeeps == ASSUME IInv, NEW r \in Requests, Finish(r) PROVE IInv'
<1> DEFINE q == [req[r] EXCEPT !.pc = "done"]
<1>1. /\ Becomes(r, q) /\ req[r].pc = "leave"
      /\ UNCHANGED <<settings, spent, usage>>
  BY RequestType DEF Finish, Becomes
<1>2. /\ q \in Request /\ SameFields(q, req[r]) /\ q.pc = "done"
      /\ q.charged = req[r].charged /\ q.served = req[r].served
      /\ q.status = req[r].status /\ q.headers = req[r].headers
  <2>1. req[r] \in Request
    BY RequestType
  <2>2. q \in Request
    BY <2>1 DEF Request
  <2> QED BY <2>1, <2>2 DEF Request, SameFields
<1> HIDE DEF q
<1> settings' = settings /\ spent' = spent /\ usage' = usage
  BY <1>1
<1>3. /\ req' \in [Requests -> Request] /\ req'[r] = q
      /\ \A p \in Requests \ {r} :
            req'[p] = req[p] /\ UsageOf(p)' = UsageOf(p) /\ LayerInv(p)' /\ AnswerInv(p)'
  BY <1>1, <1>2, OthersKeep, EachAnswer DEF IInv
<1>4. ClientsKept
  BY <1>2, <1>3 DEF ClientsKept, SameFields
<1>5. /\ BooksMatchAnswers'
      /\ answered' \in Seq(Answer) /\ audit' \in Seq(Answer)
      /\ metrics' \in [requests : Nat, errors : Nat, category : [Categories -> Nat]]
  BY BooksGrow DEF IInv, Finish
<1>6. /\ task' = [task EXCEPT ![r] = Dispatched(r)] /\ task[r] = "none"
      /\ Dispatched(r) \in {"none", "pending"}
      /\ Dispatched(r) # "none" <=> req[r].tenant # None
      /\ task \in [Requests -> {"none", "pending", "written", "lost"}]
  BY <1>1 DEF Finish, Dispatched, IInv, UsageFollowsKey, TypeOK
<1>7. /\ task' \in [Requests -> {"none", "pending", "written", "lost"}]
      /\ task'[r] = Dispatched(r) /\ \A p \in Requests \ {r} : task'[p] = task[p]
  BY <1>6
<1>8. TypeOK'
  BY <1>3, <1>5, <1>7 DEF IInv, TypeOK
<1>9. LayerInv(r)' /\ AnswerInv(r)'
  <2>1. /\ q.path = req[r].path /\ q.tenant = req[r].tenant /\ q.scopes = req[r].scopes
        /\ q.key = req[r].key /\ q.preflight = req[r].preflight
    BY <1>2 DEF SameFields
  <2>2. /\ Protected(r)' <=> Protected(r)
        /\ Accepted(r)' <=> Accepted(r)
        /\ ExpectedHeaders(req[r].path)' = ExpectedHeaders(req[r].path)
    BY <1>3, <2>1, SameRequest
  <2>3. LayerInv(r) /\ AnswerInv(r)
    BY EachAnswer DEF IInv
  <2>4. LayerInv(r)'
    BY <1>1, <1>2, <1>3, <2>1, <2>2, <2>3 DEF LayerInv
  <2>5. AnswerInv(r)'
    BY <1>1, <1>2, <1>3, <2>1, <2>2, <2>3 DEF AnswerInv
  <2> QED BY <2>4, <2>5
<1>10. (\A p \in Requests : LayerInv(p)') /\ AnswersShowTheirLayer'
  <2>1. \A p \in Requests : LayerInv(p)' /\ AnswerInv(p)'
    BY <1>3, <1>9
  <2>2. AnswersShowTheirLayer'
    <3>1. \A p \in Requests : AnswerInv(p)'
      BY <2>1
    <3> QED BY <3>1, Zenon DEF AnswersShowTheirLayer, AnswerInv
  <2> QED BY <2>1, <2>2
<1>11. IsFiniteSet(Charged')
  <2>1. Charged' = Charged
    BY <1>2, <1>3 DEF Charged
  <2> QED BY <2>1 DEF IInv, SpentInv, Charged
<1>12. SpentInv'
  BY <1>4, <1>11, SpentStays
<1>13. WindowBelongsToClient'
  <2>1. \A t \in Requests : req'[t].tenant = req[t].tenant /\ req'[t].status = req[t].status
    BY <1>2, <1>3 DEF SameFields
  <2> QED BY <1>4, <1>10, <1>11, <2>1, WindowsKeep
<1>14. UsageFollowsKey'
  <2>1. \A i \in DOMAIN usage' : RowInv(i)'
    BY <1>3, <1>6, <1>7, RowsKeep
  <2>2. \A p \in Requests : TaskInv(p)'
    BY <1>2, <1>3, <1>6, <1>7, EachUsage DEF IInv, TaskInv, SameFields
  <2> QED BY <2>1, <2>2, Zenon DEF UsageFollowsKey, TaskInv, RowInv
<1> QED BY <1>5, <1>8, <1>10, <1>12, <1>13, <1>14 DEF IInv

\* A step of a usage task, or of nothing: the requests and the books stay.
LEMMA TaskStep ==
    ASSUME IInv, UNCHANGED <<settings, req, spent, metrics, audit, answered>>,
           task' \in [Requests -> {"none", "pending", "written", "lost"}],
           usage' \in Seq(UsageRow),
           \A p \in Requests : TaskInv(p)',
           \A i \in DOMAIN usage' : RowInv(i)'
    PROVE  IInv'
<1>1. TypeOK'
  BY DEF IInv, TypeOK
<1>2. SpentInv'
  BY DEF IInv, SpentInv, InWindow, ClientKey
<1>3. \A r \in Requests : LayerInv(r)'
  BY DEF IInv, LayerInv, Protected, Accepted, HeadersFor, ExpectedHeaders
<1>4. WindowBelongsToClient'
  <2>1. \A r \in Requests, store \in Stores : CountedLike(store, r)' = CountedLike(store, r)
    BY DEF CountedLike, SameClient
  <2>2. \A r \in Requests : (Protected(r)' <=> Protected(r)) /\ (Accepted(r)' <=> Accepted(r))
    BY DEF Protected, Accepted
  <2> QED BY <2>1, <2>2 DEF IInv, WindowBelongsToClient
<1>5. AnswersShowTheirLayer'
  BY DEF IInv, AnswersShowTheirLayer, Protected, ExpectedHeaders
<1>6. BooksMatchAnswers'
  BY BooksKeep DEF IInv
<1>7. UsageFollowsKey'
  BY Zenon DEF UsageFollowsKey, TaskInv, RowInv
<1> QED BY <1>1, <1>2, <1>3, <1>4, <1>5, <1>6, <1>7 DEF IInv

LEMMA WriteUsageKeeps == ASSUME IInv, NEW r \in Requests, WriteUsage(r) PROVE IInv'
<1>1. /\ task[r] = "pending" /\ req[r].pc = "done" /\ req[r].tenant # None
      /\ UNCHANGED <<settings, req, spent, metrics, audit, answered>>
      /\ task \in [Requests -> {"none", "pending", "written", "lost"}]
      /\ task' = [task EXCEPT ![r] = "written"] /\ usage' = Append(usage, UsageOf(r))
  BY DEF IInv, TypeOK, UsageFollowsKey, WriteUsage
<1> DEFINE row == UsageOf(r)
           n == Len(usage) + 1
<1>2. PICK k \in Keys : k.id = req[r].key /\ k.tenant = req[r].tenant
  BY <1>1 DEF IInv, LayerInv
<1>3. /\ row \in UsageRow /\ row.req = r /\ row.key = req[r].key /\ row.tenant = req[r].tenant
  <2>1. req[r] \in Request /\ k \in Key
    BY RequestType, ConstantsAssumption
  <2> QED BY <1>2, <2>1 DEF UsageOf, UsageRow, Request, Key
<1>4. \A p \in Requests : UsageOf(p)' = UsageOf(p)
  BY <1>1 DEF UsageOf
<1>5. /\ Len(usage) \in Nat /\ DOMAIN usage = 1..Len(usage)
      /\ \A i \in DOMAIN usage : usage[i].req \in Requests
      /\ usage \in Seq(UsageRow)
  BY RowsTyped DEF IInv, TypeOK
<1> HIDE DEF row
<1>6. /\ usage' \in Seq(UsageRow) /\ DOMAIN usage' = 1..n
      /\ usage'[n] = row /\ \A i \in DOMAIN usage : usage'[i] = usage[i]
  <2>1. usage' = Append(usage, row)
    BY <1>1 DEF row
  <2>2. Len(usage') = n /\ usage' \in Seq(UsageRow)
        /\ usage'[n] = row /\ \A i \in 1..Len(usage) : usage'[i] = usage[i]
    BY <1>3, <1>5, <2>1, AppendProperties
  <2>3. DOMAIN usage' = 1..n
    BY <2>2, LenProperties
  <2> QED BY <1>5, <2>2, <2>3
<1>7. /\ task' \in [Requests -> {"none", "pending", "written", "lost"}]
      /\ task'[r] = "written" /\ \A p \in Requests \ {r} : task'[p] = task[p]
  BY <1>1
<1>8. n \notin DOMAIN usage /\ n \in DOMAIN usage' /\ DOMAIN usage' = DOMAIN usage \cup {n}
  BY <1>5, <1>6
<1>9. \A i \in DOMAIN usage : usage[i].req # r
  BY <1>1, EachUsage DEF IInv, RowInv
<1> HIDE DEF n
<1>10. ASSUME NEW p \in Requests PROVE TaskInv(p)'
  <2>1. TaskInv(p)
    BY EachUsage DEF IInv
  <2>2. CASE p = r
    <3>1. usage'[n].req = r /\ n \in DOMAIN usage'
      BY <1>3, <1>6, <1>8
    <3> QED BY <1>1, <1>7, <2>2, <3>1 DEF TaskInv
  <2>3. CASE p # r
    BY <1>1, <1>6, <1>7, <1>8, <2>1, <2>3 DEF TaskInv
  <2> QED BY <2>2, <2>3
<1>11. ASSUME NEW i \in DOMAIN usage' PROVE RowInv(i)'
  <2>1. CASE i = n
    <3>1. usage'[i] = row /\ usage'[i].req = r
      BY <1>3, <1>6, <2>1
    <3>2. UsageOf(usage[i].req)' = row
      BY <1>4, <3>1 DEF UsageOf, row
    <3>3. \A j \in DOMAIN usage' : usage'[j].req = r => j = i
      BY <1>6, <1>8, <1>9, <2>1
    <3> QED BY <1>2, <1>3, <1>7, <3>1, <3>2, <3>3 DEF RowInv
  <2>2. CASE i \in DOMAIN usage
    <3>1. RowInv(i) /\ usage'[i] = usage[i]
      BY <1>6, <2>2, EachUsage DEF IInv
    <3>2. PICK p \in Requests : p = usage[i].req /\ p # r
      BY <1>5, <1>9, <2>2
    <3>3. UsageOf(usage[i].req)' = UsageOf(usage[i].req)
      BY <1>4, <3>1, <3>2 DEF UsageOf
    <3>4. \A j \in DOMAIN usage' : usage'[j].req = p => j = i
      BY <1>3, <1>6, <1>8, <3>1, <3>2 DEF RowInv
    <3> QED BY <1>7, <3>1, <3>2, <3>3, <3>4 DEF RowInv
  <2> QED BY <1>8, <2>1, <2>2
<1> QED BY <1>1, <1>6, <1>7, <1>10, <1>11, TaskStep

LEMMA LoseUsageKeeps == ASSUME IInv, NEW r \in Requests, LoseUsage(r) PROVE IInv'
<1>1. /\ task[r] = "pending"
      /\ UNCHANGED <<settings, req, spent, metrics, audit, answered>> /\ usage' = usage
      /\ task \in [Requests -> {"none", "pending", "written", "lost"}]
      /\ task' = [task EXCEPT ![r] = "lost"]
  BY DEF IInv, TypeOK, LoseUsage
<1>2. /\ task' \in [Requests -> {"none", "pending", "written", "lost"}]
      /\ task'[r] = "lost" /\ \A p \in Requests \ {r} : task'[p] = task[p]
  BY <1>1
<1>3. \A p \in Requests : UsageOf(p)' = UsageOf(p)
  BY <1>1 DEF UsageOf
<1>4. \A i \in DOMAIN usage' : RowInv(i)'
  BY <1>1, <1>2, <1>3, RowsKeep
<1>5. \A p \in Requests : TaskInv(p)'
  BY <1>1, <1>2, EachUsage DEF IInv, TaskInv
<1>6. usage' \in Seq(UsageRow)
  BY <1>1 DEF IInv, TypeOK
<1> QED BY <1>1, <1>2, <1>4, <1>5, <1>6, TaskStep

-----------------------------------------------------------------------------
(* The crash *)

LEMMA CrashKeeps == ASSUME IInv, Crash PROVE IInv'
<1>1. /\ settings' = settings /\ usage' = usage
      /\ spent' = [spent EXCEPT !["memory"] = Empty]
      /\ metrics' = NoMetrics /\ audit' = <<>> /\ answered' = <<>>
      /\ task' = [r \in Requests |-> IF task[r] = "pending" THEN "lost" ELSE task[r]]
      /\ req' = [r \in Requests |-> IF req[r].pc \in {"new", "done"} THEN req[r]
                                    ELSE [req[r] EXCEPT !.pc = "lost"]]
  BY DEF Crash
<1>2. ASSUME NEW r \in Requests
      PROVE  /\ req'[r] \in Request
             /\ req'[r].pc = IF req[r].pc \in {"new", "done"} THEN req[r].pc ELSE "lost"
             /\ SameFields(req'[r], req[r]) /\ req'[r].charged = req[r].charged
             /\ req'[r].served = req[r].served /\ req'[r].status = req[r].status
             /\ req'[r].headers = req[r].headers
  <2>1. req[r] \in Request
    BY RequestType
  <2> QED BY <1>1, <2>1 DEF Request, SameFields
<1>3. req' \in [Requests -> Request]
  BY <1>1, <1>2
<1>4. /\ task \in [Requests -> {"none", "pending", "written", "lost"}]
      /\ task' \in [Requests -> {"none", "pending", "written", "lost"}]
      /\ \A r \in Requests : task'[r] = IF task[r] = "pending" THEN "lost" ELSE task[r]
  BY <1>1 DEF IInv, TypeOK
<1>5. /\ spent' \in [Stores -> [Clients \X Paths -> Nat]]
      /\ \A store \in Stores, w \in Clients \X Paths : spent'[store][w] <= spent[store][w]
  <2>1. spent \in [Stores -> [Clients \X Paths -> Nat]]
    BY DEF IInv, TypeOK
  <2>2. Empty \in [Clients \X Paths -> Nat] /\ \A w \in Clients \X Paths : Empty[w] = 0
    BY DEF Empty
  <2>3. spent' \in [Stores -> [Clients \X Paths -> Nat]]
    BY <1>1, <2>1, <2>2
  <2>4. ASSUME NEW store \in Stores, NEW w \in Clients \X Paths
        PROVE  spent'[store][w] <= spent[store][w]
    <3>1. spent'[store] = IF store = "memory" THEN Empty ELSE spent[store]
      BY <1>1, <2>1
    <3>2. spent[store][w] \in Nat
      BY <2>1
    <3> QED BY <2>2, <3>1, <3>2
  <2> QED BY <2>3, <2>4
<1>6. TypeOK'
  <2>1. NoMetrics \in [requests : Nat, errors : Nat, category : [Categories -> Nat]]
    BY DEF NoMetrics
  <2>2. <<>> \in Seq(Answer)
    OBVIOUS
  <2> QED BY <1>1, <1>3, <1>4, <1>5, <2>1, <2>2 DEF IInv, TypeOK
<1>7. ClientsKept
  BY <1>2 DEF ClientsKept, SameFields
<1>8. IsFiniteSet(Charged')
  <2>1. Charged' = Charged
    BY <1>2 DEF Charged
  <2> QED BY <2>1 DEF IInv, SpentInv, Charged
<1>9. SpentInv'
  BY <1>5, <1>7, <1>8, SpentKeeps
<1>10. ASSUME NEW r \in Requests PROVE LayerInv(r)' /\ AnswerInv(r)'
  <2>1. /\ req'[r].path = req[r].path /\ req'[r].tenant = req[r].tenant
        /\ req'[r].scopes = req[r].scopes /\ req'[r].key = req[r].key
        /\ req'[r].preflight = req[r].preflight
    BY <1>2 DEF SameFields
  <2>2. /\ Protected(r)' <=> Protected(r)
        /\ Accepted(r)' <=> Accepted(r)
        /\ ExpectedHeaders(req[r].path)' = ExpectedHeaders(req[r].path)
    BY <1>1, <2>1, SameRequest
  <2>3. LayerInv(r) /\ AnswerInv(r)
    BY EachAnswer DEF IInv
  <2>4. LayerInv(r)'
    BY <1>2, <2>1, <2>2, <2>3 DEF LayerInv
  <2>5. AnswerInv(r)'
    BY <1>2, <2>1, <2>2, <2>3 DEF AnswerInv
  <2> QED BY <2>4, <2>5
<1>11. AnswersShowTheirLayer'
  BY <1>10, Zenon DEF AnswersShowTheirLayer, AnswerInv
<1>12. WindowBelongsToClient'
  <2>1. \A t \in Requests : req'[t].tenant = req[t].tenant /\ req'[t].status = req[t].status
    BY <1>2 DEF SameFields
  <2> QED BY <1>1, <1>7, <1>8, <1>10, <2>1, WindowsKeep
<1>13. BooksMatchAnswers'
  <2>1. /\ Len(answered') = 0 /\ DOMAIN answered' = {} /\ Len(audit') = 0
        /\ metrics'.requests = 0 /\ metrics'.errors = 0
        /\ \A c \in Categories : metrics'.category[c] = 0
    BY <1>1 DEF NoMetrics
  <2>2. AuditableFrom(1)' = {}
    BY <2>1 DEF AuditableFrom
  <2>3. AuditMax \in Nat /\ ~(0 > AuditMax)
    BY ConstantsAssumption
  <2>4. Cardinality({}) = 0
    BY FS_EmptySet
  <2> QED BY <2>1, <2>2, <2>3, <2>4, Zenon DEF BooksMatchAnswers
<1>14. UsageFollowsKey'
  <2>1. \A p \in Requests : UsageOf(p)' = UsageOf(p)
    BY <1>2 DEF UsageOf, SameFields
  <2>2. \A i \in DOMAIN usage' : RowInv(i)'
    BY <1>1, <1>4, <2>1, RowsKeep
  <2>3. \A p \in Requests : TaskInv(p)'
    BY <1>1, <1>2, <1>4, EachUsage DEF IInv, TaskInv, SameFields
  <2> QED BY <2>2, <2>3, Zenon DEF UsageFollowsKey, TaskInv, RowInv
<1> QED BY <1>6, <1>9, <1>10, <1>11, <1>12, <1>13, <1>14 DEF IInv

-----------------------------------------------------------------------------
(* The inductive invariant *)

LEMMA InitInv == Init => IInv
<1> SUFFICES ASSUME Init PROVE IInv
  OBVIOUS
<1>1. \A p \in Paths, pre \in BOOLEAN, h \in Addresses :
         LET x == NewRequest(p, pre, h) IN
         /\ x \in Request
         /\ x.pc = "new" /\ x.tenant = None /\ x.charged = {} /\ x.served = "no"
         /\ x.headers = "absent" /\ x.status = 500
  BY DEF NewRequest, Request, Status
<1>2. \A r \in Requests :
         /\ req[r] \in Request /\ req[r].pc = "new" /\ req[r].tenant = None
         /\ req[r].charged = {} /\ req[r].served = "no"
         /\ req[r].headers = "absent" /\ req[r].status = 500
  BY <1>1 DEF Init
<1>3. /\ spent = [s \in Stores |-> Empty] /\ metrics = NoMetrics /\ audit = <<>>
      /\ task = [r \in Requests |-> "none"] /\ usage = <<>> /\ answered = <<>>
      /\ settings \in Settings
      /\ req \in [Requests -> {NewRequest(p, pre, h) :
                                 p \in Paths, pre \in BOOLEAN, h \in Addresses}]
  BY DEF Init
<1>4. TypeOK
  <2>1. req \in [Requests -> Request]
    BY <1>2, <1>3
  <2>2. metrics \in [requests : Nat, errors : Nat, category : [Categories -> Nat]]
    BY <1>3 DEF NoMetrics
  <2>3. spent \in [Stores -> [Clients \X Paths -> Nat]]
    BY <1>3 DEF Empty
  <2>4. audit \in Seq(Answer) /\ usage \in Seq(UsageRow) /\ answered \in Seq(Answer)
    BY <1>3
  <2>5. task \in [Requests -> {"none", "pending", "written", "lost"}]
    BY <1>3
  <2>6. settings \in Settings
    BY <1>3
  <2> QED BY <2>1, <2>2, <2>3, <2>4, <2>5, <2>6, Zenon DEF TypeOK
<1>5. SpentInv
  <2>1. Charged = {} /\ \A store \in Stores, w \in Clients \X Paths : InWindow(store, w) = {}
    BY <1>2 DEF Charged, InWindow
  <2>2. IsFiniteSet({}) /\ Cardinality({}) = 0
    BY FS_EmptySet
  <2>3. \A store \in Stores, w \in Clients \X Paths : spent[store][w] <= 0
    BY <1>3 DEF Empty
  <2> QED BY <2>1, <2>2, <2>3 DEF SpentInv, Charged
<1>6. \A r \in Requests : LayerInv(r)
  BY <1>2 DEF LayerInv
<1>7. WindowBelongsToClient
  BY <1>2 DEF WindowBelongsToClient
<1>8. AnswersShowTheirLayer
  BY <1>2 DEF AnswersShowTheirLayer
<1>9. BooksMatchAnswers
  <2>1. /\ Len(answered) = 0 /\ DOMAIN answered = {} /\ Len(audit) = 0
        /\ metrics.requests = 0 /\ metrics.errors = 0
        /\ \A c \in Categories : metrics.category[c] = 0
    BY <1>3 DEF NoMetrics
  <2>2. AuditableFrom(1) = {}
    BY <2>1 DEF AuditableFrom
  <2>3. AuditMax \in Nat /\ ~(0 > AuditMax)
    BY ConstantsAssumption
  <2>4. Cardinality({}) = 0
    BY FS_EmptySet
  <2> QED BY <2>1, <2>2, <2>3, <2>4, Zenon DEF BooksMatchAnswers
<1>10. UsageFollowsKey
  BY <1>2, <1>3 DEF UsageFollowsKey
<1> QED BY <1>4, <1>5, <1>6, <1>7, <1>8, <1>9, <1>10 DEF IInv

LEMMA NextInv == IInv /\ [Next]_vars => IInv'
<1> SUFFICES ASSUME IInv, [Next]_vars PROVE IInv'
  OBVIOUS
<1>1. ASSUME NEW r \in Requests, Arrive(r) \/ SkipAuth(r) \/ RefuseToken(r) \/ AcceptToken(r)
      PROVE  IInv'
  BY <1>1, ArriveKeeps, SkipAuthKeeps, RefuseTokenKeeps, AcceptTokenKeeps
<1>2. ASSUME NEW r \in Requests,
             \/ SkipLimit(r) \/ RedisDecides(r) \/ RedisFails(r)
             \/ MemoryDecides(r) \/ LimiterFails(r)
      PROVE  IInv'
  BY <1>2, SkipLimitKeeps, RedisDecidesKeeps, RedisFailsKeeps, MemoryDecidesKeeps,
     LimiterFailsKeeps
<1>3. ASSUME NEW r \in Requests, Respond(r) \/ Raise(r) \/ Finish(r)
      PROVE  IInv'
  BY <1>3, RespondKeeps, RaiseKeeps, FinishKeeps
<1>4. ASSUME NEW r \in Requests, WriteUsage(r) \/ LoseUsage(r) PROVE IInv'
  BY <1>4, WriteUsageKeeps, LoseUsageKeeps
<1>5. CASE Crash
  BY <1>5, CrashKeeps
<1>6. CASE UNCHANGED vars
  <2>1. UNCHANGED <<settings, req, spent, metrics, audit, answered>> /\ UNCHANGED <<task, usage>>
    BY <1>6 DEF vars
  <2>2. /\ task' \in [Requests -> {"none", "pending", "written", "lost"}]
        /\ usage' \in Seq(UsageRow)
    BY <2>1 DEF IInv, TypeOK
  <2>3. \A p \in Requests : TaskInv(p)'
    BY <2>1, EachUsage DEF IInv, TaskInv
  <2>4. \A i \in DOMAIN usage' : RowInv(i)'
    BY <2>1, RowsKeep DEF UsageOf
  <2> QED BY <2>1, <2>2, <2>3, <2>4, TaskStep
<1> QED BY <1>1, <1>2, <1>3, <1>4, <1>5, <1>6 DEF Next, Step

\* The layers keep their order: a key before the limiter, the limiter before the
\* route, the books after all, for any requests in flight and any crash.
THEOREM Inductive == Spec => []IInv
<1>1. Init => IInv
  BY InitInv
<1>2. IInv /\ [Next]_vars => IInv'
  BY NextInv
<1> QED BY <1>1, <1>2, PTL DEF Spec

\* Every variable keeps its type.
THEOREM TypeCorrect == Spec => []TypeOK
<1>1. IInv => TypeOK
  BY DEF IInv
<1> QED BY <1>1, Inductive, PTL

\* The route of a protected path runs for no request without a key that has its scope.
THEOREM ServedWithKey == Spec => []NothingServedWithoutKey
<1>1. IInv => NothingServedWithoutKey
  BY DEF IInv, LayerInv, Accepted, Allowed, NothingServedWithoutKey
<1> QED BY <1>1, Inductive, PTL

\* A 429 takes at least as many other requests of the same client on the same path as
\* the limit allows, counted by one store.
THEOREM WindowsAreOwn == Spec => []WindowBelongsToClient
<1>1. IInv => WindowBelongsToClient
  BY DEF IInv
<1> QED BY <1>1, Inductive, PTL

\* Refusals and exceptions bear no headers of the limiter, answers of the application
\* those of the settings, and preflights of protected paths are refused.
THEOREM AnswersShowLayers == Spec => []AnswersShowTheirLayer
<1>1. IInv => AnswersShowTheirLayer
  BY DEF IInv
<1> QED BY <1>1, Inductive, PTL

\* Counters and audit ring agree with the answers that went out.
THEOREM BooksAgree == Spec => []BooksMatchAnswers
<1>1. IInv => BooksMatchAnswers
  BY DEF IInv
<1> QED BY <1>1, Inductive, PTL

\* Usage is logged at most once, for requests with a key, under that key and its tenant.
THEOREM UsageIsKeyed == Spec => []UsageFollowsKey
<1>1. IInv => UsageFollowsKey
  BY DEF IInv
<1> QED BY <1>1, Inductive, PTL
=============================================================================
