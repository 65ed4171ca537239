---------------------------- MODULE ApiKeysProofs ----------------------------
(* Proofs about ApiKeys, for every number of requests, keys and tenants,    *)
(* every cache size, and both kinds of database.                            *)
EXTENDS ApiKeysInductive, TLAPS, SequenceTheorems

-----------------------------------------------------------------------------
(* The cache *)

\* What _enforce_cache_limit leaves: entries of the cache, and room for one.
LEMMA EnforcedCacheFacts ==
    ASSUME cache \in Seq(CacheEntry)
    PROVE  /\ EnforcedCache \in Seq(CacheEntry)
           /\ \A i \in DOMAIN EnforcedCache :
                \E j \in DOMAIN cache : EnforcedCache[i] = cache[j]
           /\ Len(EnforcedCache) < CacheMax
<1> DEFINE m == Len(cache) - CacheMax + 2
           n == Len(cache)
<1>1. Len(cache) \in Nat /\ CacheMax \in Nat /\ CacheMax >= 1
  BY ConstantsAssumption
<1>2. CASE Len(cache) >= CacheMax
  <2>1. EnforcedCache = SubSeq(cache, m, n)
    BY <1>2 DEF EnforcedCache
  <2>2. m \in 1..n+1 /\ m >= 1
    BY <1>1, <1>2
  <2>3. /\ SubSeq(cache, m, n) \in Seq(CacheEntry)
        /\ Len(SubSeq(cache, m, n)) = IF m <= n THEN n - m + 1 ELSE 0
        /\ \A i \in 1..(n - m + 1) : SubSeq(cache, m, n)[i] = cache[m + i - 1]
    BY <1>1, <2>2, SMT
  <2>4. DOMAIN SubSeq(cache, m, n) = 1..(n - m + 1)
    BY <1>1, <2>2, <2>3
  <2>5. \A i \in 1..(n - m + 1) : m + i - 1 \in DOMAIN cache
    BY <1>1, <2>2
  <2> DEFINE s == SubSeq(cache, m, n)
  <2>6. \A i \in DOMAIN s : \E j \in DOMAIN cache : s[i] = cache[j]
    BY <2>3, <2>4, <2>5
  <2>7. Len(s) < CacheMax
    BY <1>1, <1>2, <2>3
  <2>8. s \in Seq(CacheEntry)
    BY <2>3
  <2>9. EnforcedCache = s
    BY <2>1
  <2> HIDE DEF s
  <2> QED BY <2>6, <2>7, <2>8, <2>9
<1>3. CASE Len(cache) < CacheMax
  BY <1>1, <1>3 DEF EnforcedCache
<1> QED BY <1>1, <1>2, <1>3

\* What _AUTH_CACHE[raw] = val leaves: the new entry, and older ones.
LEMMA WithEntryFacts ==
    ASSUME NEW c \in Seq(CacheEntry), NEW raw \in RawKeys,
           NEW val \in ValidatedKey \cup {None}
    PROVE  /\ WithEntry(c, raw, val) \in Seq(CacheEntry)
           /\ \A i \in DOMAIN WithEntry(c, raw, val) :
                \/ WithEntry(c, raw, val)[i] = [raw |-> raw, val |-> val]
                \/ \E j \in DOMAIN c : WithEntry(c, raw, val)[i] = c[j]
           /\ Len(WithEntry(c, raw, val)) <= Len(c) + 1
<1> DEFINE e == [raw |-> raw, val |-> val]
<1>1. e \in CacheEntry
  BY DEF CacheEntry
<1>2. CASE \E i \in DOMAIN c : c[i].raw = raw
  <2> DEFINE w == [i \in DOMAIN c |->
                     IF c[i].raw = raw THEN [c[i] EXCEPT !.val = val] ELSE c[i]]
  <2>1. WithEntry(c, raw, val) = w
    BY <1>2 DEF WithEntry
  <2>2. \A i \in DOMAIN c : c[i] \in CacheEntry
    OBVIOUS
  <2>3. \A i \in DOMAIN c : c[i].raw = raw => [c[i] EXCEPT !.val = val] = e
    BY <2>2 DEF CacheEntry
  <2>4. \A i \in DOMAIN c : w[i] = e \/ w[i] = c[i]
    BY <2>3
  <2>5. w = [i \in 1..Len(c) |-> w[i]]
    OBVIOUS
  <2> HIDE DEF e, w
  <2>6. w \in Seq(CacheEntry) /\ Len(w) = Len(c)
    <3>1. \A i \in 1..Len(c) : w[i] \in CacheEntry
      BY <1>1, <2>2, <2>4
    <3> QED BY <2>5, <3>1
  <2>7. DOMAIN w = DOMAIN c
    BY <2>6
  <2> QED BY <2>1, <2>4, <2>6, <2>7 DEF e
<1>3. CASE ~ \E i \in DOMAIN c : c[i].raw = raw
  <2>1. WithEntry(c, raw, val) = Append(c, e)
    BY <1>3 DEF WithEntry
  <2>2. /\ Append(c, e) \in Seq(CacheEntry)
        /\ Len(Append(c, e)) = Len(c) + 1
        /\ \A i \in 1..Len(c) : Append(c, e)[i] = c[i]
        /\ Append(c, e)[Len(c) + 1] = e
    BY <1>1
  <2>3. \A i \in 1..(Len(c) + 1) : i \in DOMAIN c \/ i = Len(c) + 1
    OBVIOUS
  <2> QED BY <2>1, <2>2, <2>3
<1> QED BY <1>2, <1>3

\* The two together: a cache update by validate_api_key.
LEMMA CacheUpdate ==
    ASSUME cache \in Seq(CacheEntry), NEW raw \in RawKeys,
           NEW val \in ValidatedKey \cup {None},
           cache' = WithEntry(EnforcedCache, raw, val)
    PROVE  /\ cache' \in Seq(CacheEntry)
           /\ \A i \in DOMAIN cache' :
                \/ cache'[i] = [raw |-> raw, val |-> val]
                \/ \E j \in DOMAIN cache : cache'[i] = cache[j]
           /\ Len(cache') <= CacheMax
<1>1. EnforcedCache \in Seq(CacheEntry)
  BY EnforcedCacheFacts
<1>2. Len(EnforcedCache) \in Nat /\ CacheMax \in Nat
  BY <1>1, ConstantsAssumption
<1>3. /\ cache' \in Seq(CacheEntry)
      /\ \A i \in DOMAIN cache' :
                \/ cache'[i] = [raw |-> raw, val |-> val]
                \/ \E j \in DOMAIN EnforcedCache : cache'[i] = EnforcedCache[j]
      /\ Len(cache') <= Len(EnforcedCache) + 1
  BY <1>1, WithEntryFacts
<1>4. Len(cache') \in Nat
  BY <1>3
<1>5. Len(EnforcedCache) < CacheMax
  BY EnforcedCacheFacts
<1>6. \A j \in DOMAIN EnforcedCache : \E i \in DOMAIN cache : EnforcedCache[j] = cache[i]
  BY EnforcedCacheFacts
<1>7. Len(cache') <= CacheMax
  BY <1>2, <1>3, <1>4, <1>5
<1> QED BY <1>3, <1>6, <1>7

-----------------------------------------------------------------------------
(* Types *)

\* A request that is not in flight has its type.
LEMMA IdleType == Idle \in Request
BY DEF Idle, Request, Steps, Waiting, Holding

\* A request that goes to its next step changes its pc and nothing else.
LEMMA GotoEffect ==
    ASSUME TypeOK, NEW r \in Requests, NEW pc \in Steps, Goto(r, pc)
    PROVE  /\ req' \in [Requests -> Request]
           /\ \A q \in Requests : q # r => req'[q] = req[q]
           /\ req'[r].pc = pc
           /\ req'[r].op = req[r].op
           /\ req'[r].raw = req[r].raw
           /\ req'[r].found = req[r].found
           /\ req'[r].tenant = req[r].tenant
           /\ req'[r].key = req[r].key
           /\ req'[r].email = req[r].email
           /\ req'[r].fresh = req[r].fresh
<1>1. req \in [Requests -> Request]
  BY DEF TypeOK
<1> DEFINE v == [req[r] EXCEPT !.pc = pc]
<1>2. req' = [req EXCEPT ![r] = v]
  BY DEF Goto
<1>3. /\ v \in Request
      /\ v.pc = pc
      /\ v.op = req[r].op
      /\ v.raw = req[r].raw
      /\ v.found = req[r].found
      /\ v.tenant = req[r].tenant
      /\ v.key = req[r].key
      /\ v.email = req[r].email
      /\ v.fresh = req[r].fresh
  BY <1>1 DEF Request
<1> HIDE DEF v
<1> QED BY <1>1, <1>2, <1>3

\* A request that is answered is idle again.
LEMMA AnswerEffect ==
    ASSUME TypeOK, NEW r \in Requests, Answer(r)
    PROVE  /\ req' \in [Requests -> Request]
           /\ \A q \in Requests : q # r => req'[q] = req[q]
           /\ req'[r] = Idle
BY IdleType DEF TypeOK, Answer

\* The fields of an idle request.
LEMMA IdleFields ==
    /\ Idle.pc = "idle" /\ Idle.op = "use" /\ Idle.raw = None /\ Idle.found = None
    /\ Idle.tenant = None /\ Idle.key = None /\ Idle.email = None /\ Idle.fresh = None
BY DEF Idle

\* The database read of a validation: on a hit the row becomes the request's.
LEMMA SelectKeyEffect ==
    ASSUME TypeOK, NEW r \in Requests, SelectKey(r)
    PROVE  /\ req' \in [Requests -> Request]
           /\ \A q \in Requests : q # r => req'[q] = req[q]
           /\ req'[r].op = req[r].op
           /\ req'[r].raw = req[r].raw
           /\ req'[r].key = req[r].key
           /\ req'[r].email = req[r].email
           /\ req'[r].fresh = req[r].fresh
           /\ \/ \E k \in KeyIds :
                    /\ rows[k] # None /\ rows[k].hash = req[r].raw /\ rows[k].active
                    /\ req'[r].pc = "touch"
                    /\ req'[r].found = k
                    /\ req'[r].tenant = rows[k].tenant
              \/ /\ ~Live(req[r].raw)
                 /\ req'[r].pc = "absent"
                 /\ req'[r].found = req[r].found
                 /\ req'[r].tenant = req[r].tenant
<1>1. req \in [Requests -> Request] /\ rows \in [KeyIds -> Row \cup {None}]
  BY DEF TypeOK
<1>2. ASSUME NEW k \in KeyIds,
             rows[k] # None, rows[k].hash = req[r].raw, rows[k].active,
             req' = [req EXCEPT ![r].pc = "touch", ![r].found = k,
                                ![r].tenant = rows[k].tenant]
      PROVE  /\ req' \in [Requests -> Request]
             /\ \A q \in Requests : q # r => req'[q] = req[q]
             /\ req'[r] = [req[r] EXCEPT !.pc = "touch", !.found = k,
                                         !.tenant = rows[k].tenant]
  <2> DEFINE v == [req[r] EXCEPT !.pc = "touch", !.found = k, !.tenant = rows[k].tenant]
  <2>1. rows[k].tenant \in TenantIds
    BY <1>1, <1>2 DEF Row
  <2>2. v \in Request
    <3>1. req[r] \in Request /\ "touch" \in Steps
      BY <1>1 DEF Steps, Waiting
    <3> QED BY <2>1, <3>1 DEF Request
  <2>3. req' = [req EXCEPT ![r] = v]
    BY <1>1, <1>2
  <2> HIDE DEF v
  <2>4. /\ req' \in [Requests -> Request]
        /\ \A q \in Requests : q # r => req'[q] = req[q]
        /\ req'[r] = v
    BY <1>1, <2>2, <2>3
  <2> QED BY <2>4 DEF v
<1>3. CASE \E k \in KeyIds :
             /\ rows[k] # None
             /\ rows[k].hash = req[r].raw
             /\ rows[k].active
             /\ req' = [req EXCEPT ![r].pc = "touch", ![r].found = k,
                                   ![r].tenant = rows[k].tenant]
  <2>1. PICK k \in KeyIds :
             /\ rows[k] # None
             /\ rows[k].hash = req[r].raw
             /\ rows[k].active
             /\ req' = [req EXCEPT ![r].pc = "touch", ![r].found = k,
                                   ![r].tenant = rows[k].tenant]
    BY <1>3
  <2>2. /\ req' \in [Requests -> Request]
        /\ \A q \in Requests : q # r => req'[q] = req[q]
        /\ req'[r] = [req[r] EXCEPT !.pc = "touch", !.found = k,
                                    !.tenant = rows[k].tenant]
    BY <1>2, <2>1
  <2>3. /\ req'[r].pc = "touch" /\ req'[r].found = k /\ req'[r].tenant = rows[k].tenant
        /\ req'[r].op = req[r].op /\ req'[r].raw = req[r].raw /\ req'[r].key = req[r].key
        /\ req'[r].email = req[r].email /\ req'[r].fresh = req[r].fresh
    BY <1>1, <2>2 DEF Request
  <2> QED BY <2>1, <2>2, <2>3
<1>4. CASE /\ \A k \in KeyIds :
                rows[k] # None => rows[k].hash # req[r].raw \/ ~rows[k].active
           /\ Goto(r, "absent")
  <2>1. "absent" \in Steps
    BY DEF Steps
  <2>2. ~Live(req[r].raw)
    BY <1>4 DEF Live
  <2> QED BY <1>4, <2>1, <2>2, GotoEffect
<1> QED BY <1>3, <1>4 DEF SelectKey

\* Every verdict the cache gives is one it may hold.
LEMMA CacheGetType ==
    ASSUME cache \in Seq(CacheEntry), NEW raw \in RawKeys, CacheHas(raw)
    PROVE  /\ CacheGet(raw) \in ValidatedKey \cup {None}
           /\ \E i \in DOMAIN cache :
                cache[i].raw = raw /\ cache[i].val = CacheGet(raw)
<1>1. PICK i \in DOMAIN cache : cache[i].raw = raw
  BY DEF CacheHas
<1> DEFINE j == CHOOSE l \in DOMAIN cache : cache[l].raw = raw
<1>2. j \in DOMAIN cache /\ cache[j].raw = raw
  BY <1>1
<1>3. CacheGet(raw) = cache[j].val
  BY DEF CacheGet
<1>4. cache[j] \in CacheEntry
  BY <1>2
<1> HIDE DEF j
<1> QED BY <1>2, <1>3, <1>4 DEF CacheEntry

\* A request that arrives is answered at once, or asks the database, or goes
\* to its route with a cached verdict.
LEMMA ArriveEffect ==
    ASSUME TypeOK, NEW r \in Requests, NEW raw \in RawKeys,
           NEW op \in {"use", "revoke", "regenerate"},
           NEW k \in KeyIds \cup {None}, NEW n \in RawKeys \cup {None},
           Arrive(r, raw, op, k, n)
    PROVE  /\ req' \in [Requests -> Request]
           /\ \A q \in Requests : q # r => req'[q] = req[q]
           /\ issued[raw] # None
           /\ op = "regenerate" => n # None /\ FreshRaw(n)
           /\ op # "regenerate" => n = None
           /\ op = "use" <=> k = None
           /\ \/ req'[r] = Idle
              \/ /\ req'[r].op = op
                 /\ req'[r].raw = raw
                 /\ req'[r].key = k
                 /\ req'[r].email = None
                 /\ req'[r].fresh = n
                 /\ \/ /\ req'[r].pc = "select"
                       /\ req'[r].found = None
                    \/ /\ req'[r].pc = "route"
                       /\ \E i \in DOMAIN cache :
                            /\ cache[i].raw = raw
                            /\ cache[i].val \in ValidatedKey
                            /\ cache[i].val # None
                            /\ req'[r].found = cache[i].val.key
                            /\ req'[r].tenant = cache[i].val.tenant
<1>1. /\ req \in [Requests -> Request]
      /\ cache \in Seq(CacheEntry)
      /\ Idle \in Request
  BY IdleType DEF TypeOK
<1> DEFINE a == AfterLookup(raw)
           v == [a EXCEPT !.op = op, !.key = k, !.fresh = n]
<1>2. /\ a \in Request
      /\ a.pc # "idle" =>
           /\ a.raw = raw
           /\ a.email = None
           /\ \/ a.pc = "select" /\ a.found = None
              \/ /\ a.pc = "route"
                 /\ CacheHas(raw)
                 /\ CacheGet(raw) # None
                 /\ CacheGet(raw) \in ValidatedKey
                 /\ a.found = CacheGet(raw).key
                 /\ a.tenant = CacheGet(raw).tenant
  <2>1. CASE ~CacheHas(raw)
    BY <2>1 DEF AfterLookup, Idle, Request, Steps
  <2>2. CASE CacheHas(raw) /\ CacheGet(raw) = None
    BY <1>1, <2>2 DEF AfterLookup, Idle
  <2>3. CASE CacheHas(raw) /\ CacheGet(raw) # None
    <3>1. CacheGet(raw) \in ValidatedKey
      BY <1>1, <2>3, CacheGetType
    <3> QED BY <2>3, <3>1 DEF AfterLookup, Idle, Request, Steps, ValidatedKey
  <2> QED BY <2>1, <2>2, <2>3
<1>3. /\ v \in Request
      /\ v.pc = a.pc /\ v.raw = a.raw /\ v.found = a.found /\ v.tenant = a.tenant
      /\ v.email = a.email /\ v.op = op /\ v.key = k /\ v.fresh = n
  <2>1. a \in Request
    BY <1>2
  <2> HIDE DEF a
  <2>2. v \in Request
    BY <2>1 DEF Request
  <2>3. /\ v.pc = a.pc /\ v.raw = a.raw /\ v.found = a.found /\ v.tenant = a.tenant
        /\ v.email = a.email /\ v.op = op /\ v.key = k /\ v.fresh = n
    BY <2>1 DEF Request
  <2> QED BY <2>2, <2>3
<1>4. /\ req' = [req EXCEPT ![r] = IF a.pc = "idle" THEN Idle ELSE v]
      /\ issued[raw] # None
      /\ op = "regenerate" => n # None /\ FreshRaw(n)
      /\ op # "regenerate" => n = None
      /\ op = "use" <=> k = None
  BY ConstantsAssumption DEF Arrive
<1>5. CacheHas(raw) => \E i \in DOMAIN cache :
                         cache[i].raw = raw /\ cache[i].val = CacheGet(raw)
  BY <1>1, CacheGetType
<1> HIDE DEF a, v
<1>6. /\ req' \in [Requests -> Request]
      /\ \A q \in Requests : q # r => req'[q] = req[q]
      /\ req'[r] = IF a.pc = "idle" THEN Idle ELSE v
  BY <1>1, <1>3, <1>4
<1>7. CASE a.pc = "idle"
  BY <1>4, <1>6, <1>7
<1>8. CASE a.pc # "idle"
  <2>1. req'[r] = v
    BY <1>6, <1>8
  <2>2. CASE a.pc = "select"
    BY <1>2, <1>3, <1>4, <1>6, <1>8, <2>1, <2>2
  <2>3. CASE a.pc = "route"
    <3>1. PICK i \in DOMAIN cache : cache[i].raw = raw /\ cache[i].val = CacheGet(raw)
      BY <1>2, <1>5, <2>3
    <3>2. /\ cache[i].val \in ValidatedKey /\ cache[i].val # None
          /\ v.found = cache[i].val.key /\ v.tenant = cache[i].val.tenant
      BY <1>2, <1>3, <2>3, <3>1
    <3> QED BY <1>2, <1>3, <1>4, <1>6, <1>8, <2>1, <2>3, <3>1, <3>2
  <2> QED BY <1>2, <1>8, <2>2, <2>3
<1> QED BY <1>7, <1>8

\* A registration that starts owns ids and a random key nobody else has.
LEMMA RegisterEffect ==
    ASSUME TypeOK, NEW r \in Requests, NEW e \in Emails, NEW t \in TenantIds,
           NEW k \in KeyIds, NEW n \in RawKeys, Register(r, e, t, k, n)
    PROVE  /\ req' \in [Requests -> Request]
           /\ \A q \in Requests : q # r => req'[q] = req[q]
           /\ req'[r].pc = "insertTenant" /\ req'[r].op = "register"
           /\ req'[r].raw = None /\ req'[r].found = None
           /\ req'[r].tenant = t /\ req'[r].key = k
           /\ req'[r].email = e /\ req'[r].fresh = n
           /\ FreshTenant(t) /\ FreshKey(k) /\ FreshRaw(n)
<1> DEFINE v == [Idle EXCEPT !.pc = "insertTenant", !.op = "register",
                             !.email = e, !.tenant = t, !.key = k, !.fresh = n]
<1>1. req' = [req EXCEPT ![r] = v] /\ FreshTenant(t) /\ FreshKey(k) /\ FreshRaw(n)
  BY DEF Register
<1>2. /\ v \in Request
      /\ v.pc = "insertTenant" /\ v.op = "register" /\ v.raw = None /\ v.found = None
      /\ v.tenant = t /\ v.key = k /\ v.email = e /\ v.fresh = n
  BY DEF Idle, Request, Steps, Waiting
<1> HIDE DEF v
<1> QED BY <1>1, <1>2 DEF TypeOK

\* What a commit writes is a row of the same tenant.
LEMMA CommitWrites ==
    ASSUME IInv, NEW r \in Requests, Commit(r)
    PROVE  /\ req[r].key \in KeyIds
           /\ Written(r) \in Row
           /\ Written(r).tenant = req[r].tenant
           /\ Written(r).hash = IF req[r].op = "revoke" THEN rows[req[r].key].hash
                                                       ELSE req[r].fresh
           /\ Written(r).active =>
                \/ req[r].op = "register"
                \/ rows[req[r].key].active /\ req[r].op = "regenerate"
           /\ req[r].op # "register" => rows[req[r].key] \in Row
<1>1. /\ req[r] \in Request
      /\ rows \in [KeyIds -> Row \cup {None}]
      /\ req[r].op \in {"revoke", "regenerate", "register"}
  BY DEF IInv, TypeOK, RequestShape, Commit, Request
<1>2. req[r].key \in KeyIds
  BY <1>1 DEF IInv, RequestShape, Request
<1>3. CASE req[r].op = "register"
  <2>1. req[r].tenant \in TenantIds /\ req[r].fresh \in RawKeys
    BY <1>1, <1>3 DEF IInv, RequestShape, Request
  <2> DEFINE w == [tenant |-> req[r].tenant, hash |-> req[r].fresh, active |-> TRUE]
  <2>2. Written(r) = w
    BY <1>3 DEF Written
  <2>3. /\ w \in Row /\ w.tenant = req[r].tenant /\ w.hash = req[r].fresh
    BY <2>1 DEF Row
  <2> HIDE DEF w
  <2> QED BY <1>2, <1>3, <2>2, <2>3
<1>4. CASE req[r].op # "register"
  <2>1. rows[req[r].key] \in Row /\ rows[req[r].key].tenant = req[r].tenant
    BY <1>1, <1>2, <1>4 DEF IInv, OwnerInv, Commit
  <2>2. req[r].op = "regenerate" => req[r].fresh \in RawKeys
    BY <1>1 DEF IInv, RequestShape, Request
  <2> QED BY <1>1, <1>2, <1>4, <2>1, <2>2 DEF Written, Row
<1> QED BY <1>2, <1>3, <1>4

\* A commit changes one row, and for a registration one tenant.
LEMMA CommitEffect ==
    ASSUME IInv, NEW r \in Requests, Commit(r)
    PROVE  /\ \A q \in Requests : q # r => req'[q] = req[q]
           /\ req[r].pc = "commit"
           /\ req'[r].pc = "reply"
           /\ req'[r].op = req[r].op
           /\ req'[r].raw = req[r].raw
           /\ req'[r].found = req[r].found
           /\ req'[r].tenant = req[r].tenant
           /\ req'[r].key = req[r].key
           /\ req'[r].email = req[r].email
           /\ req'[r].fresh = req[r].fresh
           /\ req[r].op \in {"revoke", "regenerate", "register"}
           /\ req[r].op = "revoke" => req[r].fresh = None
           /\ req[r].op # "revoke" => req[r].fresh # None
           /\ \A k \in KeyIds : k # req[r].key => rows'[k] = rows[k]
           /\ rows'[req[r].key] = Written(r)
           /\ rows'[req[r].key] # None
           /\ req[r].op # "register" => rows[req[r].key] # None /\ tenants' = tenants
           /\ req[r].op = "register" =>
                /\ rows[req[r].key] = None
                /\ tenants[req[r].tenant] = None
                /\ \A t \in TenantIds : t # req[r].tenant => tenants'[t] = tenants[t]
                /\ req[r].tenant \in TenantIds
                /\ tenants'[req[r].tenant] = req[r].email
           /\ issued' = issued
           /\ cache' = cache
<1>0. TypeOK /\ RequestShape /\ OwnerInv /\ NewRowsInv
  BY DEF IInv
<1>1. /\ \A q \in Requests : q # r => req'[q] = req[q]
      /\ req'[r].pc = "reply"
      /\ req'[r].op = req[r].op
      /\ req'[r].raw = req[r].raw
      /\ req'[r].found = req[r].found
      /\ req'[r].tenant = req[r].tenant
      /\ req'[r].key = req[r].key
      /\ req'[r].email = req[r].email
      /\ req'[r].fresh = req[r].fresh
  BY <1>0, GotoEffect DEF Commit, Steps
<1>2. /\ req[r].pc = "commit" /\ issued' = issued /\ cache' = cache
      /\ rows' = [rows EXCEPT ![req[r].key] = Written(r)]
      /\ rows \in [KeyIds -> Row \cup {None}]
      /\ tenants \in [TenantIds -> Emails \cup {None}]
      /\ req[r] \in Request
  BY <1>0 DEF Commit, TypeOK
<1>3. /\ req[r].op = "register" =>
           tenants' = [tenants EXCEPT ![req[r].tenant] = req[r].email]
      /\ req[r].op # "register" => tenants' = tenants
  BY DEF Commit
<1>4. /\ req[r].op \in {"revoke", "regenerate", "register"}
      /\ req[r].op = "revoke" => req[r].fresh = None
      /\ req[r].op # "revoke" => req[r].fresh # None
      /\ req[r].op = "register" => req[r].tenant \in TenantIds /\ req[r].email \in Emails
  BY <1>0, <1>2 DEF RequestShape, Request
<1>5. req[r].key \in KeyIds /\ Written(r) \in Row
  BY CommitWrites
<1>6. rows'[req[r].key] = Written(r)
  BY <1>2, <1>5
<1>7. Written(r) # None
  BY <1>5, NoneAssumption
<1>8. /\ req[r].op # "register" => rows[req[r].key] # None
      /\ req[r].op = "register" => rows[req[r].key] = None /\ tenants[req[r].tenant] = None
  BY <1>0, <1>2 DEF OwnerInv, NewRowsInv
<1> QED BY <1>1, <1>2, <1>3, <1>4, <1>5, <1>6, <1>7, <1>8

\* A reply shows the key the request has generated, if any.
LEMMA ReplyEffect ==
    ASSUME IInv, NEW r \in Requests, Reply(r)
    PROVE  /\ \A q \in Requests : q # r => req'[q] = req[q]
           /\ req'[r] = Idle
           /\ req[r].pc = "reply"
           /\ UNCHANGED <<tenants, rows, cache>>
           /\ req[r].fresh = None => issued' = issued
           /\ req[r].fresh # None =>
                /\ req[r].fresh \in RawKeys
                /\ req[r].key \in KeyIds
                /\ issued'[req[r].fresh] = req[r].key
                /\ \A n \in RawKeys : n # req[r].fresh => issued'[n] = issued[n]
<1>1. TypeOK /\ RequestShape
  BY DEF IInv
<1>2. req[r] \in Request /\ issued \in [RawKeys -> KeyIds \cup {None}]
  BY <1>1 DEF TypeOK
<1>3. req[r].fresh # None => req[r].fresh \in RawKeys /\ req[r].key \in KeyIds
  BY <1>1, <1>2 DEF RequestShape, Request
<1> QED BY <1>1, <1>2, <1>3, AnswerEffect DEF Reply

\* Caching a refusal: every entry of the new cache is an
\* old one or the verdict of this validation.
LEMMA CacheRefusalEffect ==
    ASSUME IInv, NEW r \in Requests, CacheRefusal(r)
    PROVE  /\ \A q \in Requests : q # r => req'[q] = req[q]
           /\ req'[r] = Idle
           /\ req[r].pc = "absent"
           /\ req[r].raw \in RawKeys
           /\ UNCHANGED <<tenants, rows, issued>>
           /\ \A i \in DOMAIN cache' :
                \/ cache'[i].raw = req[r].raw /\ cache'[i].val = None
                \/ \E j \in DOMAIN cache : cache'[i] = cache[j]
<1>1. TypeOK /\ RequestShape
  BY DEF IInv
<1>2. req[r].raw \in RawKeys
  BY <1>1 DEF TypeOK, RequestShape, CacheRefusal, Request
<1>3. \A i \in DOMAIN cache' :
        \/ cache'[i] = [raw |-> req[r].raw, val |-> None]
        \/ \E j \in DOMAIN cache : cache'[i] = cache[j]
  BY <1>1, <1>2, CacheUpdate DEF CacheRefusal, TypeOK
<1>4. \A i \in DOMAIN cache' :
        cache'[i] = [raw |-> req[r].raw, val |-> None] =>
            cache'[i].raw = req[r].raw /\ cache'[i].val = None
  OBVIOUS
<1> QED BY <1>1, <1>2, <1>3, <1>4, AnswerEffect DEF CacheRefusal

\* Caching an acceptance, likewise.
LEMMA CacheKeyEffect ==
    ASSUME IInv, NEW r \in Requests, CacheKey(r)
    PROVE  /\ \A q \in Requests : q # r => req'[q] = req[q]
           /\ req[r].pc = "touched"
           /\ req'[r].pc = "close"
           /\ req'[r].op = req[r].op
           /\ req'[r].raw = req[r].raw
           /\ req'[r].found = req[r].found
           /\ req'[r].tenant = req[r].tenant
           /\ req'[r].key = req[r].key
           /\ req'[r].email = req[r].email
           /\ req'[r].fresh = req[r].fresh
           /\ req[r].raw \in RawKeys
           /\ req[r].found \in KeyIds
           /\ UNCHANGED <<tenants, rows, issued>>
           /\ \A i \in DOMAIN cache' :
                \/ /\ cache'[i].raw = req[r].raw
                   /\ cache'[i].val # None
                   /\ cache'[i].val.key = req[r].found
                   /\ cache'[i].val.tenant = req[r].tenant
                \/ \E j \in DOMAIN cache : cache'[i] = cache[j]
<1>1. TypeOK /\ RequestShape
  BY DEF IInv
<1> DEFINE v == [key |-> req[r].found, tenant |-> req[r].tenant]
<1>2. /\ req[r].raw \in RawKeys /\ req[r].found \in KeyIds /\ v \in ValidatedKey
      /\ v.key = req[r].found /\ v.tenant = req[r].tenant
  BY <1>1 DEF TypeOK, RequestShape, CacheKey, Request, ValidatedKey
<1>3. v # None
  BY <1>2, NoneAssumption
<1>4. cache' = WithEntry(EnforcedCache, req[r].raw, v)
  BY DEF CacheKey
<1> HIDE DEF v
<1>5. \A i \in DOMAIN cache' :
        \/ cache'[i] = [raw |-> req[r].raw, val |-> v]
        \/ \E j \in DOMAIN cache : cache'[i] = cache[j]
  BY <1>1, <1>2, <1>4, CacheUpdate DEF TypeOK
<1>6. \A i \in DOMAIN cache' :
        cache'[i] = [raw |-> req[r].raw, val |-> v] =>
            cache'[i].raw = req[r].raw /\ cache'[i].val = v
  OBVIOUS
<1>7. "close" \in Steps /\ Goto(r, "close") /\ req[r].pc = "touched"
      /\ UNCHANGED <<tenants, rows, issued>>
  BY DEF Steps, Holding, CacheKey
<1>8. \A i \in DOMAIN cache' :
        \/ /\ cache'[i].raw = req[r].raw
           /\ cache'[i].val # None
           /\ cache'[i].val.key = req[r].found
           /\ cache'[i].val.tenant = req[r].tenant
        \/ \E j \in DOMAIN cache : cache'[i] = cache[j]
  BY <1>2, <1>3, <1>5, <1>6
<1> QED BY <1>1, <1>2, <1>7, <1>8, GotoEffect

\* No commit moves a row to another tenant.
LEMMA CommitKeepsTenant ==
    ASSUME IInv, NEW r \in Requests, Commit(r), NEW k \in KeyIds, rows[k] # None
    PROVE  rows'[k] # None /\ rows'[k].tenant = rows[k].tenant
<1>1. CASE k # req[r].key
  BY <1>1, CommitEffect
<1>2. CASE k = req[r].key
  <2>1. req[r].op # "register" /\ req[r].pc = "commit"
    BY <1>2, CommitEffect
  <2>2. rows[k].tenant = req[r].tenant
    BY <1>2, <2>1 DEF IInv, OwnerInv
  <2> QED BY <1>2, <2>2, CommitEffect, CommitWrites
<1> QED BY <1>1, <1>2

\* A key that was shown keeps its row.
LEMMA ReplyKeepsIssued ==
    ASSUME IInv, NEW r \in Requests, Reply(r), NEW n \in RawKeys, issued[n] # None
    PROVE  issued'[n] = issued[n]
<1>1. req[r].fresh # None => issued[req[r].fresh] = None
  BY DEF IInv, FreshInv
<1> QED BY <1>1, ReplyEffect

\* No commit makes a key that a client knows work again.
LEMMA CommitKeepsDead ==
    ASSUME IInv, NEW r \in Requests, Commit(r), NEW raw \in RawKeys,
           issued[raw] # None, ~Live(raw)
    PROVE  ~Live(raw)'
<1> SUFFICES ASSUME NEW k \in KeyIds,
                    rows'[k] # None, rows'[k].hash = raw, rows'[k].active
             PROVE  FALSE
  BY DEF Live
<1>1. req[r].fresh # raw
  BY ConstantsAssumption DEF IInv, FreshInv
<1>2. k = req[r].key
  BY CommitEffect DEF Live
<1>3. rows'[k] = Written(r) /\ req[r].op \in {"revoke", "regenerate", "register"}
  BY <1>2, CommitEffect
<1>4. req[r].op = "revoke"
  BY <1>1, <1>3, CommitWrites
<1> QED BY <1>3, <1>4, CommitWrites

\* What the cache may hold.
LEMMA CacheEntryType ==
    ASSUME TypeOK, NEW i \in DOMAIN cache
    PROVE  cache[i].raw \in RawKeys /\ cache[i].val \in ValidatedKey \cup {None}
<1>1. cache \in Seq(CacheEntry)
  BY DEF TypeOK
<1>2. cache[i] \in CacheEntry
  BY <1>1
<1> QED BY <1>2 DEF CacheEntry

\* Every step keeps the types.
LEMMA TypeStep == IInv /\ Next => TypeOK'
<1> SUFFICES ASSUME IInv, Next PROVE TypeOK'
  OBVIOUS
<1>0. TypeOK /\ RequestShape
  BY DEF IInv
<1> DEFINE Same == UNCHANGED <<tenants, rows, cache, issued>>
<1>a. ASSUME req' \in [Requests -> Request], Same PROVE TypeOK'
  BY <1>0, <1>a DEF TypeOK
<1>b. /\ {"absent", "touch", "touched", "close", "update", "flushed"} \subseteq Steps
      /\ {"commit", "insertKey", "route", "reply"} \subseteq Steps
  BY DEF Steps, Waiting, Holding
<1>1. ASSUME NEW r \in Requests, SelectKey(r) PROVE TypeOK'
  BY <1>0, <1>a, <1>1, SelectKeyEffect DEF SelectKey
<1>2. ASSUME NEW r \in Requests, CacheRefusal(r) PROVE TypeOK'
  <2>1. req[r].raw \in RawKeys
    BY <1>0, <1>2 DEF CacheRefusal, RequestShape, Request, TypeOK
  <2>2. cache' \in Seq(CacheEntry)
    BY <1>0, <1>2, <2>1, CacheUpdate DEF CacheRefusal, TypeOK
  <2> QED BY <1>0, <1>2, <2>2, AnswerEffect DEF CacheRefusal, TypeOK
<1>3. ASSUME NEW r \in Requests, Touch(r) PROVE TypeOK'
  BY <1>0, <1>a, <1>b, <1>3, GotoEffect, AnswerEffect DEF Touch
<1>4. ASSUME NEW r \in Requests, CacheKey(r) PROVE TypeOK'
  <2>1. /\ req[r].raw \in RawKeys
        /\ [key |-> req[r].found, tenant |-> req[r].tenant] \in ValidatedKey
    BY <1>0, <1>4 DEF CacheKey, RequestShape, Request, ValidatedKey, TypeOK
  <2>2. cache' \in Seq(CacheEntry)
    BY <1>0, <1>4, <2>1, CacheUpdate DEF CacheKey, TypeOK
  <2> QED BY <1>0, <1>b, <1>4, <2>2, GotoEffect DEF CacheKey, TypeOK
<1>5. ASSUME NEW r \in Requests, CloseAuthSession(r) PROVE TypeOK'
  BY <1>0, <1>a, <1>b, <1>5, GotoEffect, AnswerEffect DEF CloseAuthSession
<1>6. ASSUME NEW r \in Requests, Serve(r) PROVE TypeOK'
  BY <1>0, <1>a, <1>b, <1>6, GotoEffect, AnswerEffect DEF Serve
<1>7. ASSUME NEW r \in Requests, SelectOwn(r) PROVE TypeOK'
  BY <1>0, <1>a, <1>b, <1>7, GotoEffect, AnswerEffect DEF SelectOwn
<1>8. ASSUME NEW r \in Requests, UpdateKey(r) PROVE TypeOK'
  BY <1>0, <1>a, <1>b, <1>8, GotoEffect, AnswerEffect DEF UpdateKey
<1>9. ASSUME NEW r \in Requests, ClearCache(r) PROVE TypeOK'
  BY <1>0, <1>b, <1>9, GotoEffect DEF ClearCache, TypeOK
<1>10. ASSUME NEW r \in Requests, InsertTenant(r) PROVE TypeOK'
  BY <1>0, <1>a, <1>b, <1>10, GotoEffect, AnswerEffect DEF InsertTenant
<1>11. ASSUME NEW r \in Requests, InsertKey(r) PROVE TypeOK'
  BY <1>0, <1>a, <1>b, <1>11, GotoEffect, AnswerEffect DEF InsertKey
<1>12. ASSUME NEW r \in Requests, Commit(r) PROVE TypeOK'
  <2>1. req[r].key \in KeyIds /\ Written(r) \in Row
    BY <1>12, CommitWrites
  <2>2. req[r].op = "register" => req[r].tenant \in TenantIds /\ req[r].email \in Emails
    BY <1>0 DEF RequestShape, Request, TypeOK
  <2> QED BY <1>0, <1>b, <1>12, <2>1, <2>2, GotoEffect DEF Commit, TypeOK
<1>13. ASSUME NEW r \in Requests, Reply(r) PROVE TypeOK'
  <2>1. req[r].fresh # None => req[r].fresh \in RawKeys /\ req[r].key \in KeyIds
    BY <1>0 DEF RequestShape, Request, TypeOK
  <2> QED BY <1>0, <1>13, <2>1, AnswerEffect DEF Reply, TypeOK
<1>14. ASSUME NEW r \in Requests, LockTimeout(r) PROVE TypeOK'
  BY <1>0, <1>a, <1>b, <1>14, GotoEffect, AnswerEffect DEF LockTimeout
<1>15. ASSUME NEW r \in Requests, DatabaseError(r) PROVE TypeOK'
  BY <1>0, <1>a, <1>b, <1>15, GotoEffect, AnswerEffect DEF DatabaseError
<1>16. ASSUME NEW r \in Requests, NEW raw \in RawKeys,
              NEW op \in {"use", "revoke", "regenerate"},
              NEW k \in KeyIds \cup {None}, NEW n \in RawKeys \cup {None},
              Arrive(r, raw, op, k, n)
       PROVE  TypeOK'
  <2>1. AfterLookup(raw) \in Request
    BY <1>0, CacheGetType DEF TypeOK, AfterLookup, Idle, Request, ValidatedKey, Steps, Waiting, Holding
  <2>2. [AfterLookup(raw) EXCEPT !.op = op, !.key = k, !.fresh = n] \in Request
    BY <2>1 DEF Request
  <2> QED BY <1>0, <1>a, <1>16, <2>2, IdleType DEF Arrive, TypeOK
<1>17. ASSUME NEW r \in Requests, NEW e \in Emails, NEW t \in TenantIds,
              NEW k \in KeyIds, NEW n \in RawKeys, Register(r, e, t, k, n)
       PROVE  TypeOK'
  BY <1>0, <1>a, <1>17 DEF Register, TypeOK, Idle, Request, Steps, Waiting, Holding
<1>18. ASSUME Crash PROVE TypeOK'
  BY <1>0, <1>18, IdleType DEF Crash, TypeOK
<1> QED BY <1>1, <1>2, <1>3, <1>4, <1>5, <1>6, <1>7, <1>8, <1>9, <1>10, <1>11,
           <1>12, <1>13, <1>14, <1>15, <1>16, <1>17, <1>18 DEF Next, Step

\* Every step leaves the fields a request needs at its next step filled in.
LEMMA RequestShapeStep == IInv /\ Next => RequestShape'
<1> SUFFICES ASSUME IInv, Next PROVE RequestShape'
  OBVIOUS
<1>0. TypeOK /\ RequestShape
  BY DEF IInv
<1> USE DEF RequestShape
<1>1. ASSUME NEW r \in Requests, SelectKey(r) PROVE RequestShape'
  <2>1. /\ req' \in [Requests -> Request]
        /\ \A q \in Requests : q # r => req'[q] = req[q]
        /\ req'[r].pc \in {"touch", "absent"}
        /\ req'[r].pc = "absent" => req'[r].found = req[r].found
    BY <1>0, <1>1, SelectKeyEffect
  <2>2. req'[r].pc = "touch" => req'[r].found # None /\ req'[r].tenant # None
    BY <1>0, <1>1, SelectKeyEffect, ConstantsAssumption DEF TypeOK, Row
  <2>3. /\ req'[r].op = req[r].op /\ req'[r].raw = req[r].raw
        /\ req'[r].key = req[r].key /\ req'[r].fresh = req[r].fresh
        /\ req'[r].email = req[r].email
    BY <1>0, <1>1, SelectKeyEffect
  <2>4. req[r].pc = "select"
    BY <1>1 DEF SelectKey
  <2> QED BY <1>0, <2>1, <2>2, <2>3, <2>4
<1>2. ASSUME NEW r \in Requests, CacheRefusal(r) PROVE RequestShape'
  BY <1>0, <1>2, GotoEffect, AnswerEffect, SelectKeyEffect, IdleFields DEF CacheRefusal, Steps, Waiting, Holding
<1>3. ASSUME NEW r \in Requests, Touch(r) PROVE RequestShape'
  BY <1>0, <1>3, GotoEffect, AnswerEffect, SelectKeyEffect, IdleFields DEF Touch, Steps, Waiting, Holding
<1>4. ASSUME NEW r \in Requests, CacheKey(r) PROVE RequestShape'
  BY <1>0, <1>4, GotoEffect, AnswerEffect, SelectKeyEffect, IdleFields DEF CacheKey, Steps, Waiting, Holding
<1>5. ASSUME NEW r \in Requests, CloseAuthSession(r) PROVE RequestShape'
  BY <1>0, <1>5, GotoEffect, AnswerEffect, SelectKeyEffect, IdleFields DEF CloseAuthSession, Steps, Waiting, Holding
<1>6. ASSUME NEW r \in Requests, Serve(r) PROVE RequestShape'
  BY <1>0, <1>6, GotoEffect, AnswerEffect, SelectKeyEffect, IdleFields DEF Serve, Steps, Waiting, Holding
<1>7. ASSUME NEW r \in Requests, SelectOwn(r) PROVE RequestShape'
  BY <1>0, <1>7, GotoEffect, AnswerEffect, SelectKeyEffect, IdleFields DEF SelectOwn, Steps, Waiting, Holding
<1>8. ASSUME NEW r \in Requests, UpdateKey(r) PROVE RequestShape'
  BY <1>0, <1>8, GotoEffect, AnswerEffect, SelectKeyEffect, IdleFields DEF UpdateKey, Steps, Waiting, Holding
<1>9. ASSUME NEW r \in Requests, ClearCache(r) PROVE RequestShape'
  BY <1>0, <1>9, GotoEffect, AnswerEffect, SelectKeyEffect, IdleFields DEF ClearCache, Steps, Waiting, Holding
<1>10. ASSUME NEW r \in Requests, InsertTenant(r) PROVE RequestShape'
  BY <1>0, <1>10, GotoEffect, AnswerEffect, SelectKeyEffect, IdleFields DEF InsertTenant, Steps, Waiting, Holding
<1>11. ASSUME NEW r \in Requests, InsertKey(r) PROVE RequestShape'
  BY <1>0, <1>11, GotoEffect, AnswerEffect, SelectKeyEffect, IdleFields DEF InsertKey, Steps, Waiting, Holding
<1>12. ASSUME NEW r \in Requests, Commit(r) PROVE RequestShape'
  BY <1>0, <1>12, GotoEffect, AnswerEffect, SelectKeyEffect, IdleFields DEF Commit, Steps, Waiting, Holding
<1>13. ASSUME NEW r \in Requests, Reply(r) PROVE RequestShape'
  BY <1>0, <1>13, GotoEffect, AnswerEffect, SelectKeyEffect, IdleFields DEF Reply, Steps, Waiting, Holding
<1>14. ASSUME NEW r \in Requests, LockTimeout(r) PROVE RequestShape'
  BY <1>0, <1>14, GotoEffect, AnswerEffect, SelectKeyEffect, IdleFields DEF LockTimeout, Steps, Waiting, Holding
<1>15. ASSUME NEW r \in Requests, DatabaseError(r) PROVE RequestShape'
  BY <1>0, <1>15, GotoEffect, AnswerEffect, SelectKeyEffect, IdleFields DEF DatabaseError, Steps, Waiting, Holding
<1>16. ASSUME NEW r \in Requests, NEW raw \in RawKeys,
              NEW op \in {"use", "revoke", "regenerate"},
              NEW k \in KeyIds \cup {None}, NEW n \in RawKeys \cup {None},
              Arrive(r, raw, op, k, n)
       PROVE  RequestShape'
  BY <1>0, <1>16, ArriveEffect, IdleFields, ConstantsAssumption DEF ValidatedKey
<1>17. ASSUME NEW r \in Requests, NEW e \in Emails, NEW t \in TenantIds,
              NEW k \in KeyIds, NEW n \in RawKeys, Register(r, e, t, k, n)
       PROVE  RequestShape'
  BY <1>0, <1>17, RegisterEffect, ConstantsAssumption
<1>18. ASSUME Crash PROVE RequestShape'
  BY <1>0, <1>18, IdleFields DEF Crash
<1> QED BY <1>1, <1>2, <1>3, <1>4, <1>5, <1>6, <1>7, <1>8, <1>9, <1>10, <1>11,
           <1>12, <1>13, <1>14, <1>15, <1>16, <1>17, <1>18 DEF Next, Step

\* Write locks exclude one another: a session gets one only when it is free.
LEMMA LockInvStep == IInv /\ Next => LockInv'
<1> SUFFICES ASSUME IInv, Next PROVE LockInv'
  OBVIOUS
<1>0. TypeOK /\ RequestShape /\ LockInv
  BY DEF IInv
<1> USE DEF LockInv, LockedKey, LockFree
<1>1. ASSUME NEW r \in Requests, SelectKey(r) PROVE LockInv'
  <2>1. /\ \A q \in Requests : q # r => req'[q] = req[q]
        /\ req'[r].pc \in {"touch", "absent"}
    BY <1>0, <1>1, SelectKeyEffect
  <2> QED BY <1>0, <2>1 DEF Holding
<1>2. ASSUME NEW r \in Requests, CacheRefusal(r) PROVE LockInv'
  BY <1>0, <1>2, AnswerEffect, IdleFields DEF CacheRefusal, Steps, Waiting, Holding
<1>3. ASSUME NEW r \in Requests, Touch(r) PROVE LockInv'
  BY <1>0, <1>3, GotoEffect DEF Touch, Steps, Waiting, Holding
<1>4. ASSUME NEW r \in Requests, CacheKey(r) PROVE LockInv'
  BY <1>0, <1>4, GotoEffect DEF CacheKey, Steps, Waiting, Holding
<1>5. ASSUME NEW r \in Requests, CloseAuthSession(r) PROVE LockInv'
  BY <1>0, <1>5, GotoEffect DEF CloseAuthSession, Steps, Waiting, Holding
<1>6. ASSUME NEW r \in Requests, Serve(r) PROVE LockInv'
  BY <1>0, <1>6, AnswerEffect, IdleFields DEF Serve, Steps, Waiting, Holding
<1>7. ASSUME NEW r \in Requests, SelectOwn(r) PROVE LockInv'
  BY <1>0, <1>7, GotoEffect, AnswerEffect, IdleFields DEF SelectOwn, Steps, Waiting, Holding
<1>8. ASSUME NEW r \in Requests, UpdateKey(r) PROVE LockInv'
  BY <1>0, <1>8, GotoEffect DEF UpdateKey, Steps, Waiting, Holding
<1>9. ASSUME NEW r \in Requests, ClearCache(r) PROVE LockInv'
  BY <1>0, <1>9, GotoEffect DEF ClearCache, Steps, Waiting, Holding
<1>10. ASSUME NEW r \in Requests, InsertTenant(r) PROVE LockInv'
  BY <1>0, <1>10, GotoEffect, AnswerEffect, IdleFields DEF InsertTenant, Steps, Waiting, Holding
<1>11. ASSUME NEW r \in Requests, InsertKey(r) PROVE LockInv'
  BY <1>0, <1>11, GotoEffect DEF InsertKey, Steps, Waiting, Holding
<1>12. ASSUME NEW r \in Requests, Commit(r) PROVE LockInv'
  BY <1>0, <1>12, GotoEffect DEF Commit, Steps, Waiting, Holding
<1>13. ASSUME NEW r \in Requests, Reply(r) PROVE LockInv'
  BY <1>0, <1>13, AnswerEffect, IdleFields DEF Reply, Steps, Waiting, Holding
<1>14. ASSUME NEW r \in Requests, LockTimeout(r) PROVE LockInv'
  BY <1>0, <1>14, AnswerEffect, IdleFields DEF LockTimeout, Steps, Waiting, Holding
<1>15. ASSUME NEW r \in Requests, DatabaseError(r) PROVE LockInv'
  BY <1>0, <1>15, AnswerEffect, IdleFields DEF DatabaseError, Steps, Waiting, Holding
<1>16. ASSUME NEW r \in Requests, NEW raw \in RawKeys,
              NEW op \in {"use", "revoke", "regenerate"},
              NEW k \in KeyIds \cup {None}, NEW n \in RawKeys \cup {None},
              Arrive(r, raw, op, k, n)
       PROVE  LockInv'
  <2>1. /\ \A q \in Requests : q # r => req'[q] = req[q]
        /\ req'[r].pc \in {"idle", "select", "route"}
    BY <1>0, <1>16, ArriveEffect, IdleFields
  <2> QED BY <1>0, <2>1 DEF Holding
<1>17. ASSUME NEW r \in Requests, NEW e \in Emails, NEW t \in TenantIds,
              NEW k \in KeyIds, NEW n \in RawKeys, Register(r, e, t, k, n)
       PROVE  LockInv'
  <2>1. /\ \A q \in Requests : q # r => req'[q] = req[q]
        /\ req'[r].pc \in {"insertTenant"}
    BY <1>0, <1>17, RegisterEffect
  <2> QED BY <1>0, <2>1 DEF Holding
<1>18. ASSUME Crash PROVE LockInv'
  BY <1>0, <1>18, IdleFields DEF Crash, Holding
<1> QED BY <1>1, <1>2, <1>3, <1>4, <1>5, <1>6, <1>7, <1>8, <1>9, <1>10, <1>11,
           <1>12, <1>13, <1>14, <1>15, <1>16, <1>17, <1>18 DEF Next, Step

\* A generated key stays secret until it is shown.
LEMMA FreshInvStep == IInv /\ Next => FreshInv'
<1> SUFFICES ASSUME IInv, Next PROVE FreshInv'
  OBVIOUS
<1>0. TypeOK /\ RequestShape /\ FreshInv
  BY DEF IInv
<1> USE DEF FreshInv
<1>1. ASSUME NEW r \in Requests, SelectKey(r) PROVE FreshInv'
  <2>1. /\ \A q \in Requests : q # r => req'[q] = req[q]
        /\ req'[r].fresh = req[r].fresh /\ req'[r].key = req[r].key
    BY <1>0, <1>1, SelectKeyEffect
  <2>2. req[r].pc = "select" /\ UNCHANGED <<rows, issued>>
    BY <1>1 DEF SelectKey
  <2> QED BY <1>0, <2>1, <2>2
<1>2. ASSUME NEW r \in Requests, CacheRefusal(r) PROVE FreshInv'
  BY <1>0, <1>2, AnswerEffect, IdleFields DEF CacheRefusal, Steps, Waiting, Holding
<1>3. ASSUME NEW r \in Requests, Touch(r) PROVE FreshInv'
  BY <1>0, <1>3, GotoEffect DEF Touch, Steps, Waiting, Holding
<1>4. ASSUME NEW r \in Requests, CacheKey(r) PROVE FreshInv'
  BY <1>0, <1>4, GotoEffect DEF CacheKey, Steps, Waiting, Holding
<1>5. ASSUME NEW r \in Requests, CloseAuthSession(r) PROVE FreshInv'
  BY <1>0, <1>5, GotoEffect DEF CloseAuthSession, Steps, Waiting, Holding
<1>6. ASSUME NEW r \in Requests, Serve(r) PROVE FreshInv'
  BY <1>0, <1>6, AnswerEffect, IdleFields DEF Serve, Steps, Waiting, Holding
<1>7. ASSUME NEW r \in Requests, SelectOwn(r) PROVE FreshInv'
  BY <1>0, <1>7, GotoEffect, AnswerEffect, IdleFields DEF SelectOwn, Steps, Waiting, Holding
<1>8. ASSUME NEW r \in Requests, UpdateKey(r) PROVE FreshInv'
  BY <1>0, <1>8, GotoEffect DEF UpdateKey, Steps, Waiting, Holding
<1>9. ASSUME NEW r \in Requests, ClearCache(r) PROVE FreshInv'
  BY <1>0, <1>9, GotoEffect DEF ClearCache, Steps, Waiting, Holding
<1>10. ASSUME NEW r \in Requests, InsertTenant(r) PROVE FreshInv'
  BY <1>0, <1>10, GotoEffect, AnswerEffect, IdleFields DEF InsertTenant, Steps, Waiting, Holding
<1>11. ASSUME NEW r \in Requests, InsertKey(r) PROVE FreshInv'
  BY <1>0, <1>11, GotoEffect DEF InsertKey, Steps, Waiting, Holding
<1>12. ASSUME NEW r \in Requests, Commit(r) PROVE FreshInv'
  <2>1. Written(r).hash = IF req[r].op = "revoke" THEN rows[req[r].key].hash
                                                  ELSE req[r].fresh
    BY <1>12, CommitWrites
  <2> QED BY <1>0, <1>12, <2>1, CommitEffect
<1>13. ASSUME NEW r \in Requests, Reply(r) PROVE FreshInv'
  <2>1. /\ \A q \in Requests : q # r => req'[q] = req[q]
        /\ req'[r].fresh = None
    BY <1>0, <1>13, AnswerEffect, IdleFields DEF Reply
  <2>2. /\ rows' = rows /\ issued \in [RawKeys -> KeyIds \cup {None}]
        /\ req[r].fresh = None => issued' = issued
        /\ req[r].fresh # None => issued' = [issued EXCEPT ![req[r].fresh] = req[r].key]
    BY <1>0, <1>13 DEF Reply, TypeOK
  <2>3. \A q \in Requests : req[q].fresh # None => req[q].fresh \in RawKeys
    BY <1>0 DEF TypeOK, Request
  <2>4. \A q \in Requests \ {r} :
          req[q].fresh # None => issued'[req[q].fresh] = issued[req[q].fresh]
    BY <1>0, <2>2, <2>3
  <2> QED BY <1>0, <2>1, <2>2, <2>4
<1>14. ASSUME NEW r \in Requests, LockTimeout(r) PROVE FreshInv'
  BY <1>0, <1>14, AnswerEffect, IdleFields DEF LockTimeout, Steps, Waiting, Holding
<1>15. ASSUME NEW r \in Requests, DatabaseError(r) PROVE FreshInv'
  BY <1>0, <1>15, AnswerEffect, IdleFields DEF DatabaseError, Steps, Waiting, Holding
<1>16. ASSUME NEW r \in Requests, NEW raw \in RawKeys,
              NEW op \in {"use", "revoke", "regenerate"},
              NEW k \in KeyIds \cup {None}, NEW n \in RawKeys \cup {None},
              Arrive(r, raw, op, k, n)
       PROVE  FreshInv'
  <2>1. /\ \A q \in Requests : q # r => req'[q] = req[q]
        /\ req'[r].fresh = None \/ (req'[r].fresh = n /\ (n # None => FreshRaw(n)))
    BY <1>0, <1>16, ArriveEffect, IdleFields
  <2>2. UNCHANGED <<rows, issued>>
    BY <1>16 DEF Arrive
  <2> QED BY <1>0, <2>1, <2>2 DEF FreshRaw
<1>17. ASSUME NEW r \in Requests, NEW e \in Emails, NEW t \in TenantIds,
              NEW k \in KeyIds, NEW n \in RawKeys, Register(r, e, t, k, n)
       PROVE  FreshInv'
  <2>1. /\ \A q \in Requests : q # r => req'[q] = req[q]
        /\ req'[r].fresh = n /\ FreshRaw(n)
    BY <1>0, <1>17, RegisterEffect
  <2>2. UNCHANGED <<rows, issued>>
    BY <1>17 DEF Register
  <2> QED BY <1>0, <2>1, <2>2 DEF FreshRaw
<1>18. ASSUME Crash PROVE FreshInv'
  BY <1>0, <1>18, IdleFields DEF Crash, Holding
<1> QED BY <1>1, <1>2, <1>3, <1>4, <1>5, <1>6, <1>7, <1>8, <1>9, <1>10, <1>11,
           <1>12, <1>13, <1>14, <1>15, <1>16, <1>17, <1>18 DEF Next, Step

\* A registration keeps the ids it has reserved.
LEMMA NewRowsInvStep == IInv /\ Next => NewRowsInv'
<1> SUFFICES ASSUME IInv, Next PROVE NewRowsInv'
  OBVIOUS
<1>0. TypeOK /\ RequestShape /\ NewRowsInv
  BY DEF IInv
<1> USE DEF NewRowsInv
<1>1. ASSUME NEW r \in Requests, SelectKey(r) PROVE NewRowsInv'
  <2>1. /\ \A q \in Requests : q # r => req'[q] = req[q]
        /\ req'[r].op = req[r].op /\ req'[r].op # "register"
    <3>1. req[r].op # "register"
      BY <1>0, <1>1 DEF SelectKey, RequestShape
    <3>2. /\ \A q \in Requests : q # r => req'[q] = req[q]
          /\ req'[r].op = req[r].op
      BY <1>0, <1>1, SelectKeyEffect
    <3> QED BY <3>1, <3>2
  <2>2. UNCHANGED <<tenants, rows, cache, issued>>
    BY <1>1 DEF SelectKey
  <2> QED BY <1>0, <2>1, <2>2
<1>2. ASSUME NEW r \in Requests, CacheRefusal(r) PROVE NewRowsInv'
  BY <1>0, <1>2, AnswerEffect, IdleFields DEF CacheRefusal, Steps, Waiting, Holding
<1>3. ASSUME NEW r \in Requests, Touch(r) PROVE NewRowsInv'
  BY <1>0, <1>3, GotoEffect DEF Touch, Steps, Waiting, Holding
<1>4. ASSUME NEW r \in Requests, CacheKey(r) PROVE NewRowsInv'
  BY <1>0, <1>4, GotoEffect DEF CacheKey, Steps, Waiting, Holding
<1>5. ASSUME NEW r \in Requests, CloseAuthSession(r) PROVE NewRowsInv'
  BY <1>0, <1>5, GotoEffect DEF CloseAuthSession, Steps, Waiting, Holding
<1>6. ASSUME NEW r \in Requests, Serve(r) PROVE NewRowsInv'
  BY <1>0, <1>6, AnswerEffect, IdleFields DEF Serve, Steps, Waiting, Holding
<1>7. ASSUME NEW r \in Requests, SelectOwn(r) PROVE NewRowsInv'
  BY <1>0, <1>7, GotoEffect, AnswerEffect, IdleFields DEF SelectOwn, Steps, Waiting, Holding
<1>8. ASSUME NEW r \in Requests, UpdateKey(r) PROVE NewRowsInv'
  BY <1>0, <1>8, GotoEffect DEF UpdateKey, Steps, Waiting, Holding
<1>9. ASSUME NEW r \in Requests, ClearCache(r) PROVE NewRowsInv'
  BY <1>0, <1>9, GotoEffect DEF ClearCache, Steps, Waiting, Holding
<1>10. ASSUME NEW r \in Requests, InsertTenant(r) PROVE NewRowsInv'
  BY <1>0, <1>10, GotoEffect, AnswerEffect, IdleFields DEF InsertTenant, Steps, Waiting, Holding
<1>11. ASSUME NEW r \in Requests, InsertKey(r) PROVE NewRowsInv'
  BY <1>0, <1>11, GotoEffect DEF InsertKey, Steps, Waiting, Holding
<1>12. ASSUME NEW r \in Requests, Commit(r) PROVE NewRowsInv'
  <2>1. \A q \in Requests : req'[q].op = req[q].op /\ req'[q].key = req[q].key
                                /\ req'[q].tenant = req[q].tenant
    BY <1>12, CommitEffect
  <2>2. ASSUME NEW q \in Requests, q # r, req[q].op = "register", req[q].pc # "reply"
        PROVE  rows'[req[q].key] = None /\ tenants'[req[q].tenant] = None
    <3>1. /\ rows[req[q].key] = None /\ tenants[req[q].tenant] = None
          /\ req[q].key \in KeyIds /\ req[q].tenant \in TenantIds
      BY <1>0, <2>2 DEF RequestShape, TypeOK, Request
    <3>2. req[q].key # req[r].key
      BY <1>0, <1>12, <2>2, <3>1, CommitEffect
    <3>3. req[r].op = "register" => req[q].tenant # req[r].tenant
      BY <1>0, <2>2
    <3> QED BY <1>12, <3>1, <3>2, <3>3, CommitEffect
  <2>3. \A q \in Requests : req'[q].pc # "reply" => q # r /\ req[q].pc # "reply"
    BY <1>12, CommitEffect
  <2> QED BY <1>0, <2>1, <2>2, <2>3
<1>13. ASSUME NEW r \in Requests, Reply(r) PROVE NewRowsInv'
  BY <1>0, <1>13, ReplyEffect, IdleFields
<1>14. ASSUME NEW r \in Requests, LockTimeout(r) PROVE NewRowsInv'
  BY <1>0, <1>14, AnswerEffect, IdleFields DEF LockTimeout, Steps, Waiting, Holding
<1>15. ASSUME NEW r \in Requests, DatabaseError(r) PROVE NewRowsInv'
  BY <1>0, <1>15, AnswerEffect, IdleFields DEF DatabaseError, Steps, Waiting, Holding
<1>16. ASSUME NEW r \in Requests, NEW raw \in RawKeys,
              NEW op \in {"use", "revoke", "regenerate"},
              NEW k \in KeyIds \cup {None}, NEW n \in RawKeys \cup {None},
              Arrive(r, raw, op, k, n)
       PROVE  NewRowsInv'
  <2>1. /\ \A q \in Requests : q # r => req'[q] = req[q]
        /\ req'[r].op # "register"
    BY <1>0, <1>16, ArriveEffect, IdleFields
  <2>2. UNCHANGED <<tenants, rows, cache, issued>>
    BY <1>16 DEF Arrive
  <2> QED BY <1>0, <2>1, <2>2
<1>17. ASSUME NEW r \in Requests, NEW e \in Emails, NEW t \in TenantIds,
              NEW k \in KeyIds, NEW n \in RawKeys, Register(r, e, t, k, n)
       PROVE  NewRowsInv'
  <2>1. /\ \A q \in Requests : q # r => req'[q] = req[q]
        /\ req'[r].key = k /\ req'[r].tenant = t /\ FreshKey(k) /\ FreshTenant(t)
    BY <1>0, <1>17, RegisterEffect
  <2>2. UNCHANGED <<tenants, rows, cache, issued>>
    BY <1>17 DEF Register
  <2> QED BY <1>0, <2>1, <2>2 DEF FreshKey, FreshTenant
<1>18. ASSUME Crash PROVE NewRowsInv'
  BY <1>0, <1>18, IdleFields DEF Crash, Holding
<1> QED BY <1>1, <1>2, <1>3, <1>4, <1>5, <1>6, <1>7, <1>8, <1>9, <1>10, <1>11,
           <1>12, <1>13, <1>14, <1>15, <1>16, <1>17, <1>18 DEF Next, Step

\* A key shown to a client keeps naming the row it was shown for.
LEMMA IssuedInvStep == IInv /\ Next => IssuedInv'
<1> SUFFICES ASSUME IInv, Next PROVE IssuedInv'
  OBVIOUS
<1>0. TypeOK /\ RequestShape /\ IssuedInv
  BY DEF IInv
<1> USE DEF IssuedInv
<1>1. ASSUME NEW r \in Requests, SelectKey(r) PROVE IssuedInv'
  <2>1. /\ \A q \in Requests : q # r => req'[q] = req[q]
        /\ req'[r].raw = req[r].raw /\ req'[r].pc # "reply"
    BY <1>0, <1>1, SelectKeyEffect
  <2>2. UNCHANGED <<tenants, rows, cache, issued>>
    BY <1>1 DEF SelectKey
  <2> QED BY <1>0, <2>1, <2>2
<1>2. ASSUME NEW r \in Requests, CacheRefusal(r) PROVE IssuedInv'
  <2>1. req[r].raw # None /\ UNCHANGED <<rows, issued>>
    BY <1>2, CacheRefusalEffect, ConstantsAssumption
  <2>2. \A i \in DOMAIN cache' : issued[cache'[i].raw] # None
    BY <1>0, <1>2, <2>1, CacheRefusalEffect
  <2>3. /\ \A q \in Requests : q # r => req'[q] = req[q]
        /\ req'[r].raw = None /\ req'[r].pc = "idle"
    BY <1>2, CacheRefusalEffect, IdleFields
  <2> QED BY <1>0, <2>1, <2>2, <2>3
<1>3. ASSUME NEW r \in Requests, Touch(r) PROVE IssuedInv'
  BY <1>0, <1>3, GotoEffect DEF Touch, Steps, Waiting, Holding
<1>4. ASSUME NEW r \in Requests, CacheKey(r) PROVE IssuedInv'
  <2>1. req[r].raw # None /\ UNCHANGED <<rows, issued>>
    BY <1>4, CacheKeyEffect, ConstantsAssumption
  <2>2. \A i \in DOMAIN cache' : issued[cache'[i].raw] # None
    BY <1>0, <1>4, <2>1, CacheKeyEffect
  <2>3. /\ \A q \in Requests : q # r => req'[q] = req[q]
        /\ req'[r].raw = req[r].raw /\ req'[r].pc = "close"
    BY <1>4, CacheKeyEffect
  <2> QED BY <1>0, <2>1, <2>2, <2>3
<1>5. ASSUME NEW r \in Requests, CloseAuthSession(r) PROVE IssuedInv'
  BY <1>0, <1>5, GotoEffect DEF CloseAuthSession, Steps, Waiting, Holding
<1>6. ASSUME NEW r \in Requests, Serve(r) PROVE IssuedInv'
  BY <1>0, <1>6, AnswerEffect, IdleFields DEF Serve, Steps, Waiting, Holding
<1>7. ASSUME NEW r \in Requests, SelectOwn(r) PROVE IssuedInv'
  BY <1>0, <1>7, GotoEffect, AnswerEffect, IdleFields DEF SelectOwn, Steps, Waiting, Holding
<1>8. ASSUME NEW r \in Requests, UpdateKey(r) PROVE IssuedInv'
  BY <1>0, <1>8, GotoEffect DEF UpdateKey, Steps, Waiting, Holding
<1>9. ASSUME NEW r \in Requests, ClearCache(r) PROVE IssuedInv'
  <2>1. DOMAIN cache' = {}
    BY <1>9 DEF ClearCache
  <2>2. /\ \A q \in Requests : q # r => req'[q] = req[q]
        /\ req'[r].raw = req[r].raw /\ req'[r].pc = "commit"
        /\ UNCHANGED <<rows, issued>>
    BY <1>0, <1>9, GotoEffect DEF ClearCache, Steps, Holding
  <2> QED BY <1>0, <2>1, <2>2
<1>10. ASSUME NEW r \in Requests, InsertTenant(r) PROVE IssuedInv'
  BY <1>0, <1>10, GotoEffect, AnswerEffect, IdleFields DEF InsertTenant, Steps, Waiting, Holding
<1>11. ASSUME NEW r \in Requests, InsertKey(r) PROVE IssuedInv'
  BY <1>0, <1>11, GotoEffect DEF InsertKey, Steps, Waiting, Holding
<1>12. ASSUME NEW r \in Requests, Commit(r) PROVE IssuedInv'
  <2>1. Written(r).hash = IF req[r].op = "revoke" THEN rows[req[r].key].hash
                                                  ELSE req[r].fresh
    BY <1>12, CommitWrites
  <2>2. FreshInv /\ req[r].key \in KeyIds
    BY <1>12, CommitWrites DEF IInv
  <2>3. ASSUME NEW k \in KeyIds, rows'[k] # None, issued[rows'[k].hash] # None
        PROVE  issued[rows'[k].hash] = k
    BY <1>0, <1>12, <2>1, <2>2, <2>3, CommitEffect DEF FreshInv
  <2>4. \A k \in KeyIds : rows[k] # None => rows'[k] # None
    BY <1>12, CommitEffect
  <2>5. \A q \in Requests : req'[q].pc = "reply" => rows'[req'[q].key] # None
    <3>1. \A q \in Requests : req[q].pc = "reply" => req[q].key \in KeyIds
      BY <1>0 DEF RequestShape, TypeOK, Request
    <3> QED BY <1>0, <1>12, <2>4, <3>1, CommitEffect
  <2>6. \A n \in RawKeys : issued[n] # None => issued[n] \in KeyIds
    BY <1>0 DEF TypeOK
  <2>7. \A q \in Requests : req'[q].raw = req[q].raw
    BY <1>12, CommitEffect
  <2>8. issued' = issued /\ cache' = cache
    BY <1>12, CommitEffect
  <2> QED BY <1>0, <2>3, <2>4, <2>5, <2>6, <2>7, <2>8
<1>13. ASSUME NEW r \in Requests, Reply(r) PROVE IssuedInv'
  <2>1. CASE req[r].fresh = None
    <3>1. /\ \A q \in Requests : q # r => req'[q] = req[q]
          /\ req'[r].raw = None /\ req'[r].pc = "idle"
          /\ UNCHANGED <<rows, cache, issued>>
      BY <1>13, <2>1, ReplyEffect, IdleFields
    <3> QED BY <1>0, <3>1
  <2>2. CASE req[r].fresh # None
    <3>1. /\ req[r].fresh \in RawKeys /\ req[r].key \in KeyIds
          /\ issued'[req[r].fresh] = req[r].key
          /\ \A n \in RawKeys : n # req[r].fresh => issued'[n] = issued[n]
          /\ rows' = rows /\ cache' = cache /\ req[r].pc = "reply"
      BY <1>13, <2>2, ReplyEffect
    <3>2. /\ FreshInv /\ rows[req[r].key] # None /\ req[r].key # None
      BY <1>0, <3>1, ConstantsAssumption DEF IInv
    <3>3. \A k \in KeyIds : rows[k] # None => rows[k].hash \in RawKeys
      BY <1>0 DEF TypeOK, Row
    <3>4. \A n \in RawKeys : issued[n] # None => issued'[n] # None
      BY <3>1, <3>2
    <3>5. \A q \in Requests : req'[q].raw # None => issued'[req'[q].raw] # None
      <4>1. \A q \in Requests : req[q].raw # None => req[q].raw \in RawKeys
        BY <1>0 DEF TypeOK, Request
      <4> QED BY <1>0, <1>13, <3>4, <4>1, ReplyEffect, IdleFields
    <3>6. \A q \in Requests : req'[q].pc = "reply" => rows'[req'[q].key] # None
      BY <1>0, <1>13, <3>1, ReplyEffect, IdleFields
    <3>7. \A i \in DOMAIN cache : cache[i].raw \in RawKeys
      BY <1>0, CacheEntryType
    <3>8. \A k \in KeyIds :
            rows[k] # None /\ issued'[rows[k].hash] # None => issued'[rows[k].hash] = k
      <4> SUFFICES ASSUME NEW k \in KeyIds, rows[k] # None,
                          issued'[rows[k].hash] # None
                   PROVE  issued'[rows[k].hash] = k
        OBVIOUS
      <4>1. CASE rows[k].hash = req[r].fresh
        BY <2>2, <3>1, <3>2, <4>1 DEF FreshInv
      <4>2. CASE rows[k].hash # req[r].fresh
        BY <1>0, <3>1, <3>3, <4>2
      <4> QED BY <4>1, <4>2
    <3>9. \A n \in RawKeys : issued'[n] # None => rows[issued'[n]] # None
      BY <1>0, <3>1, <3>2
    <3> QED BY <1>0, <3>1, <3>4, <3>5, <3>6, <3>7, <3>8, <3>9
  <2> QED BY <2>1, <2>2
<1>14. ASSUME NEW r \in Requests, LockTimeout(r) PROVE IssuedInv'
  BY <1>0, <1>14, AnswerEffect, IdleFields DEF LockTimeout, Steps, Waiting, Holding
<1>15. ASSUME NEW r \in Requests, DatabaseError(r) PROVE IssuedInv'
  BY <1>0, <1>15, AnswerEffect, IdleFields DEF DatabaseError, Steps, Waiting, Holding
<1>16. ASSUME NEW r \in Requests, NEW raw \in RawKeys,
              NEW op \in {"use", "revoke", "regenerate"},
              NEW k \in KeyIds \cup {None}, NEW n \in RawKeys \cup {None},
              Arrive(r, raw, op, k, n)
       PROVE  IssuedInv'
  <2>1. /\ \A q \in Requests : q # r => req'[q] = req[q]
        /\ req'[r].raw = None \/ issued[req'[r].raw] # None
        /\ req'[r].pc # "reply"
    BY <1>0, <1>16, ArriveEffect, IdleFields
  <2>2. UNCHANGED <<tenants, rows, cache, issued>>
    BY <1>16 DEF Arrive
  <2> QED BY <1>0, <2>1, <2>2
<1>17. ASSUME NEW r \in Requests, NEW e \in Emails, NEW t \in TenantIds,
              NEW k \in KeyIds, NEW n \in RawKeys, Register(r, e, t, k, n)
       PROVE  IssuedInv'
  <2>1. /\ \A q \in Requests : q # r => req'[q] = req[q]
        /\ req'[r].raw = None /\ req'[r].pc = "insertTenant"
    BY <1>0, <1>17, RegisterEffect
  <2>2. UNCHANGED <<tenants, rows, cache, issued>>
    BY <1>17 DEF Register
  <2> QED BY <1>0, <2>1, <2>2
<1>18. ASSUME Crash PROVE IssuedInv'
  BY <1>0, <1>18, IdleFields DEF Crash, Holding
<1> QED BY <1>1, <1>2, <1>3, <1>4, <1>5, <1>6, <1>7, <1>8, <1>9, <1>10, <1>11,
           <1>12, <1>13, <1>14, <1>15, <1>16, <1>17, <1>18 DEF Next, Step

\* An authenticated request acts for the tenant its token was issued to.
LEMMA OwnerInvStep == IInv /\ Next => OwnerInv'
<1> SUFFICES ASSUME IInv, Next PROVE OwnerInv'
  OBVIOUS
<1>0. TypeOK /\ RequestShape /\ OwnerInv
  BY DEF IInv
<1> USE DEF OwnerInv
<1>1. ASSUME NEW r \in Requests, SelectKey(r) PROVE OwnerInv'
  <2>1. /\ \A q \in Requests : q # r => req'[q] = req[q]
        /\ req'[r].op = req[r].op /\ req'[r].raw = req[r].raw
        /\ req'[r].pc \in {"touch", "absent"}
        /\ req'[r].pc = "absent" => req'[r].found = req[r].found
                                   /\ req'[r].tenant = req[r].tenant
    BY <1>0, <1>1, SelectKeyEffect
  <2>2. UNCHANGED <<rows, issued>>
    BY <1>1 DEF SelectKey
  <2>3. req[r].raw # None /\ issued[req[r].raw] # None
    BY <1>0, <1>1 DEF SelectKey, RequestShape, IInv, IssuedInv
  <2>4. req'[r].pc = "touch" =>
          /\ issued[req[r].raw] = req'[r].found
          /\ rows[req'[r].found] # None
          /\ rows[req'[r].found].tenant = req'[r].tenant
    BY <1>0, <1>1, <2>3, SelectKeyEffect DEF IInv, IssuedInv
  <2> QED BY <1>0, <2>1, <2>2, <2>3, <2>4
<1>2. ASSUME NEW r \in Requests, CacheRefusal(r) PROVE OwnerInv'
  BY <1>0, <1>2, CacheRefusalEffect, IdleFields
<1>3. ASSUME NEW r \in Requests, Touch(r) PROVE OwnerInv'
  BY <1>0, <1>3, GotoEffect DEF Touch, Steps, Waiting, Holding
<1>4. ASSUME NEW r \in Requests, CacheKey(r) PROVE OwnerInv'
  BY <1>0, <1>4, CacheKeyEffect
<1>5. ASSUME NEW r \in Requests, CloseAuthSession(r) PROVE OwnerInv'
  BY <1>0, <1>5, GotoEffect DEF CloseAuthSession, Steps, Waiting, Holding
<1>6. ASSUME NEW r \in Requests, Serve(r) PROVE OwnerInv'
  BY <1>0, <1>6, AnswerEffect, IdleFields DEF Serve, Steps, Waiting, Holding
<1>7. ASSUME NEW r \in Requests, SelectOwn(r) PROVE OwnerInv'
  BY <1>0, <1>7, GotoEffect, AnswerEffect, IdleFields DEF SelectOwn, Steps, Waiting, Holding
<1>8. ASSUME NEW r \in Requests, UpdateKey(r) PROVE OwnerInv'
  BY <1>0, <1>8, GotoEffect DEF UpdateKey, Steps, Waiting, Holding
<1>9. ASSUME NEW r \in Requests, ClearCache(r) PROVE OwnerInv'
  BY <1>0, <1>9, GotoEffect DEF ClearCache, Steps, Waiting, Holding
<1>10. ASSUME NEW r \in Requests, InsertTenant(r) PROVE OwnerInv'
  BY <1>0, <1>10, GotoEffect, AnswerEffect, IdleFields DEF InsertTenant, Steps, Waiting, Holding
<1>11. ASSUME NEW r \in Requests, InsertKey(r) PROVE OwnerInv'
  <2>1. /\ \A q \in Requests : q # r => req'[q] = req[q]
        /\ req'[r].op = "register" /\ req'[r].found = None
        /\ UNCHANGED <<rows, issued>>
    BY <1>0, <1>11, GotoEffect DEF InsertKey, Steps, Holding, RequestShape, TypeOK, Request
  <2> QED BY <1>0, <2>1
<1>12. ASSUME NEW r \in Requests, Commit(r) PROVE OwnerInv'
  <2>1. \A q \in Requests :
          /\ req'[q].op = req[q].op /\ req'[q].raw = req[q].raw
          /\ req'[q].found = req[q].found /\ req'[q].tenant = req[q].tenant
          /\ req'[q].key = req[q].key
          /\ req'[q].pc \in {"update", "flushed", "commit"} => req'[q].pc = req[q].pc
    BY <1>12, CommitEffect
  <2>2. \A q \in Requests :
          /\ req[q].found # None => req[q].found \in KeyIds
          /\ req[q].key # None => req[q].key \in KeyIds
          /\ req[q].pc \in {"update", "flushed", "commit"} => req[q].key # None
    BY <1>0 DEF TypeOK, RequestShape, Request
  <2>3. \A k \in KeyIds :
          rows[k] # None => rows'[k] # None /\ rows'[k].tenant = rows[k].tenant
    BY <1>12, CommitKeepsTenant
  <2>4. issued' = issued
    BY <1>12, CommitEffect
  <2> QED BY <1>0, <2>1, <2>2, <2>3, <2>4
<1>13. ASSUME NEW r \in Requests, Reply(r) PROVE OwnerInv'
  <2>1. /\ \A q \in Requests : q # r => req'[q] = req[q]
        /\ req'[r] = Idle /\ rows' = rows
    BY <1>13, ReplyEffect
  <2>2. \A n \in RawKeys : issued[n] # None => issued'[n] = issued[n]
    BY <1>13, ReplyKeepsIssued
  <2>3. \A q \in Requests : req[q].found # None =>
          req[q].raw \in RawKeys /\ issued[req[q].raw] # None
    BY <1>0, ConstantsAssumption DEF TypeOK, Request
  <2> QED BY <1>0, <2>1, <2>2, <2>3, IdleFields
<1>14. ASSUME NEW r \in Requests, LockTimeout(r) PROVE OwnerInv'
  BY <1>0, <1>14, AnswerEffect, IdleFields DEF LockTimeout, Steps, Waiting, Holding
<1>15. ASSUME NEW r \in Requests, DatabaseError(r) PROVE OwnerInv'
  BY <1>0, <1>15, AnswerEffect, IdleFields DEF DatabaseError, Steps, Waiting, Holding
<1>16. ASSUME NEW r \in Requests, NEW raw \in RawKeys,
              NEW op \in {"use", "revoke", "regenerate"},
              NEW k \in KeyIds \cup {None}, NEW n \in RawKeys \cup {None},
              Arrive(r, raw, op, k, n)
       PROVE  OwnerInv'
  <2>1. UNCHANGED <<rows, issued>>
    BY <1>16 DEF Arrive
  <2>2. /\ \A q \in Requests : q # r => req'[q] = req[q]
        /\ req'[r].pc \in {"idle", "select", "route"}
    BY <1>0, <1>16, ArriveEffect, IdleFields
  <2>3. req'[r].found # None => /\ req'[r].raw # None
                                /\ issued[req'[r].raw] = req'[r].found
                                /\ rows[req'[r].found] # None
                                /\ rows[req'[r].found].tenant = req'[r].tenant
    BY <1>0, <1>16, ArriveEffect, IdleFields, ConstantsAssumption DEF IInv, CacheProvenance
  <2> QED BY <1>0, <2>1, <2>2, <2>3
<1>17. ASSUME NEW r \in Requests, NEW e \in Emails, NEW t \in TenantIds,
              NEW k \in KeyIds, NEW n \in RawKeys, Register(r, e, t, k, n)
       PROVE  OwnerInv'
  <2>1. /\ \A q \in Requests : q # r => req'[q] = req[q]
        /\ req'[r].op = "register" /\ req'[r].found = None
    BY <1>0, <1>17, RegisterEffect
  <2>2. UNCHANGED <<tenants, rows, cache, issued>>
    BY <1>17 DEF Register
  <2> QED BY <1>0, <2>1, <2>2
<1>18. ASSUME Crash PROVE OwnerInv'
  BY <1>0, <1>18, IdleFields DEF Crash, Holding
<1> QED BY <1>1, <1>2, <1>3, <1>4, <1>5, <1>6, <1>7, <1>8, <1>9, <1>10, <1>11,
           <1>12, <1>13, <1>14, <1>15, <1>16, <1>17, <1>18 DEF Next, Step

\* A cached acceptance names the owner of the token.
LEMMA CacheProvenanceStep == IInv /\ Next => CacheProvenance'
<1> SUFFICES ASSUME IInv, Next PROVE CacheProvenance'
  OBVIOUS
<1>0. TypeOK /\ RequestShape /\ CacheProvenance
  BY DEF IInv
<1> USE DEF CacheProvenance
<1>1. ASSUME NEW r \in Requests, SelectKey(r) PROVE CacheProvenance'
  BY <1>0, <1>1, SelectKeyEffect DEF SelectKey, Steps, Waiting, Holding
<1>2. ASSUME NEW r \in Requests, CacheRefusal(r) PROVE CacheProvenance'
  <2>1. UNCHANGED <<rows, issued>>
    BY <1>2, CacheRefusalEffect
  <2>2. \A i \in DOMAIN cache' : cache'[i].val # None =>
          \E j \in DOMAIN cache : cache'[i] = cache[j]
    BY <1>2, CacheRefusalEffect
  <2> QED BY <1>0, <2>1, <2>2
<1>3. ASSUME NEW r \in Requests, Touch(r) PROVE CacheProvenance'
  BY <1>0, <1>3, GotoEffect DEF Touch, Steps, Waiting, Holding
<1>4. ASSUME NEW r \in Requests, CacheKey(r) PROVE CacheProvenance'
  <2>1. UNCHANGED <<rows, issued>>
    BY <1>4, CacheKeyEffect
  <2>2. /\ issued[req[r].raw] = req[r].found
        /\ rows[req[r].found] # None
        /\ rows[req[r].found].tenant = req[r].tenant
    BY <1>4, CacheKeyEffect, ConstantsAssumption DEF IInv, OwnerInv
  <2>3. SUFFICES ASSUME NEW i \in DOMAIN cache', cache'[i].val # None
                 PROVE  /\ issued[cache'[i].raw] = cache'[i].val.key
                        /\ rows[cache'[i].val.key] # None
                        /\ rows[cache'[i].val.key].tenant = cache'[i].val.tenant
    BY <2>1
  <2>4. CASE \E j \in DOMAIN cache : cache'[i] = cache[j]
    BY <1>0, <2>3, <2>4
  <2>5. CASE ~ \E j \in DOMAIN cache : cache'[i] = cache[j]
    BY <1>4, <2>2, <2>5, CacheKeyEffect
  <2> QED BY <2>4, <2>5
<1>5. ASSUME NEW r \in Requests, CloseAuthSession(r) PROVE CacheProvenance'
  BY <1>0, <1>5, GotoEffect DEF CloseAuthSession, Steps, Waiting, Holding
<1>6. ASSUME NEW r \in Requests, Serve(r) PROVE CacheProvenance'
  BY <1>0, <1>6, AnswerEffect, IdleFields DEF Serve, Steps, Waiting, Holding
<1>7. ASSUME NEW r \in Requests, SelectOwn(r) PROVE CacheProvenance'
  BY <1>0, <1>7, GotoEffect, AnswerEffect, IdleFields DEF SelectOwn, Steps, Waiting, Holding
<1>8. ASSUME NEW r \in Requests, UpdateKey(r) PROVE CacheProvenance'
  BY <1>0, <1>8, GotoEffect DEF UpdateKey, Steps, Waiting, Holding
<1>9. ASSUME NEW r \in Requests, ClearCache(r) PROVE CacheProvenance'
  BY <1>0, <1>9, GotoEffect DEF ClearCache, Steps, Waiting, Holding
<1>10. ASSUME NEW r \in Requests, InsertTenant(r) PROVE CacheProvenance'
  BY <1>0, <1>10, GotoEffect, AnswerEffect, IdleFields DEF InsertTenant, Steps, Waiting, Holding
<1>11. ASSUME NEW r \in Requests, InsertKey(r) PROVE CacheProvenance'
  BY <1>0, <1>11, GotoEffect DEF InsertKey, Steps, Waiting, Holding
<1>12. ASSUME NEW r \in Requests, Commit(r) PROVE CacheProvenance'
  <2>1. issued' = issued /\ cache' = cache
    BY <1>12, CommitEffect
  <2>2. \A i \in DOMAIN cache : cache[i].val # None => cache[i].val.key \in KeyIds
    BY <1>0, CacheEntryType DEF ValidatedKey
  <2>3. \A k \in KeyIds :
          rows[k] # None => rows'[k] # None /\ rows'[k].tenant = rows[k].tenant
    BY <1>12, CommitKeepsTenant
  <2> QED BY <1>0, <2>1, <2>2, <2>3
<1>13. ASSUME NEW r \in Requests, Reply(r) PROVE CacheProvenance'
  <2>1. rows' = rows /\ cache' = cache
    BY <1>13, ReplyEffect
  <2>2. \A i \in DOMAIN cache : cache[i].raw \in RawKeys /\ issued[cache[i].raw] # None
    BY <1>0, CacheEntryType DEF IInv, IssuedInv
  <2>3. \A i \in DOMAIN cache : issued'[cache[i].raw] = issued[cache[i].raw]
    BY <1>13, <2>2, ReplyKeepsIssued
  <2> QED BY <1>0, <2>1, <2>3
<1>14. ASSUME NEW r \in Requests, LockTimeout(r) PROVE CacheProvenance'
  BY <1>0, <1>14, AnswerEffect, IdleFields DEF LockTimeout, Steps, Waiting, Holding
<1>15. ASSUME NEW r \in Requests, DatabaseError(r) PROVE CacheProvenance'
  BY <1>0, <1>15, AnswerEffect, IdleFields DEF DatabaseError, Steps, Waiting, Holding
<1>16. ASSUME NEW r \in Requests, NEW raw \in RawKeys,
              NEW op \in {"use", "revoke", "regenerate"},
              NEW k \in KeyIds \cup {None}, NEW n \in RawKeys \cup {None},
              Arrive(r, raw, op, k, n)
       PROVE  CacheProvenance'
  <2>1. UNCHANGED <<tenants, rows, cache, issued>>
    BY <1>16 DEF Arrive
  <2> QED BY <1>0, <2>1
<1>17. ASSUME NEW r \in Requests, NEW e \in Emails, NEW t \in TenantIds,
              NEW k \in KeyIds, NEW n \in RawKeys, Register(r, e, t, k, n)
       PROVE  CacheProvenance'
  BY <1>0, <1>17, RegisterEffect DEF Register, Holding
<1>18. ASSUME Crash PROVE CacheProvenance'
  BY <1>0, <1>18, IdleFields DEF Crash, Holding
<1> QED BY <1>1, <1>2, <1>3, <1>4, <1>5, <1>6, <1>7, <1>8, <1>9, <1>10, <1>11,
           <1>12, <1>13, <1>14, <1>15, <1>16, <1>17, <1>18 DEF Next, Step

\* A refusal about to be cached stays right.
LEMMA AbsentInvStep == IInv /\ Next => AbsentInv'
<1> SUFFICES ASSUME IInv, Next PROVE AbsentInv'
  OBVIOUS
<1>0. TypeOK /\ RequestShape /\ AbsentInv
  BY DEF IInv
<1> USE DEF AbsentInv, Live
<1>1. ASSUME NEW r \in Requests, SelectKey(r) PROVE AbsentInv'
  <2>1. /\ \A q \in Requests : q # r => req'[q] = req[q]
        /\ req'[r].raw = req[r].raw
        /\ req'[r].pc = "touch" \/ ~Live(req[r].raw)
    BY <1>0, <1>1, SelectKeyEffect
  <2>2. rows' = rows
    BY <1>1 DEF SelectKey
  <2> QED BY <1>0, <2>1, <2>2
<1>2. ASSUME NEW r \in Requests, CacheRefusal(r) PROVE AbsentInv'
  BY <1>0, <1>2, CacheRefusalEffect, IdleFields
<1>3. ASSUME NEW r \in Requests, Touch(r) PROVE AbsentInv'
  BY <1>0, <1>3, GotoEffect DEF Touch, Steps, Waiting, Holding
<1>4. ASSUME NEW r \in Requests, CacheKey(r) PROVE AbsentInv'
  BY <1>0, <1>4, CacheKeyEffect
<1>5. ASSUME NEW r \in Requests, CloseAuthSession(r) PROVE AbsentInv'
  BY <1>0, <1>5, GotoEffect DEF CloseAuthSession, Steps, Waiting, Holding
<1>6. ASSUME NEW r \in Requests, Serve(r) PROVE AbsentInv'
  BY <1>0, <1>6, AnswerEffect, IdleFields DEF Serve, Steps, Waiting, Holding
<1>7. ASSUME NEW r \in Requests, SelectOwn(r) PROVE AbsentInv'
  BY <1>0, <1>7, GotoEffect, AnswerEffect, IdleFields DEF SelectOwn, Steps, Waiting, Holding
<1>8. ASSUME NEW r \in Requests, UpdateKey(r) PROVE AbsentInv'
  BY <1>0, <1>8, GotoEffect DEF UpdateKey, Steps, Waiting, Holding
<1>9. ASSUME NEW r \in Requests, ClearCache(r) PROVE AbsentInv'
  BY <1>0, <1>9, GotoEffect DEF ClearCache, Steps, Waiting, Holding
<1>10. ASSUME NEW r \in Requests, InsertTenant(r) PROVE AbsentInv'
  BY <1>0, <1>10, GotoEffect, AnswerEffect, IdleFields DEF InsertTenant, Steps, Waiting, Holding
<1>11. ASSUME NEW r \in Requests, InsertKey(r) PROVE AbsentInv'
  BY <1>0, <1>11, GotoEffect DEF InsertKey, Steps, Waiting, Holding
<1>12. ASSUME NEW r \in Requests, Commit(r) PROVE AbsentInv'
  <2>1. issued' = issued /\ cache' = cache
    BY <1>12, CommitEffect
  <2>2. \A q \in Requests : req[q].pc = "absent" =>
          req[q].raw \in RawKeys /\ issued[req[q].raw] # None
    BY <1>0 DEF TypeOK, RequestShape, Request, IInv, IssuedInv
  <2>3. \A q \in Requests : req'[q].pc = "absent" =>
          req[q].pc = "absent" /\ req'[q].raw = req[q].raw
    BY <1>12, CommitEffect
  <2>4. ASSUME NEW q \in Requests, req[q].pc = "absent"
        PROVE  (~Live(req[q].raw))'
    <3>1. ~Live(req[q].raw)
      BY <1>0, <2>4
    <3>2. PICK raw \in RawKeys : raw = req[q].raw
      BY <2>2, <2>4
    <3>3. ~Live(raw)'
      BY <1>12, <2>2, <2>4, <3>1, <3>2, CommitKeepsDead
    <3>4. req'[q].raw = raw
      BY <1>12, <3>2, CommitEffect
    <3> QED BY <3>3, <3>4 DEF Live
  <2> QED BY <2>3, <2>4
<1>13. ASSUME NEW r \in Requests, Reply(r) PROVE AbsentInv'
  BY <1>0, <1>13, ReplyEffect, IdleFields
<1>14. ASSUME NEW r \in Requests, LockTimeout(r) PROVE AbsentInv'
  BY <1>0, <1>14, AnswerEffect, IdleFields DEF LockTimeout, Steps, Waiting, Holding
<1>15. ASSUME NEW r \in Requests, DatabaseError(r) PROVE AbsentInv'
  BY <1>0, <1>15, AnswerEffect, IdleFields DEF DatabaseError, Steps, Waiting, Holding
<1>16. ASSUME NEW r \in Requests, NEW raw \in RawKeys,
              NEW op \in {"use", "revoke", "regenerate"},
              NEW k \in KeyIds \cup {None}, NEW n \in RawKeys \cup {None},
              Arrive(r, raw, op, k, n)
       PROVE  AbsentInv'
  <2>1. /\ \A q \in Requests : q # r => req'[q] = req[q]
        /\ req'[r].pc # "absent"
    BY <1>0, <1>16, ArriveEffect, IdleFields
  <2>2. UNCHANGED <<tenants, rows, cache, issued>>
    BY <1>16 DEF Arrive
  <2> QED BY <1>0, <2>1, <2>2
<1>17. ASSUME NEW r \in Requests, NEW e \in Emails, NEW t \in TenantIds,
              NEW k \in KeyIds, NEW n \in RawKeys, Register(r, e, t, k, n)
       PROVE  AbsentInv'
  <2>1. /\ \A q \in Requests : q # r => req'[q] = req[q]
        /\ req'[r].pc # "absent"
    BY <1>0, <1>17, RegisterEffect
  <2>2. UNCHANGED <<tenants, rows, cache, issued>>
    BY <1>17 DEF Register
  <2> QED BY <1>0, <2>1, <2>2
<1>18. ASSUME Crash PROVE AbsentInv'
  BY <1>0, <1>18, IdleFields DEF Crash, Holding
<1> QED BY <1>1, <1>2, <1>3, <1>4, <1>5, <1>6, <1>7, <1>8, <1>9, <1>10, <1>11,
           <1>12, <1>13, <1>14, <1>15, <1>16, <1>17, <1>18 DEF Next, Step

\* A cached refusal stays right.
LEMMA RefusalIsFinalStep == IInv /\ Next => RefusalIsFinal'
<1> SUFFICES ASSUME IInv, Next PROVE RefusalIsFinal'
  OBVIOUS
<1>0. TypeOK /\ RequestShape /\ RefusalIsFinal
  BY DEF IInv
<1> USE DEF RefusalIsFinal, Live
<1>1. ASSUME NEW r \in Requests, SelectKey(r) PROVE RefusalIsFinal'
  BY <1>0, <1>1, SelectKeyEffect DEF SelectKey, Steps, Waiting, Holding
<1>2. ASSUME NEW r \in Requests, CacheRefusal(r) PROVE RefusalIsFinal'
  <2>1. rows' = rows /\ ~Live(req[r].raw)
    BY <1>2, CacheRefusalEffect DEF IInv, AbsentInv
  <2> QED BY <1>0, <1>2, <2>1, CacheRefusalEffect
<1>3. ASSUME NEW r \in Requests, Touch(r) PROVE RefusalIsFinal'
  BY <1>0, <1>3, GotoEffect DEF Touch, Steps, Waiting, Holding
<1>4. ASSUME NEW r \in Requests, CacheKey(r) PROVE RefusalIsFinal'
  BY <1>0, <1>4, CacheKeyEffect
<1>5. ASSUME NEW r \in Requests, CloseAuthSession(r) PROVE RefusalIsFinal'
  BY <1>0, <1>5, GotoEffect DEF CloseAuthSession, Steps, Waiting, Holding
<1>6. ASSUME NEW r \in Requests, Serve(r) PROVE RefusalIsFinal'
  BY <1>0, <1>6, AnswerEffect, IdleFields DEF Serve, Steps, Waiting, Holding
<1>7. ASSUME NEW r \in Requests, SelectOwn(r) PROVE RefusalIsFinal'
  BY <1>0, <1>7, GotoEffect, AnswerEffect, IdleFields DEF SelectOwn, Steps, Waiting, Holding
<1>8. ASSUME NEW r \in Requests, UpdateKey(r) PROVE RefusalIsFinal'
  BY <1>0, <1>8, GotoEffect DEF UpdateKey, Steps, Waiting, Holding
<1>9. ASSUME NEW r \in Requests, ClearCache(r) PROVE RefusalIsFinal'
  BY <1>0, <1>9, GotoEffect DEF ClearCache, Steps, Waiting, Holding
<1>10. ASSUME NEW r \in Requests, InsertTenant(r) PROVE RefusalIsFinal'
  BY <1>0, <1>10, GotoEffect, AnswerEffect, IdleFields DEF InsertTenant, Steps, Waiting, Holding
<1>11. ASSUME NEW r \in Requests, InsertKey(r) PROVE RefusalIsFinal'
  BY <1>0, <1>11, GotoEffect DEF InsertKey, Steps, Waiting, Holding
<1>12. ASSUME NEW r \in Requests, Commit(r) PROVE RefusalIsFinal'
  <2>1. cache' = cache
    BY <1>12, CommitEffect
  <2>2. ASSUME NEW i \in DOMAIN cache, cache[i].val = None
        PROVE  (~Live(cache[i].raw))'
    <3>1. ~Live(cache[i].raw)
      BY <1>0, <2>2
    <3>2. PICK raw \in RawKeys : raw = cache[i].raw
      BY <1>0, CacheEntryType
    <3>3. issued[raw] # None
      BY <3>2 DEF IInv, IssuedInv
    <3>4. ~Live(raw)'
      BY <1>12, <3>1, <3>2, <3>3, CommitKeepsDead
    <3> QED BY <2>1, <3>2, <3>4 DEF Live
  <2> QED BY <2>1, <2>2
<1>13. ASSUME NEW r \in Requests, Reply(r) PROVE RefusalIsFinal'
  BY <1>0, <1>13, ReplyEffect
<1>14. ASSUME NEW r \in Requests, LockTimeout(r) PROVE RefusalIsFinal'
  BY <1>0, <1>14, AnswerEffect, IdleFields DEF LockTimeout, Steps, Waiting, Holding
<1>15. ASSUME NEW r \in Requests, DatabaseError(r) PROVE RefusalIsFinal'
  BY <1>0, <1>15, AnswerEffect, IdleFields DEF DatabaseError, Steps, Waiting, Holding
<1>16. ASSUME NEW r \in Requests, NEW raw \in RawKeys,
              NEW op \in {"use", "revoke", "regenerate"},
              NEW k \in KeyIds \cup {None}, NEW n \in RawKeys \cup {None},
              Arrive(r, raw, op, k, n)
       PROVE  RefusalIsFinal'
  <2>1. UNCHANGED <<tenants, rows, cache, issued>>
    BY <1>16 DEF Arrive
  <2> QED BY <1>0, <2>1
<1>17. ASSUME NEW r \in Requests, NEW e \in Emails, NEW t \in TenantIds,
              NEW k \in KeyIds, NEW n \in RawKeys, Register(r, e, t, k, n)
       PROVE  RefusalIsFinal'
  BY <1>0, <1>17, RegisterEffect DEF Register, Holding
<1>18. ASSUME Crash PROVE RefusalIsFinal'
  BY <1>0, <1>18, IdleFields DEF Crash, Holding
<1> QED BY <1>1, <1>2, <1>3, <1>4, <1>5, <1>6, <1>7, <1>8, <1>9, <1>10, <1>11,
           <1>12, <1>13, <1>14, <1>15, <1>16, <1>17, <1>18 DEF Next, Step

\* At most one transaction holds an e-mail.
LEMMA EmailInvStep == IInv /\ Next => EmailInv'
<1> SUFFICES ASSUME IInv, Next PROVE EmailInv'
  OBVIOUS
<1>0. TypeOK /\ RequestShape /\ EmailInv
  BY DEF IInv
<1> USE DEF EmailInv, EmailTaken, EmailSettled
<1>1. ASSUME NEW r \in Requests, SelectKey(r) PROVE EmailInv'
  <2>1. /\ \A q \in Requests : q # r => req'[q] = req[q]
        /\ req'[r].pc \in {"touch", "absent"}
    BY <1>0, <1>1, SelectKeyEffect
  <2>2. UNCHANGED <<tenants, rows, cache, issued>>
    BY <1>1 DEF SelectKey
  <2> QED BY <1>0, <2>1, <2>2
<1>2. ASSUME NEW r \in Requests, CacheRefusal(r) PROVE EmailInv'
  BY <1>0, <1>2, CacheRefusalEffect, IdleFields
<1>3. ASSUME NEW r \in Requests, Touch(r) PROVE EmailInv'
  BY <1>0, <1>3, GotoEffect DEF Touch, Steps, Waiting, Holding
<1>4. ASSUME NEW r \in Requests, CacheKey(r) PROVE EmailInv'
  BY <1>0, <1>4, CacheKeyEffect
<1>5. ASSUME NEW r \in Requests, CloseAuthSession(r) PROVE EmailInv'
  BY <1>0, <1>5, GotoEffect DEF CloseAuthSession, Steps, Waiting, Holding
<1>6. ASSUME NEW r \in Requests, Serve(r) PROVE EmailInv'
  BY <1>0, <1>6, AnswerEffect, IdleFields DEF Serve, Steps, Waiting, Holding
<1>7. ASSUME NEW r \in Requests, SelectOwn(r) PROVE EmailInv'
  BY <1>0, <1>7, GotoEffect, AnswerEffect, IdleFields DEF SelectOwn, Steps, Waiting, Holding
<1>8. ASSUME NEW r \in Requests, UpdateKey(r) PROVE EmailInv'
  BY <1>0, <1>8, GotoEffect DEF UpdateKey, Steps, Waiting, Holding
<1>9. ASSUME NEW r \in Requests, ClearCache(r) PROVE EmailInv'
  <2>1. /\ \A q \in Requests : q # r => req'[q] = req[q]
        /\ req'[r].email = req[r].email /\ req'[r].op = req[r].op
        /\ req[r].pc = "flushed" /\ tenants' = tenants
    BY <1>0, <1>9, GotoEffect DEF ClearCache, Steps, Holding
  <2>2. req[r].op # "register" /\ req[r].email = None
    BY <1>0, <2>1 DEF RequestShape
  <2>3. \A q \in Requests : req[q].op = "register" => req[q].email # None
    BY <1>0 DEF RequestShape
  <2> QED BY <1>0, <2>1, <2>2, <2>3
<1>10. ASSUME NEW r \in Requests, InsertTenant(r) PROVE EmailInv'
  BY <1>0, <1>10, GotoEffect, AnswerEffect, IdleFields DEF InsertTenant, Steps, Waiting, Holding
<1>11. ASSUME NEW r \in Requests, InsertKey(r) PROVE EmailInv'
  BY <1>0, <1>11, GotoEffect DEF InsertKey, Steps, Waiting, Holding
<1>12. ASSUME NEW r \in Requests, Commit(r) PROVE EmailInv'
  <2>1. \A q \in Requests :
          /\ req'[q].op = req[q].op /\ req'[q].email = req[q].email
          /\ req'[q].pc \in {"insertKey", "commit"} => req'[q].pc = req[q].pc /\ q # r
    BY <1>12, CommitEffect
  <2>2. \A q \in Requests : req[q].op = "register" => req[q].email # None
    BY <1>0 DEF RequestShape
  <2>3. ASSUME NEW q \in Requests, q # r, req[q].op = "register",
               req[q].pc \in {"insertKey", "commit"}
        PROVE  ~ \E u \in TenantIds : tenants'[u] = req[q].email
    <3>1. /\ \A u \in TenantIds : tenants[u] # req[q].email
          /\ req[r].email # req[q].email
      BY <1>0, <1>12, <2>3, CommitEffect
    <3> QED BY <1>12, <3>1, CommitEffect
  <2> QED BY <1>0, <2>1, <2>3
<1>13. ASSUME NEW r \in Requests, Reply(r) PROVE EmailInv'
  BY <1>0, <1>13, ReplyEffect, IdleFields
<1>14. ASSUME NEW r \in Requests, LockTimeout(r) PROVE EmailInv'
  BY <1>0, <1>14, AnswerEffect, IdleFields DEF LockTimeout, Steps, Waiting, Holding
<1>15. ASSUME NEW r \in Requests, DatabaseError(r) PROVE EmailInv'
  BY <1>0, <1>15, AnswerEffect, IdleFields DEF DatabaseError, Steps, Waiting, Holding
<1>16. ASSUME NEW r \in Requests, NEW raw \in RawKeys,
              NEW op \in {"use", "revoke", "regenerate"},
              NEW k \in KeyIds \cup {None}, NEW n \in RawKeys \cup {None},
              Arrive(r, raw, op, k, n)
       PROVE  EmailInv'
  <2>1. /\ \A q \in Requests : q # r => req'[q] = req[q]
        /\ req'[r].pc \in {"idle", "select", "route"}
    BY <1>0, <1>16, ArriveEffect, IdleFields
  <2>2. UNCHANGED <<tenants, rows, cache, issued>>
    BY <1>16 DEF Arrive
  <2> QED BY <1>0, <2>1, <2>2
<1>17. ASSUME NEW r \in Requests, NEW e \in Emails, NEW t \in TenantIds,
              NEW k \in KeyIds, NEW n \in RawKeys, Register(r, e, t, k, n)
       PROVE  EmailInv'
  <2>1. /\ \A q \in Requests : q # r => req'[q] = req[q]
        /\ req'[r].pc = "insertTenant"
    BY <1>0, <1>17, RegisterEffect
  <2>2. UNCHANGED <<tenants, rows, cache, issued>>
    BY <1>17 DEF Register
  <2> QED BY <1>0, <2>1, <2>2
<1>18. ASSUME Crash PROVE EmailInv'
  BY <1>0, <1>18, IdleFields DEF Crash, Holding
<1> QED BY <1>1, <1>2, <1>3, <1>4, <1>5, <1>6, <1>7, <1>8, <1>9, <1>10, <1>11,
           <1>12, <1>13, <1>14, <1>15, <1>16, <1>17, <1>18 DEF Next, Step

\* A commit never gives an e-mail a second tenant.
LEMMA OneTenantPerEmailStep == IInv /\ Next => OneTenantPerEmail'
<1> SUFFICES ASSUME IInv, Next PROVE OneTenantPerEmail'
  OBVIOUS
<1>0. TypeOK /\ RequestShape /\ OneTenantPerEmail
  BY DEF IInv
<1> USE DEF OneTenantPerEmail
<1>1. ASSUME NEW r \in Requests, SelectKey(r) PROVE OneTenantPerEmail'
  BY <1>0, <1>1 DEF SelectKey
<1>2. ASSUME NEW r \in Requests, CacheRefusal(r) PROVE OneTenantPerEmail'
  BY <1>0, <1>2 DEF CacheRefusal
<1>3. ASSUME NEW r \in Requests, Touch(r) PROVE OneTenantPerEmail'
  BY <1>0, <1>3 DEF Touch
<1>4. ASSUME NEW r \in Requests, CacheKey(r) PROVE OneTenantPerEmail'
  BY <1>0, <1>4 DEF CacheKey
<1>5. ASSUME NEW r \in Requests, CloseAuthSession(r) PROVE OneTenantPerEmail'
  BY <1>0, <1>5 DEF CloseAuthSession
<1>6. ASSUME NEW r \in Requests, Serve(r) PROVE OneTenantPerEmail'
  BY <1>0, <1>6 DEF Serve
<1>7. ASSUME NEW r \in Requests, SelectOwn(r) PROVE OneTenantPerEmail'
  BY <1>0, <1>7 DEF SelectOwn
<1>8. ASSUME NEW r \in Requests, UpdateKey(r) PROVE OneTenantPerEmail'
  BY <1>0, <1>8 DEF UpdateKey
<1>9. ASSUME NEW r \in Requests, ClearCache(r) PROVE OneTenantPerEmail'
  BY <1>0, <1>9 DEF ClearCache
<1>10. ASSUME NEW r \in Requests, InsertTenant(r) PROVE OneTenantPerEmail'
  BY <1>0, <1>10 DEF InsertTenant
<1>11. ASSUME NEW r \in Requests, InsertKey(r) PROVE OneTenantPerEmail'
  BY <1>0, <1>11 DEF InsertKey
<1>12. ASSUME NEW r \in Requests, Commit(r) PROVE OneTenantPerEmail'
  <2>1. CASE req[r].op # "register"
    BY <1>0, <1>12, <2>1, CommitEffect
  <2>2. CASE req[r].op = "register"
    <3>1. \A u \in TenantIds : tenants[u] # req[r].email
      BY <1>12, <2>2, CommitEffect DEF IInv, EmailInv, EmailTaken
    <3> QED BY <1>0, <1>12, <2>2, <3>1, CommitEffect
  <2> QED BY <2>1, <2>2
<1>13. ASSUME NEW r \in Requests, Reply(r) PROVE OneTenantPerEmail'
  BY <1>0, <1>13 DEF Reply
<1>14. ASSUME NEW r \in Requests, LockTimeout(r) PROVE OneTenantPerEmail'
  BY <1>0, <1>14 DEF LockTimeout
<1>15. ASSUME NEW r \in Requests, DatabaseError(r) PROVE OneTenantPerEmail'
  BY <1>0, <1>15 DEF DatabaseError
<1>16. ASSUME NEW r \in Requests, NEW raw \in RawKeys,
              NEW op \in {"use", "revoke", "regenerate"},
              NEW k \in KeyIds \cup {None}, NEW n \in RawKeys \cup {None},
              Arrive(r, raw, op, k, n)
       PROVE  OneTenantPerEmail'
  BY <1>0, <1>16 DEF Arrive
<1>17. ASSUME NEW r \in Requests, NEW e \in Emails, NEW t \in TenantIds,
              NEW k \in KeyIds, NEW n \in RawKeys, Register(r, e, t, k, n)
       PROVE  OneTenantPerEmail'
  BY <1>0, <1>17 DEF Register
<1>18. ASSUME Crash PROVE OneTenantPerEmail'
  BY <1>0, <1>18 DEF Crash
<1> QED BY <1>1, <1>2, <1>3, <1>4, <1>5, <1>6, <1>7, <1>8, <1>9, <1>10, <1>11,
           <1>12, <1>13, <1>14, <1>15, <1>16, <1>17, <1>18 DEF Next, Step

\* A commit creates a tenant together with its key.
LEMMA TenantHasItsKeyStep == IInv /\ Next => TenantHasItsKey'
<1> SUFFICES ASSUME IInv, Next PROVE TenantHasItsKey'
  OBVIOUS
<1>0. TypeOK /\ RequestShape /\ TenantHasItsKey
  BY DEF IInv
<1> USE DEF TenantHasItsKey
<1>1. ASSUME NEW r \in Requests, SelectKey(r) PROVE TenantHasItsKey'
  BY <1>0, <1>1 DEF SelectKey
<1>2. ASSUME NEW r \in Requests, CacheRefusal(r) PROVE TenantHasItsKey'
  BY <1>0, <1>2 DEF CacheRefusal
<1>3. ASSUME NEW r \in Requests, Touch(r) PROVE TenantHasItsKey'
  BY <1>0, <1>3 DEF Touch
<1>4. ASSUME NEW r \in Requests, CacheKey(r) PROVE TenantHasItsKey'
  BY <1>0, <1>4 DEF CacheKey
<1>5. ASSUME NEW r \in Requests, CloseAuthSession(r) PROVE TenantHasItsKey'
  BY <1>0, <1>5 DEF CloseAuthSession
<1>6. ASSUME NEW r \in Requests, Serve(r) PROVE TenantHasItsKey'
  BY <1>0, <1>6 DEF Serve
<1>7. ASSUME NEW r \in Requests, SelectOwn(r) PROVE TenantHasItsKey'
  BY <1>0, <1>7 DEF SelectOwn
<1>8. ASSUME NEW r \in Requests, UpdateKey(r) PROVE TenantHasItsKey'
  BY <1>0, <1>8 DEF UpdateKey
<1>9. ASSUME NEW r \in Requests, ClearCache(r) PROVE TenantHasItsKey'
  BY <1>0, <1>9 DEF ClearCache
<1>10. ASSUME NEW r \in Requests, InsertTenant(r) PROVE TenantHasItsKey'
  BY <1>0, <1>10 DEF InsertTenant
<1>11. ASSUME NEW r \in Requests, InsertKey(r) PROVE TenantHasItsKey'
  BY <1>0, <1>11 DEF InsertKey
<1>12. ASSUME NEW r \in Requests, Commit(r) PROVE TenantHasItsKey'
  <2>1. CASE req[r].op # "register"
    <3>1. tenants' = tenants
      BY <1>12, <2>1, CommitEffect
    <3>2. \A k \in KeyIds : rows'[k] # None <=> rows[k] # None
      BY <1>12, <2>1, CommitEffect, CommitWrites
    <3>3. \A k \in KeyIds : rows[k] # None => rows'[k].tenant = rows[k].tenant
      BY <1>12, CommitKeepsTenant
    <3> QED BY <1>0, <3>1, <3>2, <3>3
  <2>2. CASE req[r].op = "register"
    <3>1. /\ req[r].key \in KeyIds /\ rows[req[r].key] = None
          /\ rows'[req[r].key] # None /\ rows'[req[r].key].tenant = req[r].tenant
          /\ \A k \in KeyIds : k # req[r].key => rows'[k] = rows[k]
      BY <1>12, <2>2, CommitEffect, CommitWrites
    <3>2. /\ req[r].tenant \in TenantIds /\ tenants'[req[r].tenant] # None
          /\ \A t \in TenantIds : t # req[r].tenant => tenants'[t] = tenants[t]
      BY <1>0, <1>12, <2>2, CommitEffect DEF RequestShape
    <3> QED BY <1>0, <3>1, <3>2
  <2> QED BY <2>1, <2>2
<1>13. ASSUME NEW r \in Requests, Reply(r) PROVE TenantHasItsKey'
  BY <1>0, <1>13 DEF Reply
<1>14. ASSUME NEW r \in Requests, LockTimeout(r) PROVE TenantHasItsKey'
  BY <1>0, <1>14 DEF LockTimeout
<1>15. ASSUME NEW r \in Requests, DatabaseError(r) PROVE TenantHasItsKey'
  BY <1>0, <1>15 DEF DatabaseError
<1>16. ASSUME NEW r \in Requests, NEW raw \in RawKeys,
              NEW op \in {"use", "revoke", "regenerate"},
              NEW k \in KeyIds \cup {None}, NEW n \in RawKeys \cup {None},
              Arrive(r, raw, op, k, n)
       PROVE  TenantHasItsKey'
  BY <1>0, <1>16 DEF Arrive
<1>17. ASSUME NEW r \in Requests, NEW e \in Emails, NEW t \in TenantIds,
              NEW k \in KeyIds, NEW n \in RawKeys, Register(r, e, t, k, n)
       PROVE  TenantHasItsKey'
  BY <1>0, <1>17 DEF Register
<1>18. ASSUME Crash PROVE TenantHasItsKey'
  BY <1>0, <1>18 DEF Crash
<1> QED BY <1>1, <1>2, <1>3, <1>4, <1>5, <1>6, <1>7, <1>8, <1>9, <1>10, <1>11,
           <1>12, <1>13, <1>14, <1>15, <1>16, <1>17, <1>18 DEF Next, Step

\* A transaction that has cleared the cache excludes the validations that
\* could fill it with its key again.
LEMMA ClearedUntilCommitStep == IInv /\ Next => ClearedUntilCommit'
<1> SUFFICES ASSUME IInv, Next PROVE ClearedUntilCommit'
  OBVIOUS
<1>0. TypeOK /\ RequestShape /\ ClearedUntilCommit
  BY DEF IInv
<1> USE DEF ClearedUntilCommit
<1>1. ASSUME NEW r \in Requests, SelectKey(r) PROVE ClearedUntilCommit'
  <2>1. /\ \A q \in Requests : q # r => req'[q] = req[q]
        /\ req'[r].pc \in {"touch", "absent"}
    BY <1>0, <1>1, SelectKeyEffect
  <2>2. UNCHANGED <<tenants, rows, cache, issued>>
    BY <1>1 DEF SelectKey
  <2> QED BY <1>0, <2>1, <2>2
<1>2. ASSUME NEW r \in Requests, CacheRefusal(r) PROVE ClearedUntilCommit'
  <2>1. \A i \in DOMAIN cache' : cache'[i].val # None =>
          \E j \in DOMAIN cache : cache'[i] = cache[j]
    BY <1>2, CacheRefusalEffect
  <2> QED BY <1>0, <1>2, <2>1, CacheRefusalEffect, IdleFields
<1>3. ASSUME NEW r \in Requests, Touch(r) PROVE ClearedUntilCommit'
  BY <1>0, <1>3, GotoEffect DEF Touch, Steps, Waiting, Holding
<1>4. ASSUME NEW r \in Requests, CacheKey(r) PROVE ClearedUntilCommit'
  <2>1. SUFFICES ASSUME NEW q \in Requests, req'[q].pc = "commit", req'[q].op # "register",
                        NEW i \in DOMAIN cache', cache'[i].val # None
                 PROVE  cache'[i].val.key # req'[q].key
    OBVIOUS
  <2>2. q # r /\ req'[q] = req[q]
    BY <1>4, <2>1, CacheKeyEffect
  <2>3. CASE \E j \in DOMAIN cache : cache'[i] = cache[j]
    BY <1>0, <2>1, <2>2, <2>3
  <2>4. CASE ~ \E j \in DOMAIN cache : cache'[i] = cache[j]
    <3>1. cache'[i].val.key = req[r].found
      BY <1>4, <2>4, CacheKeyEffect
    <3>2. /\ LockInv /\ LockedKey(r) = req[r].found /\ LockedKey(q) = req[q].key
          /\ req[r].pc \in Holding /\ req[q].pc \in Holding
      BY <1>4, <2>1, <2>2, CacheKeyEffect DEF IInv, LockedKey, Holding
    <3>3. req[r].found # req[q].key
      BY <2>2, <3>2 DEF LockInv
    <3> QED BY <2>2, <3>1, <3>3
  <2> QED BY <2>3, <2>4
<1>5. ASSUME NEW r \in Requests, CloseAuthSession(r) PROVE ClearedUntilCommit'
  BY <1>0, <1>5, GotoEffect DEF CloseAuthSession, Steps, Waiting, Holding
<1>6. ASSUME NEW r \in Requests, Serve(r) PROVE ClearedUntilCommit'
  BY <1>0, <1>6, AnswerEffect, IdleFields DEF Serve, Steps, Waiting, Holding
<1>7. ASSUME NEW r \in Requests, SelectOwn(r) PROVE ClearedUntilCommit'
  BY <1>0, <1>7, GotoEffect, AnswerEffect, IdleFields DEF SelectOwn, Steps, Waiting, Holding
<1>8. ASSUME NEW r \in Requests, UpdateKey(r) PROVE ClearedUntilCommit'
  BY <1>0, <1>8, GotoEffect DEF UpdateKey, Steps, Waiting, Holding
<1>9. ASSUME NEW r \in Requests, ClearCache(r) PROVE ClearedUntilCommit'
  <2>1. DOMAIN cache' = {}
    BY <1>9 DEF ClearCache
  <2> QED BY <2>1
<1>10. ASSUME NEW r \in Requests, InsertTenant(r) PROVE ClearedUntilCommit'
  BY <1>0, <1>10, GotoEffect, AnswerEffect, IdleFields DEF InsertTenant, Steps, Waiting, Holding
<1>11. ASSUME NEW r \in Requests, InsertKey(r) PROVE ClearedUntilCommit'
  <2>1. /\ \A q \in Requests : q # r => req'[q] = req[q]
        /\ req'[r].op = "register" /\ cache' = cache
    BY <1>0, <1>11, GotoEffect DEF InsertKey, Steps, Holding, RequestShape, TypeOK, Request
  <2> QED BY <1>0, <2>1
<1>12. ASSUME NEW r \in Requests, Commit(r) PROVE ClearedUntilCommit'
  BY <1>0, <1>12, CommitEffect
<1>13. ASSUME NEW r \in Requests, Reply(r) PROVE ClearedUntilCommit'
  BY <1>0, <1>13, ReplyEffect, IdleFields
<1>14. ASSUME NEW r \in Requests, LockTimeout(r) PROVE ClearedUntilCommit'
  BY <1>0, <1>14, AnswerEffect, IdleFields DEF LockTimeout, Steps, Waiting, Holding
<1>15. ASSUME NEW r \in Requests, DatabaseError(r) PROVE ClearedUntilCommit'
  BY <1>0, <1>15, AnswerEffect, IdleFields DEF DatabaseError, Steps, Waiting, Holding
<1>16. ASSUME NEW r \in Requests, NEW raw \in RawKeys,
              NEW op \in {"use", "revoke", "regenerate"},
              NEW k \in KeyIds \cup {None}, NEW n \in RawKeys \cup {None},
              Arrive(r, raw, op, k, n)
       PROVE  ClearedUntilCommit'
  <2>1. /\ \A q \in Requests : q # r => req'[q] = req[q]
        /\ req'[r].pc \in {"idle", "select", "route"}
    BY <1>0, <1>16, ArriveEffect, IdleFields
  <2>2. UNCHANGED <<tenants, rows, cache, issued>>
    BY <1>16 DEF Arrive
  <2> QED BY <1>0, <2>1, <2>2
<1>17. ASSUME NEW r \in Requests, NEW e \in Emails, NEW t \in TenantIds,
              NEW k \in KeyIds, NEW n \in RawKeys, Register(r, e, t, k, n)
       PROVE  ClearedUntilCommit'
  <2>1. /\ \A q \in Requests : q # r => req'[q] = req[q]
        /\ req'[r].pc = "insertTenant"
    BY <1>0, <1>17, RegisterEffect
  <2>2. UNCHANGED <<tenants, rows, cache, issued>>
    BY <1>17 DEF Register
  <2> QED BY <1>0, <2>1, <2>2
<1>18. ASSUME Crash PROVE ClearedUntilCommit'
  BY <1>0, <1>18, IdleFields DEF Crash, Holding
<1> QED BY <1>1, <1>2, <1>3, <1>4, <1>5, <1>6, <1>7, <1>8, <1>9, <1>10, <1>11,
           <1>12, <1>13, <1>14, <1>15, <1>16, <1>17, <1>18 DEF Next, Step

-----------------------------------------------------------------------------
(* Theorems *)

\* The initial states satisfy the inductive invariant.
LEMMA InitIInv == Init => IInv
<1> SUFFICES ASSUME Init PROVE IInv
  OBVIOUS
<1>1. /\ \A r \in Requests : req[r] = Idle
      /\ \A k \in KeyIds : rows[k] = None
      /\ \A t \in TenantIds : tenants[t] = None
      /\ \A n \in RawKeys : issued[n] = None
      /\ cache = <<>> /\ DOMAIN cache = {}
  BY DEF Init
<1>2. TypeOK
  BY IdleType DEF Init, TypeOK
<1>3. RequestShape /\ LockInv /\ FreshInv /\ NewRowsInv
  BY <1>1, IdleFields DEF RequestShape, LockInv, FreshInv, NewRowsInv, Holding
<1>4. IssuedInv /\ OwnerInv /\ AbsentInv /\ EmailInv
  BY <1>1, IdleFields DEF IssuedInv, OwnerInv, AbsentInv, EmailInv
<1>5. CacheProvenance /\ RefusalIsFinal /\ ClearedUntilCommit
  BY <1>1, IdleFields DEF CacheProvenance, RefusalIsFinal, ClearedUntilCommit
<1>6. OneTenantPerEmail /\ TenantHasItsKey
  BY <1>1 DEF OneTenantPerEmail, TenantHasItsKey
<1> QED BY <1>2, <1>3, <1>4, <1>5, <1>6 DEF IInv

\* Every step, and every stuttering step, preserves the inductive invariant.
LEMMA NextIInv == IInv /\ [Next]_vars => IInv'
<1> SUFFICES ASSUME IInv, [Next]_vars PROVE IInv'
  OBVIOUS
<1>1. CASE Next
  BY <1>1, TypeStep, RequestShapeStep, LockInvStep, FreshInvStep, NewRowsInvStep,
     IssuedInvStep, OwnerInvStep, AbsentInvStep, EmailInvStep, CacheProvenanceStep,
     RefusalIsFinalStep, ClearedUntilCommitStep, OneTenantPerEmailStep,
     TenantHasItsKeyStep
  DEF IInv
<1>2. CASE UNCHANGED vars
  <2> USE <1>2 DEF vars
  <2>1. (TypeOK /\ RequestShape /\ LockInv /\ FreshInv /\ NewRowsInv)'
    BY DEF IInv, TypeOK, RequestShape, LockInv, LockedKey, FreshInv, NewRowsInv
  <2>2. (IssuedInv /\ OwnerInv /\ AbsentInv /\ EmailInv)'
    BY DEF IInv, IssuedInv, OwnerInv, AbsentInv, Live, EmailInv, EmailTaken, EmailSettled
  <2>3. (CacheProvenance /\ RefusalIsFinal /\ ClearedUntilCommit)'
    BY DEF IInv, CacheProvenance, RefusalIsFinal, Live, ClearedUntilCommit
  <2>4. (OneTenantPerEmail /\ TenantHasItsKey)'
    BY DEF IInv, OneTenantPerEmail, TenantHasItsKey
  <2> QED BY <2>1, <2>2, <2>3, <2>4 DEF IInv
<1> QED BY <1>1, <1>2

\* The inductive invariant holds in every reachable state.
THEOREM Inductive == Spec => []IInv
BY InitIInv, NextIInv, PTL DEF Spec

\* Every variable keeps its type (the dict of auth.py, the rows of db.py).
THEOREM TypeCorrect == Spec => []TypeOK
<1>1. IInv => TypeOK
  BY DEF IInv
<1> QED BY <1>1, Inductive, PTL

\* A token is never taken for a key or a tenant it was not issued for, however
\* stale the cache entry that accepts it (validate_api_key).
THEOREM CacheNamesOwner == Spec => []CacheProvenance
<1>1. IInv => CacheProvenance
  BY DEF IInv
<1> QED BY <1>1, Inductive, PTL

\* A cached refusal never hides a key that works (validate_api_key).
THEOREM RefusalsAreFinal == Spec => []RefusalIsFinal
<1>1. IInv => RefusalIsFinal
  BY DEF IInv
<1> QED BY <1>1, Inductive, PTL

\* Between the clear and the commit of revoke and regenerate no validation
\* caches the key: the write lock excludes it.
THEOREM ClearLastsUntilCommit == Spec => []ClearedUntilCommit
<1>1. IInv => ClearedUntilCommit
  BY DEF IInv
<1> QED BY <1>1, Inductive, PTL

\* Racing registrations never give two tenants the same e-mail, and a tenant
\* exists exactly when its key does (register_tenant and its route).
THEOREM RegistrationIsAtomic == Spec => [](OneTenantPerEmail /\ TenantHasItsKey)
<1>1. IInv => OneTenantPerEmail /\ TenantHasItsKey
  BY DEF IInv
<1> QED BY <1>1, Inductive, PTL

\* A tenant exists exactly when its key does, through errors and crashes between
\* the two inserts of register_tenant.
THEOREM TenantsHaveKeys == Spec => []TenantHasItsKey
<1>1. IInv => TenantHasItsKey
  BY DEF IInv
<1> QED BY <1>1, Inductive, PTL

\* Rows change in commits only.
LEMMA OnlyCommitWrites == Next => rows' = rows \/ \E r \in Requests : Commit(r)
<1>1. \A r \in Requests : Step(r) => rows' = rows \/ Commit(r)
  BY DEF Step, SelectKey, CacheRefusal, Touch, CacheKey, CloseAuthSession, Serve,
         SelectOwn, UpdateKey, ClearCache, InsertTenant, InsertKey, Reply, LockTimeout
<1>2. \A r \in Requests : DatabaseError(r) => rows' = rows
  BY DEF DatabaseError
<1>3. \A r, raw, op, k, n : Arrive(r, raw, op, k, n) => rows' = rows
  BY DEF Arrive
<1>4. \A r, e, t, k, n : Register(r, e, t, k, n) => rows' = rows
  BY DEF Register
<1>5. Crash => rows' = rows
  BY DEF Crash
<1> QED BY <1>1, <1>2, <1>3, <1>4, <1>5 DEF Next

\* No step makes an inactive key active again (revoke_api_key).
THEOREM RevocationPermanent == Spec => RevocationIsPermanent
<1> DEFINE A == \A k \in KeyIds :
                  rows[k] # None /\ ~rows[k].active => rows'[k] # None /\ ~rows'[k].active
<1>1. IInv /\ Next => A
  <2> SUFFICES ASSUME IInv, Next, NEW k \in KeyIds, rows[k] # None, ~rows[k].active
               PROVE  rows'[k] # None /\ ~rows'[k].active
    OBVIOUS
  <2>1. CASE rows' = rows
    BY <2>1
  <2>2. CASE \E r \in Requests : Commit(r)
    <3>1. PICK r \in Requests : Commit(r)
      BY <2>2
    <3>2. CASE k # req[r].key
      BY <3>1, <3>2, CommitEffect
    <3>3. CASE k = req[r].key
      <4>1. req[r].op # "register"
        BY <3>1, <3>3, CommitEffect
      <4> QED BY <3>1, <3>3, <4>1, CommitEffect, CommitWrites
    <3> QED BY <3>2, <3>3
  <2>3. rows' = rows \/ \E r \in Requests : Commit(r)
    BY OnlyCommitWrites
  <2> QED BY <2>1, <2>2, <2>3
<1>2. IInv /\ [Next]_vars => [A]_vars
  BY <1>1
<1> QED BY <1>2, Inductive, PTL DEF Spec, RevocationIsPermanent

\* A key is changed only on behalf of a token issued to the same tenant (the
\* tenant filter of revoke_api_key and regenerate_api_key).
THEOREM OwnerOnly == Spec => OnlyOwnerChangesKey
<1> DEFINE A == \A k \in KeyIds :
                  rows[k] # None /\ rows'[k] # rows[k] =>
                      \E r \in Requests :
                          /\ req[r].pc = "commit"
                          /\ req[r].key = k
                          /\ issued[req[r].raw] # None
                          /\ rows[issued[req[r].raw]].tenant = rows[k].tenant
<1>1. IInv /\ Next => A
  <2> SUFFICES ASSUME IInv, Next, NEW k \in KeyIds, rows[k] # None, rows'[k] # rows[k]
               PROVE  \E r \in Requests :
                          /\ req[r].pc = "commit"
                          /\ req[r].key = k
                          /\ issued[req[r].raw] # None
                          /\ rows[issued[req[r].raw]].tenant = rows[k].tenant
    OBVIOUS
  <2>1. PICK r \in Requests : Commit(r)
    BY OnlyCommitWrites
  <2>2. /\ req[r].pc = "commit" /\ req[r].key = k
        /\ req[r].op \in {"revoke", "regenerate"}
    BY <2>1, CommitEffect
  <2>3. req[r].found # None /\ rows[k].tenant = req[r].tenant
    BY <2>2 DEF IInv, RequestShape, OwnerInv
  <2>4. /\ req[r].raw # None
        /\ issued[req[r].raw] = req[r].found
        /\ rows[req[r].found].tenant = req[r].tenant
    BY <2>3 DEF IInv, OwnerInv
  <2> QED BY <2>2, <2>3, <2>4
<1>2. IInv /\ [Next]_vars => [A]_vars
  BY <1>1
<1> QED BY <1>2, Inductive, PTL DEF Spec, OnlyOwnerChangesKey
-----------------------------------------------------------------------------
(* The cache is a bounded map *)

\* No token has two verdicts in c.
OneVerdictEach(c) == \A i, j \in DOMAIN c : c[i].raw = c[j].raw => i = j

LEMMA EnforcedCacheIsMap ==
    ASSUME cache \in Seq(CacheEntry), OneVerdictEach(cache)
    PROVE  OneVerdictEach(EnforcedCache)
<1> DEFINE m == Len(cache) - CacheMax + 2
           n == Len(cache)
           s == SubSeq(cache, m, n)
<1>1. Len(cache) \in Nat /\ CacheMax \in Nat /\ CacheMax >= 1
  BY ConstantsAssumption
<1>2. CASE Len(cache) >= CacheMax
  <2>1. EnforcedCache = s
    BY <1>2 DEF EnforcedCache
  <2>2. m \in 1..n+1 /\ m >= 1
    BY <1>1, <1>2
  <2>3. /\ DOMAIN s = 1..(n - m + 1)
        /\ \A i \in 1..(n - m + 1) : s[i] = cache[m + i - 1]
    BY <1>1, <2>2, SMT
  <2>4. \A i \in 1..(n - m + 1) : m + i - 1 \in DOMAIN cache
    BY <1>1, <2>2
  <2>5. ASSUME NEW i \in DOMAIN s, NEW j \in DOMAIN s, s[i].raw = s[j].raw
        PROVE  i = j
    <3>1. s[i] = cache[m + i - 1] /\ s[j] = cache[m + j - 1]
      BY <2>3
    <3>2. m + i - 1 \in DOMAIN cache /\ m + j - 1 \in DOMAIN cache
      BY <2>3, <2>4
    <3> HIDE DEF s
    <3>3. m + i - 1 = m + j - 1
      BY <2>5, <3>1, <3>2 DEF OneVerdictEach
    <3> QED BY <1>1, <2>3, <2>5, <3>3
  <2> HIDE DEF s
  <2> QED BY <2>1, <2>5 DEF OneVerdictEach
<1>3. CASE Len(cache) < CacheMax
  BY <1>1, <1>3 DEF EnforcedCache
<1> QED BY <1>1, <1>2, <1>3

LEMMA WithEntryIsMap ==
    ASSUME NEW c \in Seq(CacheEntry), OneVerdictEach(c), NEW raw \in RawKeys,
           NEW val \in ValidatedKey \cup {None}
    PROVE  OneVerdictEach(WithEntry(c, raw, val))
<1> DEFINE e == [raw |-> raw, val |-> val]
<1>0. \A i \in DOMAIN c : c[i] \in CacheEntry
  OBVIOUS
<1>1. CASE \E i \in DOMAIN c : c[i].raw = raw
  <2> DEFINE w == [i \in DOMAIN c |->
                     IF c[i].raw = raw THEN [c[i] EXCEPT !.val = val] ELSE c[i]]
  <2>1. WithEntry(c, raw, val) = w
    BY <1>1 DEF WithEntry
  <2>2. \A i \in DOMAIN c : [c[i] EXCEPT !.val = val].raw = c[i].raw
    BY <1>0 DEF CacheEntry
  <2>3. DOMAIN w = DOMAIN c /\ \A i \in DOMAIN c : w[i].raw = c[i].raw
    BY <2>2
  <2> HIDE DEF w
  <2> QED BY <2>1, <2>3 DEF OneVerdictEach
<1>2. CASE ~ \E i \in DOMAIN c : c[i].raw = raw
  <2> DEFINE w == Append(c, e)
  <2>1. WithEntry(c, raw, val) = w
    BY <1>2 DEF WithEntry
  <2>2. e \in CacheEntry
    BY DEF CacheEntry
  <2>3. /\ DOMAIN w = 1..(Len(c) + 1)
        /\ \A i \in DOMAIN c : w[i] = c[i]
        /\ w[Len(c) + 1].raw = raw
    BY <2>2
  <2>4. \A i \in DOMAIN w : i \in DOMAIN c \/ i = Len(c) + 1
    BY <2>3
  <2> HIDE DEF w
  <2> QED BY <1>2, <2>1, <2>3, <2>4 DEF OneVerdictEach
<1> QED BY <1>1, <1>2

\* Only validate_api_key and the clear of revoke, regenerate and a restart
\* change the cache.
LEMMA CacheSteps ==
    Next => \/ cache' = cache
            \/ cache' = <<>>
            \/ \E r \in Requests : CacheRefusal(r) \/ CacheKey(r)
<1>1. \A r \in Requests : Step(r) => \/ cache' = cache \/ cache' = <<>>
                                    \/ CacheRefusal(r) \/ CacheKey(r)
  BY DEF Step, SelectKey, Touch, CloseAuthSession, Serve, SelectOwn, UpdateKey,
         ClearCache, InsertTenant, InsertKey, Commit, Reply, LockTimeout
<1>2. \A r \in Requests : DatabaseError(r) => cache' = cache
  BY DEF DatabaseError
<1>3. \A r, raw, op, k, n : Arrive(r, raw, op, k, n) => cache' = cache
  BY DEF Arrive
<1>4. \A r, e, t, k, n : Register(r, e, t, k, n) => cache' = cache
  BY DEF Register
<1>5. Crash => cache' = <<>>
  BY DEF Crash
<1> QED BY <1>1, <1>2, <1>3, <1>4, <1>5 DEF Next

\* An insertion keeps the cache a map and within its limit.
LEMMA CacheInsertion ==
    ASSUME TypeOK, CacheIsBoundedMap, NEW raw \in RawKeys,
           NEW val \in ValidatedKey \cup {None},
           cache' = WithEntry(EnforcedCache, raw, val)
    PROVE  CacheIsBoundedMap'
<1>1. cache \in Seq(CacheEntry) /\ OneVerdictEach(cache)
  BY DEF TypeOK, CacheIsBoundedMap, OneVerdictEach
<1>2. Len(cache') <= CacheMax
  BY <1>1, CacheUpdate
<1>3. EnforcedCache \in Seq(CacheEntry) /\ OneVerdictEach(EnforcedCache)
  BY <1>1, EnforcedCacheFacts, EnforcedCacheIsMap
<1>4. OneVerdictEach(cache')
  BY <1>3, WithEntryIsMap
<1> QED BY <1>2, <1>4 DEF CacheIsBoundedMap, OneVerdictEach

LEMMA CacheIsBoundedMapStep ==
    IInv /\ CacheIsBoundedMap /\ [Next]_vars => CacheIsBoundedMap'
<1> SUFFICES ASSUME IInv, CacheIsBoundedMap, [Next]_vars PROVE CacheIsBoundedMap'
  OBVIOUS
<1>0. TypeOK /\ RequestShape
  BY DEF IInv
<1>1. CASE cache' = cache
  BY <1>1 DEF CacheIsBoundedMap
<1>2. CASE cache' = <<>>
  <2>1. Len(cache') = 0 /\ DOMAIN cache' = {}
    BY <1>2
  <2> QED BY <2>1, ConstantsAssumption DEF CacheIsBoundedMap
<1>3. ASSUME NEW r \in Requests, CacheRefusal(r) PROVE CacheIsBoundedMap'
  <2>1. req[r].raw \in RawKeys
    BY <1>0, <1>3 DEF CacheRefusal, RequestShape, Request, TypeOK
  <2> QED BY <1>0, <1>3, <2>1, CacheInsertion DEF CacheRefusal
<1>4. ASSUME NEW r \in Requests, CacheKey(r) PROVE CacheIsBoundedMap'
  <2>1. /\ req[r].raw \in RawKeys
        /\ [key |-> req[r].found, tenant |-> req[r].tenant] \in ValidatedKey
    BY <1>0, <1>4 DEF CacheKey, RequestShape, Request, ValidatedKey, TypeOK
  <2> QED BY <1>0, <1>4, <2>1, CacheInsertion DEF CacheKey
<1> QED BY <1>1, <1>2, <1>3, <1>4, CacheSteps DEF vars

\* The cache stays within its limit, whatever it is, and has one verdict for a
\* token, however clears, evictions and validations overlap (_enforce_cache_limit).
THEOREM CacheBounded == Spec => []CacheIsBoundedMap
<1>1. Init => CacheIsBoundedMap
  <2>1. ASSUME Init PROVE Len(cache) = 0 /\ DOMAIN cache = {}
    BY <2>1 DEF Init
  <2> QED BY <2>1, ConstantsAssumption DEF CacheIsBoundedMap
<1> QED BY <1>1, CacheIsBoundedMapStep, Inductive, PTL DEF Spec
=============================================================================
