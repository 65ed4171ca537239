---------------------------- MODULE ReportsProofs ----------------------------
(***************************************************************************)
(* The reports of Reports are fresh and fit together, for any number of    *)
(* tenants, keys and reports in progress: every table row outlives the     *)
(* statements of a report, keys are never added to a tenant, and a revoked *)
(* key never becomes active again.                                         *)
(***************************************************************************)
EXTENDS Reports, FiniteSetTheorems, TLAPS

-----------------------------------------------------------------------------
(* The inductive invariant *)

\* Tenants and keys come into being together.
StoreInv ==
    /\ \A k \in Present : rows[k].tenant \in Registered
    /\ \A t \in Registered : KeysOf(t) # {}

\* Which kind of report gets to which statement, and whose keys it counts there.
StepInv(q) ==
    /\ q.pc = "load" => q.kind \in {"me", "tenantKeys"} /\ q.tenant \in Registered
    /\ q.pc = "list" => q.kind \in {"keys", "tenantKeys"} /\ q.tenant \in Registered
    /\ q.pc = "own" => q.kind = "me" /\ q.tenant \in Registered
    /\ q.pc = "get" => q.kind \in {"me", "tenantKeys"}
    /\ q.pc = "metrics" => q.kind = "metrics"
    /\ q.pc \in {"select", "all", "active"} => q.kind = "tenants"
    /\ q.pc = "active" => q.tenant \in q.todo
    /\ q.todo \subseteq Registered

\* What was counted as active lies between what is active now and what was not
\* revoked when the report arrived.
ActiveInv(q) ==
    /\ q.dead \subseteq Dead
    /\ \A t \in TenantIds :
          q.active[t] # None =>
             /\ t \in Registered
             /\ Cardinality(Active(KeysOf(t))) <= q.active[t]
             /\ q.active[t] <= Cardinality(KeysOf(t) \ q.dead)

\* The same for the rows of a listing.
RowsInv(q) ==
    /\ \A k \in KeyIds :
          q.rows[k] # None =>
             /\ q.kind \in {"keys", "tenantKeys"}
             /\ q.tenant \in Registered
             /\ k \in KeysOf(q.tenant)
             /\ q.rows[k].active => k \notin q.dead
             /\ rows[k].active => q.rows[k].active
    /\ q.pc = "answered" /\ q.kind \in {"keys", "tenantKeys"} =>
          /\ q.tenant \in Registered
          /\ {k \in KeyIds : q.rows[k] # None} = KeysOf(q.tenant)

\* The first two totals of get_system_metrics.
TotalsInv(q) ==
    /\ q.totals["tenants"] # None => q.totals["tenants"] <= Cardinality(Present)
    /\ q.totals["keys"] # None =>
          q.totals["tenants"] # None /\ q.totals["tenants"] <= q.totals["keys"]
    /\ q.pc = "answered" /\ q.kind = "metrics" => q.totals["keys"] # None

\* The keys that the second total counted stay, and the third, counted after it,
\* lies between those of them that are active now and the keys that were not
\* revoked when the report arrived.
SeenInv(q) ==
    /\ q.seen \subseteq Present
    /\ q.totals["keys"] # None => q.totals["keys"] = Cardinality(q.seen)
    /\ q.totals["active"] # None =>
          /\ q.totals["keys"] # None
          /\ Cardinality(Active(q.seen)) <= q.totals["active"]
          /\ q.totals["active"] <= Cardinality(Present \ q.dead)
    /\ q.pc = "answered" /\ q.kind = "metrics" => q.totals["active"] # None

\* The keys of a listed tenant are counted once and for all, and before the
\* active ones.
KeysInv(q) ==
    /\ \A t \in TenantIds :
          q.keys[t] # None => t \in Registered /\ q.keys[t] = Cardinality(KeysOf(t))
    /\ q.kind = "tenants" =>
          \A t \in TenantIds :
             /\ q.active[t] # None => q.keys[t] # None
             /\ q.keys[t] # None /\ q.active[t] = None =>
                   q.pc = "active" /\ t = q.tenant
    /\ q.pc = "active" => q.keys[q.tenant] # None

ReportInv(q) ==
    /\ StepInv(q) /\ ActiveInv(q) /\ RowsInv(q)
    /\ TotalsInv(q) /\ SeenInv(q) /\ KeysInv(q)

Inv == TypeOK /\ StoreInv /\ \A r \in Readers : ReportInv(report[r])

-----------------------------------------------------------------------------
(* The steps of the store *)

\* What a report can rely on while others write: tenants stay and get no more
\* keys, keys stay, and none becomes active again.
Grown ==
    /\ Registered \subseteq Registered'
    /\ \A t \in Registered : KeysOf(t)' = KeysOf(t)
    /\ \A k \in Present : k \in Present' /\ (rows'[k].active => rows[k].active)

StoreTypes ==
    /\ tenants \in [TenantIds -> Emails \cup {None}]
    /\ rows \in [KeyIds -> Row \cup {None}]
    /\ unshown \subseteq KeyIds \X RawKeys
    /\ issued \in [RawKeys -> KeyIds \cup {None}]

LEMMA RegisterGrows ==
    ASSUME TypeOK, StoreInv,
           NEW t \in TenantIds, NEW e \in Emails, NEW k \in KeyIds, NEW n \in RawKeys,
           StoreRegister(t, e, k, n)
    PROVE  StoreTypes' /\ StoreInv' /\ Grown
<1> DEFINE row == [tenant |-> t, hash |-> n, active |-> TRUE]
<1>1. row \in Row /\ row # None /\ e # None
  <2>1. row \in Row
    BY DEF Row
  <2>2. e # None
    BY ConstantsAssumption
  <2> QED BY <2>1, <2>2, ConstantsAssumption
<1>2. StoreTypes'
  BY <1>1 DEF TypeOK, StoreTypes, StoreRegister
<1>3. Registered' = Registered \cup {t} /\ t \notin Registered
  BY <1>1 DEF TypeOK, StoreRegister, Registered
<1>4. Present' = Present \cup {k} /\ k \notin Present
  BY <1>1 DEF TypeOK, StoreRegister, Present
<1>5. \A l \in Present : rows'[l] = rows[l]
  BY <1>4 DEF TypeOK, StoreRegister, Present
<1>6. rows'[k] = row
  BY DEF TypeOK, StoreRegister
<1>7. ASSUME NEW u PROVE KeysOf(u)' = IF u = t THEN {k} ELSE KeysOf(u)
  <2>1. KeysOf(u)' = {l \in Present \cup {k} : rows'[l].tenant = u}
    BY <1>4 DEF KeysOf
  <2>2. \A l \in Present : rows[l].tenant # t
    BY <1>3 DEF StoreInv
  <2>3. KeysOf(u) = {l \in Present : rows[l].tenant = u}
    BY DEF KeysOf
  <2> QED BY <2>1, <2>2, <2>3, <1>4, <1>5, <1>6
<1>8. StoreInv'
  <2>1. \A l \in Present' : rows'[l].tenant \in Registered'
    BY <1>3, <1>4, <1>5, <1>6 DEF StoreInv
  <2>2. \A u \in Registered' : KeysOf(u)' # {}
    BY <1>3, <1>7 DEF StoreInv
  <2> QED BY <2>1, <2>2 DEF StoreInv
<1>9. Grown
  BY <1>3, <1>4, <1>5, <1>7 DEF Grown
<1> QED BY <1>2, <1>8, <1>9

\* A step that rewrites one row, and neither its tenant nor a cleared flag.
LEMMA RowChangeGrows ==
    ASSUME TypeOK, StoreInv, NEW k \in Present,
           tenants' = tenants,
           rows' \in [KeyIds -> Row \cup {None}],
           \A l \in KeyIds \ {k} : rows'[l] = rows[l],
           rows'[k] # None, rows'[k].tenant = rows[k].tenant,
           rows'[k].active => rows[k].active
    PROVE  StoreInv' /\ Grown
<1>1. Registered' = Registered
  BY DEF Registered
<1>2. Present' = Present
  BY DEF Present
<1>3. \A l \in Present : rows'[l].tenant = rows[l].tenant /\ (rows'[l].active => rows[l].active)
  BY DEF Present
<1>4. ASSUME NEW u PROVE KeysOf(u)' = KeysOf(u)
  BY <1>2, <1>3 DEF KeysOf
<1>5. StoreInv'
  BY <1>1, <1>2, <1>3, <1>4 DEF StoreInv
<1>6. Grown
  BY <1>1, <1>2, <1>3, <1>4 DEF Grown
<1> QED BY <1>5, <1>6

LEMMA SameTables ==
    ASSUME StoreInv, UNCHANGED tables
    PROVE  /\ StoreInv' /\ Grown
           /\ Registered' = Registered /\ Present' = Present /\ Dead' = Dead
           /\ \A t : KeysOf(t)' = KeysOf(t)
           /\ \A t : Active(KeysOf(t))' = Active(KeysOf(t))
           /\ \A t : RowsOf(t)' = RowsOf(t)
<1>1. tenants' = tenants /\ rows' = rows
  BY DEF tables
<1>2. Registered' = Registered /\ Present' = Present /\ Dead' = Dead
  BY <1>1 DEF Registered, Present, Dead
<1>3. ASSUME NEW t PROVE KeysOf(t)' = KeysOf(t)
  BY <1>1, <1>2 DEF KeysOf
<1>4. ASSUME NEW t PROVE Active(KeysOf(t))' = Active(KeysOf(t))
  BY <1>1, <1>3 DEF Active
<1>5. ASSUME NEW t PROVE RowsOf(t)' = RowsOf(t)
  BY <1>1, <1>3 DEF RowsOf
<1>6. StoreInv' /\ Grown
  BY <1>1, <1>2, <1>3 DEF StoreInv, Grown
<1> QED BY <1>2, <1>3, <1>4, <1>5, <1>6

\* Every step of the store keeps the promise.
LEMMA StoreStep ==
    ASSUME TypeOK, StoreInv, StoreNext
    PROVE  StoreTypes' /\ StoreInv' /\ Grown
<1>1. ASSUME NEW t \in TenantIds, NEW e \in Emails, NEW k \in KeyIds, NEW n \in RawKeys,
             StoreRegister(t, e, k, n)
      PROVE  StoreTypes' /\ StoreInv' /\ Grown
  BY <1>1, RegisterGrows
<1>2. ASSUME NEW raw \in RawKeys, NEW k \in KeyIds, StoreRevoke(raw, k)
      PROVE  StoreTypes' /\ StoreInv' /\ Grown
  <2> USE <1>2
  <2>1. k \in Present /\ rows[k] \in Row
    BY DEF StoreRevoke, Present, TypeOK
  <2>2. rows' = [rows EXCEPT ![k] = [rows[k] EXCEPT !.active = FALSE]]
    BY DEF StoreRevoke
  <2>3. [rows[k] EXCEPT !.active = FALSE] \in Row
    BY <2>1 DEF Row
  <2>4. rows' \in [KeyIds -> Row \cup {None}] /\ rows'[k] # None
    BY <2>2, <2>3, ConstantsAssumption DEF TypeOK
  <2>5. rows'[k].tenant = rows[k].tenant /\ ~rows'[k].active
    BY <2>1, <2>2 DEF TypeOK, Row
  <2>6. \A l \in KeyIds \ {k} : rows'[l] = rows[l]
    BY <2>2 DEF TypeOK
  <2>7. UNCHANGED <<tenants, unshown, issued>>
    BY DEF StoreRevoke
  <2>8. StoreTypes'
    BY <2>4, <2>7 DEF StoreTypes, TypeOK
  <2> QED BY <2>1, <2>4, <2>5, <2>6, <2>7, <2>8, RowChangeGrows
<1>3. ASSUME NEW raw \in RawKeys, NEW k \in KeyIds, NEW n \in RawKeys,
             StoreRegenerate(raw, k, n)
      PROVE  StoreTypes' /\ StoreInv' /\ Grown
  <2> USE <1>3
  <2>1. k \in Present /\ rows[k] \in Row
    BY DEF StoreRegenerate, Present, TypeOK
  <2>2. rows' = [rows EXCEPT ![k] = [rows[k] EXCEPT !.hash = n]]
    BY DEF StoreRegenerate
  <2>3. [rows[k] EXCEPT !.hash = n] \in Row
    BY <2>1 DEF Row
  <2>4. rows' \in [KeyIds -> Row \cup {None}] /\ rows'[k] # None
    BY <2>2, <2>3, ConstantsAssumption DEF TypeOK
  <2>5. rows'[k].tenant = rows[k].tenant /\ rows'[k].active = rows[k].active
    BY <2>1, <2>2 DEF TypeOK, Row
  <2>6. \A l \in KeyIds \ {k} : rows'[l] = rows[l]
    BY <2>2 DEF TypeOK
  <2>7. UNCHANGED <<tenants, issued>> /\ unshown' = unshown \cup {<<k, n>>}
    BY DEF StoreRegenerate
  <2>8. StoreTypes'
    BY <2>4, <2>7 DEF StoreTypes, TypeOK
  <2> QED BY <2>1, <2>4, <2>5, <2>6, <2>7, <2>8, RowChangeGrows
<1>4. ASSUME NEW k \in KeyIds, NEW n \in RawKeys, StoreShow(k, n)
      PROVE  StoreTypes' /\ StoreInv' /\ Grown
  <2>1. UNCHANGED tables
    BY <1>4 DEF StoreShow
  <2>2. StoreTypes'
    BY <1>4 DEF StoreShow, StoreTypes, TypeOK, tables
  <2> QED BY <2>1, <2>2, SameTables
<1>5. ASSUME StoreForget PROVE StoreTypes' /\ StoreInv' /\ Grown
  <2>1. UNCHANGED tables
    BY <1>5 DEF StoreForget
  <2>2. StoreTypes'
    BY <1>5 DEF StoreForget, StoreTypes, TypeOK, tables
  <2> QED BY <2>1, <2>2, SameTables
<1> QED BY <1>1, <1>2, <1>3, <1>4, <1>5 DEF StoreNext, StoreOperation

-----------------------------------------------------------------------------
(* While others write *)

\* Facts about the finite sets that are counted.
LEMMA Counting ==
    ASSUME TypeOK, NEW S \in SUBSET KeyIds, NEW T \in SUBSET S
    PROVE  /\ Cardinality(S) \in Nat /\ Cardinality(T) \in Nat
           /\ Cardinality(T) <= Cardinality(S)
<1>1. IsFiniteSet(S)
  BY ConstantsAssumption, FS_Subset
<1>2. IsFiniteSet(T) /\ Cardinality(T) <= Cardinality(S)
  BY <1>1, FS_Subset
<1> QED BY <1>1, <1>2, FS_CardinalityType

LEMMA CountRest ==
    ASSUME NEW S \in SUBSET KeyIds, NEW T \in SUBSET S
    PROVE  Cardinality(S \ T) = Cardinality(S) - Cardinality(T)
<1>1. IsFiniteSet(S)
  BY ConstantsAssumption, FS_Subset
<1>2. Cardinality(S \ T) = Cardinality(S) - Cardinality(S \cap T)
  BY <1>1, FS_Difference
<1>3. S \cap T = T
  OBVIOUS
<1> QED BY <1>2, <1>3

LEMMA KeySets ==
    ASSUME NEW t
    PROVE  /\ Present \subseteq KeyIds /\ KeysOf(t) \subseteq Present
           /\ Active(KeysOf(t)) \subseteq KeysOf(t)
           /\ Dead \subseteq Present
  BY DEF Present, KeysOf, Active, Dead

\* A report that is not touched stays what it was.
LEMMA UntouchedReport ==
    ASSUME Inv, StoreTypes', Grown, NEW r \in Readers,
           report' = report
    PROVE  ReportInv(report[r])'
<1> DEFINE q == report[r]
<1>1. q \in Report /\ report'[r] = q
  BY DEF Inv, TypeOK
<1>2. ReportInv(q)
  BY DEF Inv
<1>3. Registered \subseteq Registered' /\ (\A t \in Registered : KeysOf(t)' = KeysOf(t))
  BY DEF Grown
<1>4. ASSUME NEW t \in Registered
      PROVE  Active(KeysOf(t))' \subseteq Active(KeysOf(t))
  <2>1. Active(KeysOf(t))' = {k \in KeysOf(t) : rows'[k].active}
    BY <1>3 DEF Active
  <2>2. \A k \in KeysOf(t) : rows'[k].active => rows[k].active
    BY DEF Grown, KeysOf
  <2> QED BY <2>1, <2>2 DEF Active
<1>5. Dead \subseteq Dead'
  BY DEF Grown, Dead
<1>6. StepInv(q)'
  BY <1>1, <1>2, <1>3 DEF ReportInv, StepInv
<1>7. ActiveInv(q)'
  <2>1. q.dead \subseteq Dead'
    BY <1>2, <1>5 DEF ReportInv, ActiveInv
  <2>2. ASSUME NEW t \in TenantIds, q.active[t] # None
        PROVE  /\ t \in Registered'
               /\ Cardinality(Active(KeysOf(t))') <= q.active[t]
               /\ q.active[t] <= Cardinality(KeysOf(t)' \ q.dead)
    <3>1. /\ t \in Registered
          /\ Cardinality(Active(KeysOf(t))) <= q.active[t]
          /\ q.active[t] <= Cardinality(KeysOf(t) \ q.dead)
      BY <1>2, <2>2 DEF ReportInv, ActiveInv
    <3>2. q.active[t] \in Nat
      BY <1>1, <2>2 DEF Report, Count
    <3>3. /\ Cardinality(Active(KeysOf(t))') <= Cardinality(Active(KeysOf(t)))
          /\ Cardinality(Active(KeysOf(t))') \in Nat
          /\ Cardinality(Active(KeysOf(t))) \in Nat
      BY <1>4, <3>1, Counting, KeySets DEF Inv
    <3> QED BY <1>3, <3>1, <3>2, <3>3
  <2> QED BY <1>1, <2>1, <2>2 DEF ActiveInv
<1>8. RowsInv(q)'
  <2>1. ASSUME NEW k \in KeyIds, q.rows[k] # None
        PROVE  /\ q.kind \in {"keys", "tenantKeys"}
               /\ q.tenant \in Registered'
               /\ k \in KeysOf(q.tenant)'
               /\ q.rows[k].active => k \notin q.dead
               /\ rows'[k].active => q.rows[k].active
    <3>1. /\ q.kind \in {"keys", "tenantKeys"} /\ q.tenant \in Registered
          /\ k \in KeysOf(q.tenant)
          /\ q.rows[k].active => k \notin q.dead
          /\ rows[k].active => q.rows[k].active
      BY <1>2, <2>1 DEF ReportInv, RowsInv
    <3>2. rows'[k].active => rows[k].active
      BY <3>1 DEF Grown, KeysOf
    <3> QED BY <1>3, <3>1, <3>2
  <2>2. q.pc = "answered" /\ q.kind \in {"keys", "tenantKeys"} =>
           q.tenant \in Registered' /\ {k \in KeyIds : q.rows[k] # None} = KeysOf(q.tenant)'
    BY <1>2, <1>3 DEF ReportInv, RowsInv
  <2> QED BY <1>1, <2>1, <2>2 DEF RowsInv
<1>9. TotalsInv(q)'
  <2>1. Present \subseteq Present' /\ Present' \subseteq KeyIds
    BY DEF Grown, Present
  <2>2. /\ Cardinality(Present) <= Cardinality(Present')
        /\ Cardinality(Present) \in Nat /\ Cardinality(Present') \in Nat
    BY <2>1, Counting DEF Inv
  <2>3. q.totals["tenants"] \in Nat \cup {None}
    BY <1>1 DEF Report, Count, Totals
  <2> QED BY <1>1, <1>2, <2>2, <2>3 DEF ReportInv, TotalsInv
<1>10. KeysInv(q)'
  BY <1>1, <1>2, <1>3 DEF ReportInv, KeysInv
<1>11. SeenInv(q)'
  <2>1. SeenInv(q) /\ q.seen \subseteq Present'
    BY <1>2 DEF ReportInv, SeenInv, Grown
  <2>2. ASSUME q.totals["active"] # None
        PROVE  /\ Cardinality({k \in q.seen : rows'[k].active}) <= q.totals["active"]
               /\ q.totals["active"] <= Cardinality(Present' \ q.dead)
    <3>1. /\ {k \in q.seen : rows'[k].active} \subseteq Active(q.seen)
          /\ Active(q.seen) \subseteq KeyIds
      BY <2>1 DEF SeenInv, Grown, Active, Present
    <3>2. /\ Present \ q.dead \subseteq Present' \ q.dead
          /\ Present' \ q.dead \subseteq KeyIds
      BY DEF Grown, Present
    <3>3. q.totals["active"] \in Nat
      BY <1>1, <2>2 DEF Report, Count, Totals
    <3>4. /\ Cardinality(Active(q.seen)) <= q.totals["active"]
          /\ q.totals["active"] <= Cardinality(Present \ q.dead)
      BY <2>1, <2>2 DEF SeenInv
    <3>5. /\ Cardinality({k \in q.seen : rows'[k].active}) <= Cardinality(Active(q.seen))
          /\ Cardinality({k \in q.seen : rows'[k].active}) \in Nat
          /\ Cardinality(Active(q.seen)) \in Nat
      BY <3>1, Counting DEF Inv
    <3>6. /\ Cardinality(Present \ q.dead) <= Cardinality(Present' \ q.dead)
          /\ Cardinality(Present \ q.dead) \in Nat
          /\ Cardinality(Present' \ q.dead) \in Nat
      BY <3>2, Counting DEF Inv
    <3> QED BY <3>3, <3>4, <3>5, <3>6
  <2> QED BY <1>1, <2>1, <2>2 DEF SeenInv, Active
<1> QED BY <1>6, <1>7, <1>8, <1>9, <1>10, <1>11 DEF ReportInv

LEMMA WriteKeeps ==
    ASSUME Inv, Write
    PROVE  Inv'
<1>1. StoreTypes' /\ StoreInv' /\ Grown
  BY StoreStep DEF Inv, Write, StoreNext
<1>2. report' = report
  BY DEF Write
<1>3. TypeOK'
  BY <1>1, <1>2 DEF Inv, TypeOK, StoreTypes
<1>4. \A r \in Readers : ReportInv(report[r])'
  BY <1>1, <1>2, UntouchedReport
<1> QED BY <1>1, <1>3, <1>4 DEF Inv

-----------------------------------------------------------------------------
(* While a report reads *)

\* A report on a tenant names one (the last conjunct of TypeOK).
NamesTenant(q) ==
    q.pc # "idle" /\ q.kind \in {"me", "keys", "tenantKeys"} => q.tenant # None

\* It is enough to look at the report that reads, in the tables as they are.
LEMMA ReadStep ==
    ASSUME Inv, UNCHANGED storeVars, NEW r \in Readers, NEW q \in Report,
           NamesTenant(q), ReportInv(q),
           report' = [report EXCEPT ![r] = q]
    PROVE  Inv'
<1>1. tenants' = tenants /\ rows' = rows /\ UNCHANGED tables
  BY DEF storeVars, tables
<1>2. report'[r] = q /\ \A p \in Readers \ {r} : report'[p] = report[p]
  BY DEF Inv, TypeOK
<1>3. TypeOK'
  <2>1. report' \in [Readers -> Report]
    BY DEF Inv, TypeOK
  <2>2. \A p \in Readers : NamesTenant(report'[p])
    BY <1>2 DEF Inv, TypeOK, NamesTenant
  <2> QED BY <2>1, <2>2 DEF Inv, TypeOK, NamesTenant, storeVars, tables
<1>4. StoreInv'
  BY <1>1, SameTables DEF Inv
<1>5. ASSUME NEW p \in Readers PROVE ReportInv(report[p])'
  <2>1. PICK s \in Report : s = report'[p] /\ ReportInv(s)
    <3>1. CASE p = r
      BY <3>1, <1>2
    <3>2. CASE p # r
      BY <3>2, <1>2 DEF Inv, TypeOK
    <3> QED BY <3>1, <3>2
  <2>2. StepInv(report[p])'
    BY <1>1, <2>1 DEF ReportInv, StepInv, Registered
  <2>3. ActiveInv(report[p])'
    BY <1>1, <2>1 DEF ReportInv, ActiveInv, Registered, Dead, Present, KeysOf, Active
  <2>4. RowsInv(report[p])'
    BY <1>1, <2>1 DEF ReportInv, RowsInv, Registered, Present, KeysOf
  <2>5. TotalsInv(report[p])'
    BY <1>1, <2>1 DEF ReportInv, TotalsInv, Present
  <2>6. KeysInv(report[p])'
    BY <1>1, <2>1 DEF ReportInv, KeysInv, Registered, Present, KeysOf
  <2>7. SeenInv(report[p])'
    BY <1>1, <2>1 DEF ReportInv, SeenInv, Present, Active
  <2> QED BY <2>2, <2>3, <2>4, <2>5, <2>6, <2>7 DEF ReportInv
<1> QED BY <1>3, <1>4, <1>5 DEF Inv

LEMMA NoTenantWithoutKey ==
    ASSUME TypeOK, StoreInv
    PROVE  Cardinality(Registered) <= Cardinality(Present)
<1> DEFINE f == [k \in Present |-> rows[k].tenant]
<1>1. f \in [Present -> Registered]
  BY DEF StoreInv
<1>2. \A t \in Registered : \E k \in Present : f[k] = t
  BY DEF StoreInv, KeysOf
<1>3. f \in Surjection(Present, Registered)
  BY <1>1, <1>2 DEF Surjection
<1>4. IsFiniteSet(Present)
  BY ConstantsAssumption, FS_Subset, KeySets
<1> QED BY <1>3, <1>4, FS_Surjection

LEMMA FinitelyManyTenants ==
    ASSUME TypeOK, StoreInv
    PROVE  IsFiniteSet(Registered)
<1> DEFINE f == [k \in Present |-> rows[k].tenant]
<1>1. f \in Surjection(Present, Registered)
  BY DEF StoreInv, KeysOf, Surjection
<1>2. IsFiniteSet(Present)
  BY ConstantsAssumption, FS_Subset, KeySets
<1> QED BY <1>1, <1>2, FS_Surjection

LEMMA ReportParts ==
    ASSUME NEW q, StepInv(q), ActiveInv(q), RowsInv(q),
           TotalsInv(q), SeenInv(q), KeysInv(q)
    PROVE  ReportInv(q)
  BY DEF ReportInv

LEMMA ReportOf ==
    ASSUME Inv, NEW r \in Readers
    PROVE  /\ report[r] \in Report /\ NamesTenant(report[r])
           /\ StepInv(report[r]) /\ ActiveInv(report[r]) /\ RowsInv(report[r])
           /\ TotalsInv(report[r]) /\ SeenInv(report[r]) /\ KeysInv(report[r])
  BY DEF Inv, TypeOK, NamesTenant, ReportInv

LEMMA EmptyReport ==
    /\ NoReport \in Report /\ NamesTenant(NoReport) /\ ReportInv(NoReport)
<1>1. NoReport \in Report
  BY DEF NoReport, Report, Count, Totals
<1>2. NamesTenant(NoReport)
  BY DEF NoReport, NamesTenant
<1>3. StepInv(NoReport) /\ ActiveInv(NoReport) /\ RowsInv(NoReport)
  BY DEF NoReport, StepInv, ActiveInv, RowsInv
<1>4. TotalsInv(NoReport) /\ SeenInv(NoReport) /\ KeysInv(NoReport)
  BY DEF NoReport, TotalsInv, SeenInv, KeysInv, Totals
<1> QED BY <1>1, <1>2, <1>3, <1>4, ReportParts

LEMMA ArriveKeeps ==
    ASSUME Inv, NEW r \in Readers,
           NEW kind \in {"me", "keys", "metrics", "tenants", "tenantKeys"},
           NEW t \in TenantIds \cup {None}, Arrive(r, kind, t)
    PROVE  Inv'
<1> DEFINE q == [NoReport EXCEPT !.pc = First(kind), !.kind = kind,
                                 !.tenant = t, !.dead = Dead]
<1>1. /\ q.pc = First(kind) /\ q.kind = kind /\ q.tenant = t /\ q.dead = Dead /\ q.todo = {}
      /\ q.keys = NoReport.keys /\ q.active = NoReport.active
      /\ q.totals = NoReport.totals /\ q.seen = {} /\ q.rows = NoReport.rows
  BY DEF NoReport
<1>2. q \in Report
  <2>1. First(kind) \in {"get", "list", "metrics", "select"}
    BY DEF First
  <2>2. Dead \in SUBSET KeyIds
    BY KeySets
  <2> QED BY <2>1, <2>2, EmptyReport DEF NoReport, Report
<1>3. NamesTenant(q)
  <2>1. kind \in {"me", "keys", "tenantKeys"} => t \in TenantIds
    BY DEF Arrive, Admitted, Registered
  <2> QED BY <1>1, <2>1, ConstantsAssumption DEF NamesTenant
<1>4. StepInv(q)
  <2>1. kind = "keys" => t \in Registered
    BY DEF Arrive, Admitted
  <2> QED BY <1>1, <2>1 DEF StepInv, First
<1>5. ActiveInv(q)
  BY <1>1 DEF ActiveInv, NoReport
<1>6. RowsInv(q)
  BY <1>1 DEF RowsInv, NoReport, First
<1>7. TotalsInv(q) /\ SeenInv(q)
  BY <1>1 DEF TotalsInv, SeenInv, NoReport, Totals, First
<1>8. KeysInv(q)
  BY <1>1 DEF KeysInv, NoReport, First
<1>9. ReportInv(q)
  BY <1>4, <1>5, <1>6, <1>7, <1>8, ReportParts
<1> QED BY <1>2, <1>3, <1>9, ReadStep DEF Arrive

LEMMA GetTenantKeeps ==
    ASSUME Inv, NEW r \in Readers, GetTenant(r)
    PROVE  Inv'
<1> DEFINE p == report[r]
           q == [p EXCEPT !.pc = "load"]
<1>1. CASE p.tenant \in Registered
  <2> USE <1>1
  <2>1. q \in Report /\ NamesTenant(q)
    <3>1. p \in Report /\ NamesTenant(p)
      BY ReportOf
    <3>2. q \in Report
      BY <3>1 DEF Report, GetTenant
    <3>3. NamesTenant(q)
      BY <3>1 DEF Report, NamesTenant, GetTenant
    <3> QED BY <3>2, <3>3
  <2>2. /\ StepInv(q) /\ ActiveInv(q) /\ RowsInv(q)
        /\ TotalsInv(q) /\ SeenInv(q) /\ KeysInv(q)
    <3>1. /\ p.pc = "get" /\ q.pc = "load" /\ q.kind = p.kind /\ q.tenant = p.tenant
          /\ q.dead = p.dead /\ q.todo = p.todo /\ q.keys = p.keys /\ q.active = p.active
          /\ q.totals = p.totals /\ q.seen = p.seen /\ q.rows = p.rows
      BY ReportOf DEF GetTenant, Report
    <3>2. StepInv(q) /\ RowsInv(q) /\ KeysInv(q)
      BY <3>1, ReportOf DEF StepInv, RowsInv, KeysInv
    <3>3. ActiveInv(q) /\ TotalsInv(q) /\ SeenInv(q)
      BY <3>1, ReportOf DEF ActiveInv, TotalsInv, SeenInv
    <3> QED BY <3>2, <3>3
  <2>3. report' = [report EXCEPT ![r] = q]
    BY DEF GetTenant, Inv, TypeOK
  <2>4. UNCHANGED storeVars
    BY DEF GetTenant
  <2> QED BY <2>1, <2>2, <2>3, <2>4, ReportParts, ReadStep
<1>2. CASE p.tenant \notin Registered
  <2>1. report' = [report EXCEPT ![r] = NoReport] /\ UNCHANGED storeVars
    BY <1>2 DEF GetTenant
  <2> QED BY <2>1, EmptyReport, ReadStep
<1> QED BY <1>1, <1>2

LEMMA LeaveKeeps ==
    ASSUME Inv, NEW r \in Readers, Leave(r)
    PROVE  Inv'
  BY EmptyReport, ReadStep DEF Leave

LEMMA SelectTenantsKeeps ==
    ASSUME Inv, NEW r \in Readers, SelectTenants(r)
    PROVE  Inv'
<1> DEFINE p == report[r]
<1>1. PICK page \in SUBSET Registered :
         report' = [report EXCEPT ![r].pc = IF page = {} THEN "answered" ELSE "all",
                                  ![r].todo = page]
  BY DEF SelectTenants
<1> DEFINE q == [p EXCEPT !.pc = IF page = {} THEN "answered" ELSE "all", !.todo = page]
<1>2. q \in Report /\ NamesTenant(q)
  <2>1. p \in Report /\ NamesTenant(p)
    BY ReportOf
  <2>2. q \in Report
    BY <2>1 DEF Report, SelectTenants, Registered
  <2>3. NamesTenant(q)
    BY <2>1 DEF Report, NamesTenant, SelectTenants, Registered
  <2> QED BY <2>2, <2>3
<1>3. StepInv(q) /\ ActiveInv(q)
  BY ReportOf DEF SelectTenants, Report, StepInv, ActiveInv
<1>4. RowsInv(q) /\ TotalsInv(q) /\ SeenInv(q) /\ KeysInv(q)
  BY ReportOf DEF SelectTenants, Report, StepInv, RowsInv, TotalsInv, SeenInv, KeysInv
<1>5. report' = [report EXCEPT ![r] = q]
  BY <1>1 DEF Inv, TypeOK
<1>6. UNCHANGED storeVars
  BY DEF SelectTenants
<1> QED BY <1>2, <1>3, <1>4, <1>5, <1>6, ReportParts, ReadStep

LEMMA LoadKeysKeeps ==
    ASSUME Inv, NEW r \in Readers, LoadKeys(r)
    PROVE  Inv'
<1> DEFINE p == report[r]
<1>1. UNCHANGED storeVars /\ p.pc = "load"
  BY DEF LoadKeys
<1>2. CASE p.kind = "me"
  <2> DEFINE q == [p EXCEPT !.pc = "own"]
  <2>1. q \in Report /\ NamesTenant(q)
    <3>1. p \in Report /\ NamesTenant(p)
      BY ReportOf
    <3>2. q \in Report
      BY <1>1, <3>1 DEF Report
    <3>3. NamesTenant(q)
      BY <1>1, <3>1 DEF Report, NamesTenant
    <3> QED BY <3>2, <3>3
  <2>2. /\ StepInv(q) /\ ActiveInv(q) /\ RowsInv(q)
        /\ TotalsInv(q) /\ SeenInv(q) /\ KeysInv(q)
    BY <1>1, <1>2, ReportOf
    DEF Report, StepInv, ActiveInv, RowsInv, TotalsInv, SeenInv, KeysInv
  <2>3. report' = [report EXCEPT ![r] = q]
    BY <1>2 DEF LoadKeys, Inv, TypeOK
  <2> QED BY <1>1, <2>1, <2>2, <2>3, ReportParts, ReadStep
<1>3. CASE p.kind # "me"
  <2> DEFINE q == [p EXCEPT !.pc = "list", !.rows = RowsOf(p.tenant)]
  <2>1. p.kind = "tenantKeys" /\ p.tenant \in Registered
    BY <1>1, <1>3, ReportOf DEF StepInv
  <2>2. RowsOf(p.tenant) \in [KeyIds -> Row \cup {None}]
    BY DEF RowsOf, KeysOf, Present, Inv, TypeOK
  <2>3. q \in Report /\ NamesTenant(q)
    <3>1. p \in Report /\ NamesTenant(p)
      BY ReportOf
    <3>2. q \in Report
      BY <1>1, <2>2, <3>1 DEF Report
    <3>3. NamesTenant(q)
      BY <1>1, <2>2, <3>1 DEF Report, NamesTenant
    <3> QED BY <3>2, <3>3
  <2>4. q.pc = "list" /\ q.rows = RowsOf(p.tenant) /\ q.kind = p.kind /\ q.tenant = p.tenant
        /\ q.dead = p.dead
    BY ReportOf DEF Report
  <2>5. StepInv(q) /\ ActiveInv(q) /\ TotalsInv(q) /\ SeenInv(q) /\ KeysInv(q)
    BY <1>1, <2>1, ReportOf DEF Report, StepInv, ActiveInv, TotalsInv, SeenInv, KeysInv
  <2>6. RowsInv(q)
    <3>1. ASSUME NEW k \in KeyIds, q.rows[k] # None
          PROVE  k \in KeysOf(p.tenant) /\ q.rows[k] = rows[k]
      BY <2>4, <3>1 DEF RowsOf
    <3>2. p.dead \subseteq Dead
      BY ReportOf DEF ActiveInv
    <3> QED BY <2>1, <2>4, <3>1, <3>2 DEF RowsInv, Dead
  <2>7. report' = [report EXCEPT ![r] = q]
    BY <1>3 DEF LoadKeys, Inv, TypeOK
  <2> QED BY <1>1, <2>3, <2>5, <2>6, <2>7, ReportParts, ReadStep
<1> QED BY <1>2, <1>3

\* The active keys of a tenant are counted as they are.
LEMMA ActiveCount ==
    ASSUME Inv, NEW t \in Registered, NEW S, S \subseteq Dead
    PROVE  /\ Cardinality(Active(KeysOf(t))) \in Nat
           /\ Cardinality(Active(KeysOf(t))) <= Cardinality(KeysOf(t) \ S)
<1>1. Active(KeysOf(t)) \subseteq KeysOf(t) \ S /\ KeysOf(t) \ S \subseteq KeyIds
  BY KeySets DEF Active, Dead
<1> QED BY <1>1, Counting DEF Inv

LEMMA CountOwnKeeps ==
    ASSUME Inv, NEW r \in Readers, CountOwn(r)
    PROVE  Inv'
<1> DEFINE p == report[r]
           t == p.tenant
           n == Cardinality(Active(KeysOf(t)))
           q == [p EXCEPT !.pc = "answered", !.active[t] = n]
<1>1. UNCHANGED storeVars /\ p.pc = "own" /\ p.kind = "me" /\ t \in Registered
  BY ReportOf DEF CountOwn, StepInv
<1>2. n \in Nat /\ n <= Cardinality(KeysOf(t) \ p.dead)
  BY <1>1, ReportOf, ActiveCount DEF ActiveInv
<1>3. t \in TenantIds
  BY <1>1 DEF Registered
<1> HIDE DEF n
<1>4. q \in Report /\ NamesTenant(q)
  <2>1. p \in Report /\ NamesTenant(p)
    BY ReportOf
  <2>2. q \in Report
    BY <1>1, <1>2, <1>3, <2>1 DEF Report, Count
  <2>3. NamesTenant(q)
    BY <1>1, <1>2, <1>3, <2>1 DEF Report, NamesTenant
  <2> QED BY <2>2, <2>3
<1>5. q.active[t] = n /\ \A u \in TenantIds \ {t} : q.active[u] = p.active[u]
  BY <1>3, ReportOf DEF Report
<1>6. /\ q.pc = "answered" /\ q.kind = p.kind /\ q.tenant = p.tenant /\ q.dead = p.dead
      /\ q.todo = p.todo /\ q.keys = p.keys /\ q.totals = p.totals /\ q.rows = p.rows
      /\ q.seen = p.seen
  BY ReportOf DEF Report
<1>7. ActiveInv(q)
  <2>1. n = Cardinality(Active(KeysOf(t)))
    BY DEF n
  <2>2. n <= n
    BY <1>2
  <2> QED BY <1>1, <1>2, <1>5, <1>6, <2>1, <2>2, ReportOf DEF ActiveInv
<1>8. StepInv(q) /\ RowsInv(q) /\ TotalsInv(q) /\ SeenInv(q) /\ KeysInv(q)
  BY <1>1, <1>6, ReportOf DEF StepInv, RowsInv, TotalsInv, SeenInv, KeysInv
<1>9. report' = [report EXCEPT ![r] = q]
  BY DEF CountOwn, Inv, TypeOK, n
<1> QED BY <1>1, <1>4, <1>7, <1>8, <1>9, ReportParts, ReadStep

LEMMA ListKeysKeeps ==
    ASSUME Inv, NEW r \in Readers, ListKeys(r)
    PROVE  Inv'
<1> DEFINE p == report[r]
<1>1. PICK kept \in SUBSET {k \in KeyIds : p.rows[k] # None} :
         report' = [report EXCEPT ![r].pc = "answered",
                                  ![r].rows = [k \in KeyIds |->
                                      IF k \in kept THEN @[k] ELSE RowsOf(p.tenant)[k]]]
  BY DEF ListKeys
<1> DEFINE listed == [k \in KeyIds |-> IF k \in kept THEN p.rows[k] ELSE RowsOf(p.tenant)[k]]
           q == [p EXCEPT !.pc = "answered", !.rows = listed]
<1>2. /\ UNCHANGED storeVars /\ p.pc = "list" /\ p.kind \in {"keys", "tenantKeys"}
      /\ p.tenant \in Registered
  BY ReportOf DEF ListKeys, StepInv
<1>3. listed \in [KeyIds -> Row \cup {None}]
  <2>1. RowsOf(p.tenant) \in [KeyIds -> Row \cup {None}]
    BY DEF RowsOf, KeysOf, Present, Inv, TypeOK
  <2>2. p.rows \in [KeyIds -> Row \cup {None}]
    BY ReportOf DEF Report
  <2> QED BY <2>1, <2>2
<1>4. ASSUME NEW k \in KeyIds
      PROVE  /\ listed[k] # None <=> k \in KeysOf(p.tenant)
             /\ listed[k] # None /\ listed[k].active => k \notin p.dead
             /\ listed[k] # None /\ rows[k].active => listed[k].active
  <2>1. p.dead \subseteq Dead
    BY ReportOf DEF ActiveInv
  <2>2. CASE k \in kept
    BY <2>2, ReportOf DEF RowsInv
  <2>3. CASE k \notin kept
    BY <2>1, <2>3 DEF RowsOf, KeysOf, Present, Dead
  <2> QED BY <2>2, <2>3
<1> HIDE DEF listed
<1>5. q \in Report /\ NamesTenant(q)
  <2>1. p \in Report /\ NamesTenant(p)
    BY ReportOf
  <2>2. q \in Report
    BY <1>2, <1>3, <2>1 DEF Report
  <2>3. NamesTenant(q)
    BY <1>2, <1>3, <2>1 DEF Report, NamesTenant
  <2> QED BY <2>2, <2>3
<1>6. /\ q.pc = "answered" /\ q.kind = p.kind /\ q.tenant = p.tenant /\ q.dead = p.dead
      /\ q.todo = p.todo /\ q.keys = p.keys /\ q.active = p.active
      /\ q.totals = p.totals /\ q.seen = p.seen /\ q.rows = listed
  BY ReportOf DEF Report
<1>7. RowsInv(q)
  <2>1. KeysOf(p.tenant) \subseteq KeyIds
    BY KeySets
  <2> QED BY <1>2, <1>4, <1>6, <2>1 DEF RowsInv
<1>8. StepInv(q) /\ ActiveInv(q) /\ TotalsInv(q) /\ SeenInv(q) /\ KeysInv(q)
  BY <1>2, <1>6, ReportOf DEF StepInv, ActiveInv, TotalsInv, SeenInv, KeysInv
<1>9. report' = [report EXCEPT ![r] = q]
  BY <1>1 DEF Inv, TypeOK, listed
<1> QED BY <1>2, <1>5, <1>7, <1>8, <1>9, ReportParts, ReadStep

LEMMA CountTotalKeeps ==
    ASSUME Inv, NEW r \in Readers, CountTotal(r)
    PROVE  Inv'
<1> DEFINE p == report[r]
<1>1. PICK i \in 1 .. 3 :
         /\ p.totals[MetricsOrder[i]] = None
         /\ \A j \in 1 .. i - 1 : p.totals[MetricsOrder[j]] # None
         /\ report' = [report EXCEPT
                         ![r].totals[MetricsOrder[i]] = Total(MetricsOrder[i]),
                         ![r].seen = IF MetricsOrder[i] = "keys" THEN Present ELSE @,
                         ![r].pc = IF i = 3 THEN "answered" ELSE @]
  BY DEF CountTotal
<1> DEFINE c == MetricsOrder[i]
           n == Total(c)
           counted == [p.totals EXCEPT ![c] = n]
           shown == IF c = "keys" THEN Present ELSE p.seen
           q == [p EXCEPT !.totals = counted, !.seen = shown,
                          !.pc = IF i = 3 THEN "answered" ELSE @]
<1>2. UNCHANGED storeVars /\ p.pc = "metrics" /\ p.kind = "metrics"
  BY ReportOf DEF CountTotal, StepInv
<1>3. /\ c \in Totals
      /\ c = "tenants" => i = 1
      /\ c = "keys" => p.totals["tenants"] # None
      /\ c = "active" => p.totals["keys"] # None
      /\ i = 3 <=> c = "active"
  <2>1. CASE i = 1
    BY <2>1 DEF MetricsOrder, Totals
  <2>2. CASE i = 2
    <3>1. p.totals[MetricsOrder[1]] # None
      BY <1>1, <2>2
    <3> QED BY <2>2, <3>1 DEF MetricsOrder, Totals
  <2>3. CASE i = 3
    <3>1. p.totals[MetricsOrder[2]] # None
      BY <1>1, <2>3
    <3> QED BY <2>3, <3>1 DEF MetricsOrder, Totals
  <2> QED BY <2>1, <2>2, <2>3
<1>4. /\ n \in Nat
      /\ c = "tenants" => n <= Cardinality(Present)
      /\ c = "keys" => n = Cardinality(Present)
      /\ c = "active" => n = Cardinality(Active(Present))
  <2>1. Cardinality(Present) \in Nat /\ Cardinality(Active(Present)) \in Nat
    <3>1. Active(Present) \subseteq Present /\ Present \subseteq KeyIds
      BY DEF Active, Present
    <3> QED BY <3>1, Counting DEF Inv
  <2>2. Cardinality(Registered) <= Cardinality(Present)
    BY NoTenantWithoutKey DEF Inv
  <2>3. Cardinality(Registered) \in Nat
    <3>1. IsFiniteSet(Registered)
      BY FinitelyManyTenants DEF Inv
    <3> QED BY <3>1, FS_CardinalityType
  <2> QED BY <1>3, <2>1, <2>2, <2>3 DEF Total, Totals
<1> HIDE DEF n, c
<1>5. counted \in [Totals -> Count]
  BY <1>4, ReportOf DEF Report, Count
<1>6. counted[c] = n /\ \A d \in Totals \ {c} : counted[d] = p.totals[d]
  BY <1>3, ReportOf DEF Report
<1> HIDE DEF counted
<1>7. q \in Report /\ NamesTenant(q)
  <2>1. p \in Report /\ NamesTenant(p)
    BY ReportOf
  <2>2. shown \in SUBSET KeyIds
    BY <2>1 DEF Report, Present
  <2> HIDE DEF shown
  <2>3. q \in Report
    BY <1>2, <1>5, <2>1, <2>2 DEF Report
  <2>4. NamesTenant(q)
    BY <1>2, <1>5, <2>1, <2>2 DEF Report, NamesTenant
  <2> QED BY <2>3, <2>4
<1>8. /\ q.pc = (IF i = 3 THEN "answered" ELSE "metrics") /\ q.totals = counted
      /\ q.kind = p.kind /\ q.tenant = p.tenant /\ q.dead = p.dead /\ q.todo = p.todo
      /\ q.keys = p.keys /\ q.active = p.active /\ q.rows = p.rows /\ q.seen = shown
  BY <1>2, ReportOf DEF Report
<1>9. TotalsInv(q)
  <2>1. p.totals["tenants"] \in Nat \cup {None}
    BY ReportOf DEF Report, Count, Totals
  <2>2. /\ p.totals["tenants"] # None => p.totals["tenants"] <= Cardinality(Present)
        /\ p.totals["keys"] # None =>
              p.totals["tenants"] # None /\ p.totals["tenants"] <= p.totals["keys"]
    BY ReportOf DEF TotalsInv
  <2>3. CASE c = "tenants"
    <3>1. i = 1 /\ p.totals["tenants"] = None
      BY <1>1, <1>3, <2>3 DEF c
    <3>2. p.totals["keys"] = None
      BY <2>2, <3>1
    <3>3. counted["keys"] = None /\ counted["tenants"] = n
      BY <1>6, <2>3, <3>2 DEF Totals
    <3>4. q.pc # "answered"
      BY <1>8, <3>1
    <3> QED BY <1>4, <1>8, <2>3, <3>3, <3>4 DEF TotalsInv
  <2>4. CASE c = "keys"
    <3>1. i # 3
      BY <1>3, <2>4
    <3>2. counted["tenants"] = p.totals["tenants"] /\ counted["keys"] = n
      BY <1>6, <2>4 DEF Totals
    <3> QED BY <1>3, <1>4, <1>8, <2>2, <2>4, <3>1, <3>2 DEF TotalsInv
  <2>5. CASE c = "active"
    <3>1. counted["tenants"] = p.totals["tenants"] /\ counted["keys"] = p.totals["keys"]
      BY <1>6, <2>5 DEF Totals
    <3> QED BY <1>3, <1>8, <2>2, <2>5, <3>1 DEF TotalsInv
  <2> QED BY <1>3, <2>3, <2>4, <2>5 DEF Totals
<1>10. SeenInv(q)
  <2>1. SeenInv(p) /\ p.seen \subseteq Present /\ p.dead \subseteq Dead
    BY ReportOf DEF SeenInv, ActiveInv
  <2>2. CASE c = "tenants"
    <3>1. p.totals["tenants"] = None /\ i = 1
      BY <1>1, <1>3, <2>2 DEF c
    <3>2. p.totals["keys"] = None /\ p.totals["active"] = None
      BY <2>1, <3>1, ReportOf DEF TotalsInv, SeenInv
    <3>3. counted["keys"] = None /\ counted["active"] = None
      BY <1>6, <2>2, <3>2 DEF Totals
    <3> QED BY <1>8, <2>1, <2>2, <3>1, <3>3 DEF SeenInv
  <2>3. CASE c = "keys"
    <3>1. p.totals["keys"] = None /\ i # 3
      BY <1>1, <1>3, <2>3 DEF c
    <3>2. p.totals["active"] = None
      BY <2>1, <3>1 DEF SeenInv
    <3>3. counted["keys"] = n /\ counted["active"] = None
      BY <1>6, <2>3, <3>2 DEF Totals
    <3> QED BY <1>4, <1>8, <2>3, <3>1, <3>3 DEF SeenInv
  <2>4. CASE c = "active"
    <3>1. counted["keys"] = p.totals["keys"] /\ counted["active"] = n
      BY <1>6, <2>4 DEF Totals
    <3>2. n # None /\ p.totals["keys"] # None /\ q.seen = p.seen
      BY <1>3, <1>4, <1>8, <2>4, ConstantsAssumption
    <3>3. /\ Active(p.seen) \subseteq Active(Present) /\ Active(Present) \subseteq KeyIds
          /\ Active(Present) \subseteq Present \ p.dead /\ Present \ p.dead \subseteq KeyIds
      BY <2>1 DEF Active, Present, Dead
    <3>4. /\ Cardinality(Active(p.seen)) <= Cardinality(Active(Present))
          /\ Cardinality(Active(Present)) <= Cardinality(Present \ p.dead)
      BY <3>3, Counting DEF Inv
    <3> QED BY <1>4, <1>8, <2>1, <2>4, <3>1, <3>2, <3>4 DEF SeenInv
  <2> QED BY <1>3, <2>2, <2>3, <2>4 DEF Totals
<1>11. StepInv(q) /\ ActiveInv(q) /\ RowsInv(q) /\ KeysInv(q)
  BY <1>2, <1>8, ReportOf DEF StepInv, ActiveInv, RowsInv, KeysInv
<1>12. report' = [report EXCEPT ![r] = q]
  BY <1>1 DEF Inv, TypeOK, counted, n, c
<1> QED BY <1>2, <1>7, <1>9, <1>10, <1>11, <1>12, ReportParts, ReadStep

LEMMA CountAllKeysKeeps ==
    ASSUME Inv, NEW r \in Readers, CountAllKeys(r)
    PROVE  Inv'
<1> DEFINE p == report[r]
<1>1. PICK t \in p.todo :
         report' = [report EXCEPT ![r].pc = "active", ![r].tenant = t,
                                  ![r].keys[t] = Cardinality(KeysOf(t))]
  BY DEF CountAllKeys
<1> DEFINE n == Cardinality(KeysOf(t))
           counted == [p.keys EXCEPT ![t] = n]
           q == [p EXCEPT !.pc = "active", !.tenant = t, !.keys = counted]
<1>2. UNCHANGED storeVars /\ p.pc = "all" /\ p.kind = "tenants" /\ t \in Registered
  BY ReportOf DEF CountAllKeys, StepInv
<1>3. t \in TenantIds /\ n \in Nat /\ n # None
  <2>1. KeysOf(t) \subseteq KeyIds
    BY KeySets
  <2>2. n \in Nat
    BY <2>1, Counting DEF Inv
  <2> QED BY <1>2, <2>2, ConstantsAssumption DEF Registered
<1>4. counted \in [TenantIds -> Count]
  BY <1>3, ReportOf DEF Report, Count
<1>5. counted[t] = n /\ \A u \in TenantIds \ {t} : counted[u] = p.keys[u]
  BY <1>3, ReportOf DEF Report
<1> HIDE DEF counted
<1>6. q \in Report /\ NamesTenant(q)
  <2>1. p \in Report /\ NamesTenant(p)
    BY ReportOf
  <2>2. q \in Report
    BY <1>2, <1>3, <1>4, <2>1 DEF Report
  <2>3. NamesTenant(q)
    BY <1>2, <1>3, <1>4, <2>1 DEF Report, NamesTenant
  <2> QED BY <2>2, <2>3
<1>7. /\ q.pc = "active" /\ q.tenant = t /\ q.keys = counted
      /\ q.kind = p.kind /\ q.dead = p.dead /\ q.todo = p.todo
      /\ q.totals = p.totals /\ q.active = p.active /\ q.rows = p.rows
      /\ q.seen = p.seen
  BY ReportOf DEF Report
<1>8. KeysInv(q)
  <2>1. \A u \in TenantIds :
           counted[u] # None => u \in Registered /\ counted[u] = Cardinality(KeysOf(u))
    BY <1>2, <1>5, ReportOf DEF KeysInv
  <2>2. ASSUME NEW u \in TenantIds
        PROVE  /\ p.active[u] # None => counted[u] # None
               /\ counted[u] # None /\ p.active[u] = None => u = t
    BY <1>2, <1>3, <1>5, ReportOf DEF KeysInv
  <2> QED BY <1>3, <1>5, <1>7, <2>1, <2>2 DEF KeysInv
<1>9. RowsInv(q)
  BY <1>2, <1>7, ReportOf DEF RowsInv
<1>10. StepInv(q) /\ ActiveInv(q) /\ TotalsInv(q) /\ SeenInv(q)
  BY <1>2, <1>7, ReportOf DEF StepInv, ActiveInv, TotalsInv, SeenInv
<1>11. report' = [report EXCEPT ![r] = q]
  BY <1>1 DEF Inv, TypeOK, counted
<1> QED BY <1>2, <1>6, <1>8, <1>9, <1>10, <1>11, ReportParts, ReadStep

LEMMA CountActiveKeysKeeps ==
    ASSUME Inv, NEW r \in Readers, CountActiveKeys(r)
    PROVE  Inv'
<1> DEFINE p == report[r]
           t == p.tenant
           n == Cardinality(Active(KeysOf(t)))
           rest == p.todo \ {t}
           counted == [p.active EXCEPT ![t] = n]
           q == [p EXCEPT !.pc = IF rest = {} THEN "answered" ELSE "all",
                          !.todo = rest, !.active = counted]
<1>1. /\ UNCHANGED storeVars /\ p.pc = "active" /\ p.kind = "tenants"
      /\ t \in p.todo /\ t \in Registered /\ p.todo \subseteq Registered
  BY ReportOf DEF CountActiveKeys, StepInv
<1>2. n \in Nat /\ n <= Cardinality(KeysOf(t) \ p.dead)
  BY <1>1, ReportOf, ActiveCount DEF ActiveInv
<1>3. t \in TenantIds /\ n # None
  BY <1>1, <1>2, ConstantsAssumption DEF Registered
<1>4. counted \in [TenantIds -> Count]
  BY <1>2, ReportOf DEF Report, Count
<1>5. counted[t] = n /\ \A u \in TenantIds \ {t} : counted[u] = p.active[u]
  BY <1>3, ReportOf DEF Report
<1> HIDE DEF counted
<1>6. q \in Report /\ NamesTenant(q)
  <2>1. p \in Report /\ NamesTenant(p)
    BY ReportOf
  <2>2. q \in Report
    BY <1>1, <1>4, <2>1 DEF Report
  <2>3. NamesTenant(q)
    BY <1>1, <1>4, <2>1 DEF Report, NamesTenant
  <2> QED BY <2>2, <2>3
<1>7. /\ q.pc \in {"answered", "all"} /\ q.todo = rest /\ q.active = counted
      /\ q.kind = p.kind /\ q.tenant = p.tenant /\ q.dead = p.dead
      /\ q.keys = p.keys /\ q.totals = p.totals /\ q.rows = p.rows
      /\ q.seen = p.seen
  BY ReportOf DEF Report
<1>8. ActiveInv(q)
  <2>1. ASSUME NEW u \in TenantIds, counted[u] # None
        PROVE  /\ u \in Registered
               /\ Cardinality(Active(KeysOf(u))) <= counted[u]
               /\ counted[u] <= Cardinality(KeysOf(u) \ p.dead)
    <3>1. CASE u = t
      BY <1>1, <1>2, <1>5, <3>1
    <3>2. CASE u # t
      BY <1>5, <2>1, <3>2, ReportOf DEF ActiveInv
    <3> QED BY <3>1, <3>2
  <2> QED BY <1>7, <2>1, ReportOf DEF ActiveInv
<1>9. KeysInv(q)
  BY <1>1, <1>3, <1>5, <1>7, ReportOf DEF KeysInv
<1>10. StepInv(q) /\ RowsInv(q) /\ TotalsInv(q) /\ SeenInv(q)
  <2>1. StepInv(q) /\ RowsInv(q) /\ TotalsInv(q)
    BY <1>1, <1>7, ReportOf DEF StepInv, RowsInv, TotalsInv
  <2>2. SeenInv(p) /\ q.kind # "metrics"
    BY <1>1, <1>7, ReportOf
  <2>3. SeenInv(q)
    BY <1>7, <2>2 DEF SeenInv
  <2> QED BY <2>1, <2>3
<1>11. report' = [report EXCEPT ![r] = q]
  <2>1. report' = [report EXCEPT ![r].pc = IF rest = {} THEN "answered" ELSE "all",
                                 ![r].todo = rest, ![r].active[t] = n]
    BY DEF CountActiveKeys
  <2>2. report \in [Readers -> Report]
    BY DEF Inv, TypeOK
  <2> HIDE DEF rest, n, t
  <2> QED BY <2>1, <2>2 DEF counted
<1> QED BY <1>1, <1>6, <1>8, <1>9, <1>10, <1>11, ReportParts, ReadStep

LEMMA CrashKeeps ==
    ASSUME Inv, Crash
    PROVE  Inv'
<1>1. StoreTypes' /\ StoreInv'
  BY StoreStep DEF Inv, Crash, StoreNext
<1>2. report' = [r \in Readers |-> NoReport]
  BY DEF Crash
<1>3. ASSUME NEW r \in Readers PROVE ReportInv(report[r])'
  <2>1. PICK s : s = NoReport /\ s = report'[r] /\ ReportInv(s)
    BY <1>2, EmptyReport
  <2>2. s.pc = "idle" /\ s.todo = {} /\ s.dead = {} /\ s.seen = {}
    BY <2>1 DEF NoReport
  <2>3. \A t \in TenantIds : s.keys[t] = None /\ s.active[t] = None
    BY <2>1 DEF NoReport
  <2>4. \A k \in KeyIds : s.rows[k] = None
    BY <2>1 DEF NoReport
  <2>5. /\ s.totals["tenants"] = None /\ s.totals["keys"] = None
        /\ s.totals["active"] = None
    BY <2>1 DEF NoReport, Totals
  <2>6. StepInv(report[r])' /\ ActiveInv(report[r])' /\ RowsInv(report[r])'
    BY <2>1, <2>2, <2>3, <2>4 DEF StepInv, ActiveInv, RowsInv
  <2>7. TotalsInv(report[r])' /\ SeenInv(report[r])' /\ KeysInv(report[r])'
    BY <2>1, <2>2, <2>3, <2>5 DEF TotalsInv, SeenInv, KeysInv
  <2> QED BY <2>6, <2>7 DEF ReportInv
<1>4. TypeOK'
  <2>1. report' \in [Readers -> Report]
    BY <1>2, EmptyReport
  <2>2. \A r \in Readers : report'[r].pc = "idle"
    BY <1>2 DEF NoReport
  <2> QED BY <1>1, <2>1, <2>2 DEF TypeOK, StoreTypes
<1> QED BY <1>1, <1>3, <1>4 DEF Inv

-----------------------------------------------------------------------------
(* The theorems *)

LEMMA InitInv == Init => Inv
<1> SUFFICES ASSUME Init PROVE Inv
  OBVIOUS
<1> USE DEF Init, StoreInit
<1>1. Registered = {} /\ Present = {}
  BY DEF Registered, Present
<1>2. StoreInv
  BY <1>1 DEF StoreInv
<1>3. TypeOK
  BY EmptyReport DEF TypeOK, NoReport
<1>4. \A r \in Readers : ReportInv(report[r])
  BY EmptyReport
<1> QED BY <1>2, <1>3, <1>4 DEF Inv

LEMMA NextInv == Inv /\ [Next]_vars => Inv'
<1> SUFFICES ASSUME Inv, [Next]_vars PROVE Inv'
  OBVIOUS
<1>1. ASSUME NEW r \in Readers,
             \/ \E kind \in {"me", "keys", "metrics", "tenants", "tenantKeys"},
                   t \in TenantIds \cup {None} : Arrive(r, kind, t)
             \/ GetTenant(r) \/ LoadKeys(r) \/ CountOwn(r) \/ ListKeys(r)
             \/ CountTotal(r) \/ SelectTenants(r) \/ CountAllKeys(r)
             \/ CountActiveKeys(r) \/ Leave(r)
      PROVE  Inv'
  BY <1>1, ArriveKeeps, GetTenantKeeps, LoadKeysKeeps, CountOwnKeeps, ListKeysKeeps,
     CountTotalKeeps, SelectTenantsKeeps, CountAllKeysKeeps, CountActiveKeysKeeps,
     LeaveKeeps
<1>2. CASE Write
  BY <1>2, WriteKeeps
<1>3. CASE Crash
  BY <1>3, CrashKeeps
<1>4. CASE UNCHANGED vars
  <2>1. UNCHANGED <<tenants, rows, unshown, issued, report>>
    BY <1>4 DEF vars, storeVars, tables
  <2>2. TypeOK'
    BY <2>1 DEF Inv, TypeOK
  <2>3. StoreTypes' /\ StoreInv' /\ Grown
    BY <2>1, <2>2, SameTables DEF Inv, TypeOK, StoreTypes, tables
  <2>4. \A r \in Readers : ReportInv(report[r])'
    BY <2>1, <2>3, UntouchedReport
  <2> QED BY <2>2, <2>3, <2>4 DEF Inv
<1> QED BY <1>1, <1>2, <1>3, <1>4 DEF Next

\* Every variable keeps its type and every report on a tenant names one, for any
\* number of reports, tenants and keys.
THEOREM TypeCorrect == Spec => []TypeOK
<1>1. Inv => TypeOK
  BY DEF Inv
<1> QED BY <1>1, InitInv, NextInv, PTL DEF Spec

\* What holds between the numbers of an answer: admin_tenants lists no tenant
\* without a key and never more active keys than keys; get_system_metrics counts
\* no fewer keys than tenants, and more active keys than keys only by what was
\* registered between its statements.  A tenant and its key are committed
\* together, the tenants are counted before the keys, and the keys of a tenant
\* never change.
THEOREM CountsFit == Spec => []CountsFitTogether
<1>1. Inv => CountsFitTogether
  <2> SUFFICES ASSUME Inv, NEW r \in Readers, report[r].pc = "answered"
               PROVE  /\ report[r].kind = "metrics" =>
                           /\ report[r].totals["tenants"] <= report[r].totals["keys"]
                           /\ report[r].totals["active"] <=
                                 report[r].totals["keys"]
                                    + Cardinality(Present \ report[r].seen)
                      /\ report[r].kind = "tenants" =>
                           \A t \in TenantIds :
                              /\ report[r].keys[t] = None <=> report[r].active[t] = None
                              /\ report[r].keys[t] # None =>
                                   /\ 0 < report[r].keys[t]
                                   /\ report[r].active[t] <= report[r].keys[t]
    BY DEF CountsFitTogether
  <2> DEFINE p == report[r]
  <2>1. p.kind = "metrics" => p.totals["tenants"] <= p.totals["keys"]
    BY ReportOf DEF TotalsInv
  <2>2. ASSUME p.kind = "tenants", NEW t \in TenantIds
        PROVE  p.keys[t] = None <=> p.active[t] = None
    BY <2>2, ReportOf DEF KeysInv
  <2>3. ASSUME p.kind = "tenants", NEW t \in TenantIds, p.keys[t] # None
        PROVE  0 < p.keys[t] /\ p.active[t] <= p.keys[t]
    <3>1. t \in Registered /\ p.keys[t] = Cardinality(KeysOf(t)) /\ p.active[t] # None
      BY <2>3, <2>2, ReportOf DEF KeysInv
    <3>2. KeysOf(t) # {} /\ IsFiniteSet(KeysOf(t))
      BY <3>1, KeySets, ConstantsAssumption, FS_Subset DEF Inv, StoreInv
    <3>3. Cardinality(KeysOf(t)) \in Nat /\ Cardinality(KeysOf(t)) # 0
      BY <3>2, FS_CardinalityType, FS_EmptySet
    <3>4. p.active[t] <= Cardinality(KeysOf(t) \ p.dead)
      BY <3>1, ReportOf DEF ActiveInv
    <3>5. Cardinality(KeysOf(t) \ p.dead) <= Cardinality(KeysOf(t))
          /\ Cardinality(KeysOf(t) \ p.dead) \in Nat
      <4>1. KeysOf(t) \subseteq KeyIds
        BY KeySets
      <4> QED BY <4>1, Counting DEF Inv
    <3>6. p.active[t] \in Nat
      BY <3>1, ReportOf DEF Report, Count
    <3> QED BY <3>1, <3>3, <3>4, <3>5, <3>6
  <2>4. ASSUME p.kind = "metrics"
        PROVE  p.totals["active"] <= p.totals["keys"] + Cardinality(Present \ p.seen)
    <3>1. /\ p.seen \subseteq Present
          /\ p.totals["keys"] = Cardinality(p.seen)
          /\ p.totals["active"] # None
          /\ p.totals["active"] <= Cardinality(Present \ p.dead)
      BY <2>4, ReportOf DEF SeenInv
    <3>2. p.totals["active"] \in Nat
      BY <3>1, ReportOf DEF Report, Count, Totals
    <3>3. /\ Cardinality(Present \ p.dead) <= Cardinality(Present)
          /\ Cardinality(Present \ p.dead) \in Nat /\ Cardinality(Present) \in Nat
          /\ Cardinality(p.seen) \in Nat /\ Cardinality(Present \ p.seen) \in Nat
      <4>1. Present \subseteq KeyIds
        BY DEF Present
      <4> QED BY <3>1, <4>1, Counting DEF Inv
    <3>4. Cardinality(Present \ p.seen) = Cardinality(Present) - Cardinality(p.seen)
      BY <3>1, CountRest, KeySets
    <3> QED BY <3>1, <3>2, <3>3, <3>4
  <2> QED BY <2>1, <2>2, <2>3, <2>4
<1> QED BY <1>1, InitInv, NextInv, PTL DEF Spec

\* No report is older than its request: what was revoked before is not shown or
\* counted as active, what is active is, and a listing is complete
\* (list_tenant_api_keys, admin_list_tenant_keys, get_me, admin_tenants,
\* get_system_metrics).
THEOREM Fresh == Spec => []ReportsAreFresh
<1>1. Inv => ReportsAreFresh
  <2> SUFFICES ASSUME Inv, NEW r \in Readers, report[r].pc = "answered"
               PROVE  /\ \A t \in TenantIds :
                           report[r].active[t] # None =>
                              /\ Cardinality(Active(KeysOf(t))) <= report[r].active[t]
                              /\ report[r].active[t] <=
                                     Cardinality(KeysOf(t) \ report[r].dead)
                      /\ \A k \in KeyIds :
                           report[r].rows[k] # None =>
                              /\ report[r].rows[k].active => k \notin report[r].dead
                              /\ rows[k].active => report[r].rows[k].active
                      /\ report[r].kind \in {"keys", "tenantKeys"} =>
                           {k \in KeyIds : report[r].rows[k] # None}
                              = KeysOf(report[r].tenant)
                      /\ report[r].kind = "metrics" =>
                           /\ Cardinality(Active(report[r].seen))
                                 <= report[r].totals["active"]
                           /\ report[r].totals["active"]
                                 <= Cardinality(Present \ report[r].dead)
    BY DEF ReportsAreFresh
  <2>1. ActiveInv(report[r]) /\ RowsInv(report[r]) /\ SeenInv(report[r])
    BY ReportOf
  <2> QED BY <2>1 DEF ActiveInv, RowsInv, SeenInv
<1> QED BY <1>1, InitInv, NextInv, PTL DEF Spec
=============================================================================
