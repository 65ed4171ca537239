------------------------------- MODULE Reports -------------------------------
(***************************************************************************)
(* The requests that report on tenants and keys without changing them:     *)
(* /v1/auth/me, the key listings, /v1/admin/tenants and /v1/admin/metrics  *)
(* (routes.py, auth.py).  A report is put together from several            *)
(* statements, and each of them sees what is committed when it runs:       *)
(* registrations, revocations and regenerations commit in between          *)
(* (KeyStore, which ApiKeys implements).                                   *)
(***************************************************************************)
EXTENDS KeyStore, FiniteSets, Sequences

CONSTANT Readers  \* reports that can be in progress at the same time

VARIABLE report   \* the reports in progress

vars == <<storeVars, report>>

-----------------------------------------------------------------------------
(* Types *)

Row == [tenant : TenantIds, hash : RawKeys, active : BOOLEAN]

ASSUME ConstantsAssumption ==
    /\ IsFiniteSet(KeyIds)
    /\ None \notin Emails \cup KeyIds \cup TenantIds \cup Nat
    /\ None \notin Row

Count == Nat \cup {None}

Totals == {"tenants", "keys", "active"}

Report == [pc     : {"idle", "get", "load", "list", "own", "metrics", "select",
                     "all", "active", "answered"},
           kind   : {"me", "keys", "metrics", "tenants", "tenantKeys"},
           tenant : TenantIds \cup {None},         \* the tenant reported on
           dead   : SUBSET KeyIds,                 \* revoked when it arrived
           todo   : SUBSET TenantIds,              \* selected, not counted yet
           keys   : [TenantIds -> Count],          \* api_key_count
           active : [TenantIds -> Count],          \* active_key_count
           totals : [Totals -> Count],             \* of get_system_metrics
           seen   : SUBSET KeyIds,                 \* the keys totals["keys"] counts
           rows   : [KeyIds -> Row \cup {None}]]   \* keys loaded, then listed

NoReport == [pc |-> "idle", kind |-> "me", tenant |-> None, dead |-> {}, todo |-> {},
             keys |-> [t \in TenantIds |-> None],
             active |-> [t \in TenantIds |-> None],
             totals |-> [c \in Totals |-> None], seen |-> {},
             rows |-> [k \in KeyIds |-> None]]

\* The tables and every report in progress have their types, and a report on a
\* tenant names one.
TypeOK ==
    /\ tenants \in [TenantIds -> Emails \cup {None}]
    /\ rows \in [KeyIds -> Row \cup {None}]
    /\ unshown \subseteq KeyIds \X RawKeys
    /\ issued \in [RawKeys -> KeyIds \cup {None}]
    /\ report \in [Readers -> Report]
    /\ \A r \in Readers :
          report[r].pc # "idle" /\ report[r].kind \in {"me", "keys", "tenantKeys"}
             => report[r].tenant # None

Init == StoreInit /\ report = [r \in Readers |-> NoReport]

-----------------------------------------------------------------------------
(* What a statement sees *)

Registered == {t \in TenantIds : tenants[t] # None}

Present == {k \in KeyIds : rows[k] # None}

KeysOf(t) == {k \in Present : rows[k].tenant = t}

Active(K) == {k \in K : rows[k].active}

Dead == {k \in Present : ~rows[k].active}

RowsOf(t) == [k \in KeyIds |-> IF k \in KeysOf(t) THEN rows[k] ELSE None]

-----------------------------------------------------------------------------
(* The statements of a report *)

First(kind) ==
    CASE kind \in {"me", "tenantKeys"} -> "get"
      [] kind = "keys"                 -> "list"
      [] kind = "metrics"              -> "metrics"
      [] kind = "tenants"              -> "select"

\* Mutant: the routes do not ask whether the middleware found a tenant.
AdmittedAnonymous(kind, t) ==
    CASE kind \in {"me", "keys"}         -> t \in Registered \cup {None}
      [] kind = "tenantKeys"             -> t \in TenantIds
      [] kind \in {"metrics", "tenants"} -> t = None

\* The checks at the start of a route: the middleware found a tenant (me, keys);
\* a tenant id from an administrator's path may name nobody (tenantKeys); the
\* other reports are about no tenant in particular.
Admitted(kind, t) ==
    CASE kind \in {"me", "keys"}         -> t \in Registered
      [] kind = "tenantKeys"             -> t \in TenantIds
      [] kind \in {"metrics", "tenants"} -> t = None

Arrive(r, kind, t) ==
    /\ report[r].pc = "idle"
    /\ Admitted(kind, t)
    /\ report' = [report EXCEPT ![r] =
                    [NoReport EXCEPT !.pc = First(kind), !.kind = kind,
                                     !.tenant = t, !.dead = Dead]]
    /\ UNCHANGED storeVars

\* db.get(Tenant): 404 when there is none.
GetTenant(r) ==
    /\ report[r].pc = "get"
    /\ report' = [report EXCEPT ![r] = IF report[r].tenant \in Registered
                                       THEN [@ EXCEPT !.pc = "load"] ELSE NoReport]
    /\ UNCHANGED storeVars

\* Tenant.api_keys is loaded with the tenant, by a statement of its own; the
\* profile makes no use of it.
LoadKeys(r) ==
    /\ report[r].pc = "load"
    /\ report' = [report EXCEPT ![r] =
                    IF @.kind = "me" THEN [@ EXCEPT !.pc = "own"]
                    ELSE [@ EXCEPT !.pc = "list", !.rows = RowsOf(report[r].tenant)]]
    /\ UNCHANGED storeVars

\* Mutant: the count includes the revoked keys.
CountOwnAll(r) ==
    /\ report[r].pc = "own"
    /\ report' = [report EXCEPT ![r].pc = "answered",
                                ![r].active[report[r].tenant] =
                                    Cardinality(KeysOf(report[r].tenant))]
    /\ UNCHANGED storeVars

\* get_me: the active keys of the caller.
CountOwn(r) ==
    /\ report[r].pc = "own"
    /\ report' = [report EXCEPT ![r].pc = "answered",
                                ![r].active[report[r].tenant] =
                                    Cardinality(Active(KeysOf(report[r].tenant)))]
    /\ UNCHANGED storeVars

\* list_tenant_api_keys and admin_list_tenant_keys.  The keys are selected, and
\* a row object the session still has from LoadKeys is shown as it was then;
\* nothing refers to those objects any more, so they may be gone.
ListKeys(r) ==
    /\ report[r].pc = "list"
    /\ \E kept \in SUBSET {k \in KeyIds : report[r].rows[k] # None} :
          report' = [report EXCEPT ![r].pc = "answered",
                                   ![r].rows = [k \in KeyIds |->
                                       IF k \in kept THEN @[k]
                                       ELSE RowsOf(report[r].tenant)[k]]]
    /\ UNCHANGED storeVars

\* Mutant: the keys are counted before the tenants.
MetricsOrderSwapped == <<"keys", "tenants", "active">>

\* get_system_metrics: one SELECT count(*) after the other.  A fourth counts the
\* usage rows, which are no business of this module.
MetricsOrder == <<"tenants", "keys", "active">>

Total(c) ==
    CASE c = "tenants" -> Cardinality(Registered)
      [] c = "keys"    -> Cardinality(Present)
      [] c = "active"  -> Cardinality(Active(Present))

CountTotal(r) ==
    /\ report[r].pc = "metrics"
    /\ \E i \in 1 .. 3 :
          /\ report[r].totals[MetricsOrder[i]] = None
          /\ \A j \in 1 .. i - 1 : report[r].totals[MetricsOrder[j]] # None
          /\ report' = [report EXCEPT
                          ![r].totals[MetricsOrder[i]] = Total(MetricsOrder[i]),
                          ![r].seen = IF MetricsOrder[i] = "keys" THEN Present ELSE @,
                          ![r].pc = IF i = 3 THEN "answered" ELSE @]
    /\ UNCHANGED storeVars

\* admin_tenants: the tenants that match the search, cut to the page.
SelectTenants(r) ==
    /\ report[r].pc = "select"
    /\ \E page \in SUBSET Registered :
          report' = [report EXCEPT ![r].pc = IF page = {} THEN "answered" ELSE "all",
                                   ![r].todo = page]
    /\ UNCHANGED storeVars

\* For each of them in turn, first all its keys ...
CountAllKeys(r) ==
    /\ report[r].pc = "all"
    /\ \E t \in report[r].todo :
          report' = [report EXCEPT ![r].pc = "active", ![r].tenant = t,
                                   ![r].keys[t] = Cardinality(KeysOf(t))]
    /\ UNCHANGED storeVars

\* ... and then the active ones.
CountActiveKeys(r) ==
    /\ report[r].pc = "active"
    /\ LET t == report[r].tenant
           rest == report[r].todo \ {t}
       IN  report' = [report EXCEPT ![r].pc = IF rest = {} THEN "answered" ELSE "all",
                                    ![r].todo = rest,
                                    ![r].active[t] = Cardinality(Active(KeysOf(t)))]
    /\ UNCHANGED storeVars

\* The response is sent, or a statement fails: 500.
Leave(r) ==
    /\ report[r].pc # "idle"
    /\ report' = [report EXCEPT ![r] = NoReport]
    /\ UNCHANGED storeVars

\* Another request commits or is answered.
Write == StoreOperation /\ UNCHANGED report

\* The process dies: every report with it.
Crash == StoreForget /\ report' = [r \in Readers |-> NoReport]

Next ==
    \/ \E r \in Readers :
          \/ \E kind \in {"me", "keys", "metrics", "tenants", "tenantKeys"},
                t \in TenantIds \cup {None} : Arrive(r, kind, t)
          \/ GetTenant(r) \/ LoadKeys(r) \/ CountOwn(r) \/ ListKeys(r) \/ CountTotal(r)
          \/ SelectTenants(r) \/ CountAllKeys(r) \/ CountActiveKeys(r) \/ Leave(r)
    \/ Write
    \/ Crash

Spec == Init /\ [][Next]_vars

-----------------------------------------------------------------------------
(* Safety *)

\* What holds between the numbers of one report although no two of them are read
\* at the same moment.  admin_tenants: no listed tenant without a key (a tenant is
\* never visible before its key) and never more active keys than keys of a tenant
\* (no key is added to a tenant).  get_system_metrics: no fewer keys than tenants
\* (the order of the statements); its active keys can exceed its keys, but by no
\* more than were registered after the keys were counted.
CountsFitTogether ==
    \A r \in Readers :
        report[r].pc = "answered" =>
            /\ report[r].kind = "metrics" =>
                 LET totals == report[r].totals
                 IN  /\ totals["tenants"] <= totals["keys"]
                     /\ totals["active"] <=
                           totals["keys"] + Cardinality(Present \ report[r].seen)
            /\ report[r].kind = "tenants" =>
                 \A t \in TenantIds :
                    /\ report[r].keys[t] = None <=> report[r].active[t] = None
                    /\ report[r].keys[t] # None =>
                         /\ 0 < report[r].keys[t]
                         /\ report[r].active[t] <= report[r].keys[t]

\* A report is no older than its request: a key that was revoked before it
\* arrived is not shown or counted as active, and one that is still active when
\* the report is answered is (for the dashboard, one that its count of all keys
\* saw); a listing shows the keys of its tenant, all of them and no others.
ReportsAreFresh ==
    \A r \in Readers :
        report[r].pc = "answered" =>
            /\ \A t \in TenantIds :
                 report[r].active[t] # None =>
                    /\ Cardinality(Active(KeysOf(t))) <= report[r].active[t]
                    /\ report[r].active[t] <= Cardinality(KeysOf(t) \ report[r].dead)
            /\ \A k \in KeyIds :
                 report[r].rows[k] # None =>
                    /\ report[r].rows[k].active => k \notin report[r].dead
                    /\ rows[k].active => report[r].rows[k].active
            /\ report[r].kind \in {"keys", "tenantKeys"} =>
                 {k \in KeyIds : report[r].rows[k] # None} = KeysOf(report[r].tenant)
            /\ report[r].kind = "metrics" =>
                 /\ Cardinality(Active(report[r].seen)) <= report[r].totals["active"]
                 /\ report[r].totals["active"] <= Cardinality(Present \ report[r].dead)
=============================================================================
