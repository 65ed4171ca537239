------------------------------ MODULE KeyStore ------------------------------
(***************************************************************************)
(* What the key operations of auth.py promise, as one step each: the        *)
(* tables tenants and api_keys as any session sees them, and the raw keys  *)
(* on their way to the clients.  ApiKeys implements this with statements,  *)
(* locks and a cache; Reports reads the tables one statement at a time.    *)
(***************************************************************************)
EXTENDS Naturals

CONSTANTS KeyIds,     \* ApiKey.id
          TenantIds,  \* Tenant.id
          Emails,     \* normalised e-mail addresses
          RawKeys,    \* raw keys generate_api_key can draw
          None

VARIABLES tenants,  \* tenant -> e-mail, None when absent
          rows,     \* key -> row, None when absent
          unshown,  \* <<key, raw key>> that is stored and not shown yet
          issued    \* raw key -> the key id it was shown for

tables == <<tenants, rows>>
storeVars == <<tables, unshown, issued>>

StoreInit ==
    /\ tenants = [t \in TenantIds |-> None]
    /\ rows = [k \in KeyIds |-> None]
    /\ unshown = {}
    /\ issued = [n \in RawKeys |-> None]

\* Nobody was or will be shown the raw key, and no row has its hash.
Unused(n) ==
    /\ issued[n] = None
    /\ \A k \in KeyIds : <<k, n>> \notin unshown
    /\ \A k \in KeyIds : rows[k] # None => rows[k].hash # n

\* The raw key was issued to the tenant that owns key k.
Owns(raw, k) ==
    /\ issued[raw] # None
    /\ rows[issued[raw]].tenant = rows[k].tenant

\* A tenant, alone with its e-mail, and its key come into being together.
StoreRegister(t, e, k, n) ==
    /\ tenants[t] = None
    /\ \A u \in TenantIds : tenants[u] # e
    /\ rows[k] = None
    /\ Unused(n)
    /\ tenants' = [tenants EXCEPT ![t] = e]
    /\ rows' = [rows EXCEPT ![k] = [tenant |-> t, hash |-> n, active |-> TRUE]]
    /\ unshown' = unshown \cup {<<k, n>>}
    /\ UNCHANGED issued

\* The owner makes a key inactive.
StoreRevoke(raw, k) ==
    /\ rows[k] # None
    /\ Owns(raw, k)
    /\ rows' = [rows EXCEPT ![k].active = FALSE]
    /\ UNCHANGED <<tenants, unshown, issued>>

\* The owner's key gets a new secret.  The key may have been revoked meanwhile,
\* and stays so.
StoreRegenerate(raw, k, n) ==
    /\ rows[k] # None
    /\ Owns(raw, k)
    /\ Unused(n)
    /\ rows' = [rows EXCEPT ![k].hash = n]
    /\ unshown' = unshown \cup {<<k, n>>}
    /\ UNCHANGED <<tenants, issued>>

\* A raw key is shown once, after it is stored.
StoreShow(k, n) ==
    /\ <<k, n>> \in unshown
    /\ issued[n] = None
    /\ unshown' = unshown \ {<<k, n>>}
    /\ issued' = [issued EXCEPT ![n] = k]
    /\ UNCHANGED tables

\* A crash: what was not shown by then never is, and its row stays.
StoreForget ==
    /\ unshown' = {}
    /\ UNCHANGED <<tables, issued>>

\* An operation of a route, or its answer.
StoreOperation ==
    \/ \E t \in TenantIds, e \in Emails, k \in KeyIds, n \in RawKeys :
          StoreRegister(t, e, k, n)
    \/ \E raw \in RawKeys, k \in KeyIds : StoreRevoke(raw, k)
    \/ \E raw \in RawKeys, k \in KeyIds, n \in RawKeys : StoreRegenerate(raw, k, n)
    \/ \E k \in KeyIds, n \in RawKeys : StoreShow(k, n)

StoreNext == StoreOperation \/ StoreForget

StoreSpec == StoreInit /\ [][StoreNext]_storeVars
=============================================================================
