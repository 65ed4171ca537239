-------------------------- MODULE ApiKeysInductive --------------------------
(***************************************************************************)
(* The inductive invariant of ApiKeys: what a request knows at each step,  *)
(* who has the write lock, and which random keys are still secret.  It is  *)
(* model-checked here and proved in ApiKeysProofs.                         *)
(***************************************************************************)
EXTENDS ApiKeys

\* The fields a request has filled in when it has reached a step.
RequestShape ==
    \A r \in Requests :
        LET q == req[r] IN
        /\ q.pc = "idle" => q = Idle
        /\ q.pc \in {"select", "absent"} => q.found = None
        /\ q.pc \in {"touch", "touched", "close", "route", "update", "flushed"} =>
             q.op # "register" /\ q.found # None /\ q.tenant # None
        /\ q.pc \in {"update", "flushed", "commit", "reply"} => q.op # "use"
        /\ q.op \in {"revoke", "regenerate"} => q.key # None
        /\ q.op # "register" /\ q.pc # "idle" =>
             q.raw # None /\ q.pc \notin {"insertTenant", "insertKey"}
        /\ q.op \in {"revoke", "regenerate"} /\ q.pc \in {"commit", "reply"} => q.found # None
        /\ q.op # "register" => q.email = None
        /\ q.op \in {"use", "revoke"} => q.fresh = None
        /\ q.op \in {"regenerate", "register"} => q.fresh # None
        /\ q.op = "register" =>
             /\ q.pc \in {"insertTenant", "insertKey", "commit", "reply"}
             /\ q.email # None /\ q.tenant # None /\ q.key # None
             /\ q.raw = None /\ q.found = None

\* Write locks exclude one another.
LockInv ==
    \A r, q \in Requests :
        r # q /\ req[r].pc \in Holding /\ req[q].pc \in Holding =>
            ~SingleWriter /\ LockedKey(r) # LockedKey(q)

\* A generated key stays with the request that drew it until it is shown, and
\* can only be the hash of the row that request has committed.
FreshInv ==
    \A r \in Requests :
        req[r].fresh # None =>
            /\ issued[req[r].fresh] = None
            /\ \A q \in Requests \ {r} : req[q].fresh # req[r].fresh
            /\ \A k \in KeyIds :
                 rows[k] # None /\ rows[k].hash = req[r].fresh =>
                     req[r].pc = "reply" /\ req[r].key = k

\* A registration that has not committed owns ids nobody else can use.
NewRowsInv ==
    \A r \in Requests :
        req[r].op = "register" =>
            /\ req[r].pc # "reply" => rows[req[r].key] = None
                                      /\ tenants[req[r].tenant] = None
            /\ \A q \in Requests \ {r} :
                 req[q].op = "register" => req[q].key # req[r].key
                                           /\ req[q].tenant # req[r].tenant

\* A row whose hash was shown to a client was shown as the hash of that row.
IssuedInv ==
    /\ \A n \in RawKeys : issued[n] # None => rows[issued[n]] # None
    /\ \A k \in KeyIds :
         rows[k] # None /\ issued[rows[k].hash] # None => issued[rows[k].hash] = k
    /\ \A r \in Requests : req[r].pc = "reply" => rows[req[r].key] # None
    /\ \A r \in Requests : req[r].raw # None => issued[req[r].raw] # None
    /\ \A i \in DOMAIN cache : issued[cache[i].raw] # None

\* An authenticated request acts for the tenant its token was issued to, and a
\* request that will change a key has found it to be that tenant's.
OwnerInv ==
    \A r \in Requests :
        /\ req[r].found # None => /\ req[r].raw # None
                                  /\ issued[req[r].raw] = req[r].found
                                  /\ rows[req[r].found] # None
                                  /\ rows[req[r].found].tenant = req[r].tenant
        /\ req[r].op # "register" /\ req[r].pc \in {"update", "flushed", "commit"} =>
             rows[req[r].key] # None /\ rows[req[r].key].tenant = req[r].tenant

\* A refusal about to be cached is right, and stays right.
AbsentInv == \A r \in Requests : req[r].pc = "absent" => ~Live(req[r].raw)

\* At most one transaction holds an e-mail, and only while nobody else has it.
EmailInv ==
    \A r \in Requests :
        req[r].op = "register" /\ req[r].pc \in {"insertKey", "commit"} =>
            ~EmailTaken(req[r].email) /\ EmailSettled(r)

\* The inductive invariant: the parts above carry the safety invariants of the
\* key store and its cache from step to step.
IInv ==
    /\ TypeOK
    /\ RequestShape
    /\ LockInv
    /\ FreshInv
    /\ NewRowsInv
    /\ IssuedInv
    /\ OwnerInv
    /\ AbsentInv
    /\ EmailInv
    /\ CacheProvenance
    /\ RefusalIsFinal
    /\ ClearedUntilCommit
    /\ OneTenantPerEmail
    /\ TenantHasItsKey
=============================================================================
