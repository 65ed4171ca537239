-------------------------- MODULE ApiKeysRefinement --------------------------
(* ApiKeys implements KeyStore: the commit of a request is its step, a reply *)
(* shows what the commit stored, and everything else is invisible.          *)
EXTENDS ApiKeysProofs

\* A request that is at its reply before or after the step is not changed by it.
RepliesKept ==
    \A q \in Requests :
        req[q].pc = "reply" \/ req'[q].pc = "reply" => req'[q] = req[q]

\* Then no raw key is on its way to a client that was not before.
LEMMA UnshownKept == RepliesKept => Unshown' = Unshown
BY DEF RepliesKept, Unshown

\* The steps that no table and no client notices.
InvisibleStep == UNCHANGED <<tenants, rows, issued>> /\ RepliesKept

LEMMA InvisibleSteps ==
    IInv /\ Next =>
        InvisibleStep \/ Crash \/ \E r \in Requests : Commit(r) \/ Reply(r)
<1> SUFFICES ASSUME IInv, Next,
                    ~Crash, ~\E r \in Requests : Commit(r) \/ Reply(r)
             PROVE  InvisibleStep
  OBVIOUS
<1>0. TypeOK
  BY DEF IInv
<1>1. ASSUME NEW r \in Requests, SelectKey(r) PROVE InvisibleStep
  <2>1. /\ \A q \in Requests : q # r => req'[q] = req[q]
        /\ req'[r].pc \in {"touch", "absent"}
    BY <1>0, <1>1, SelectKeyEffect
  <2> QED BY <1>1, <2>1 DEF SelectKey, InvisibleStep, RepliesKept
<1>2. ASSUME NEW r \in Requests, CacheRefusal(r) PROVE InvisibleStep
  BY <1>2, CacheRefusalEffect, IdleFields DEF InvisibleStep, RepliesKept
<1>3. ASSUME NEW r \in Requests, Touch(r) PROVE InvisibleStep
  BY <1>0, <1>3, GotoEffect DEF Touch, Steps, Waiting, Holding, InvisibleStep, RepliesKept
<1>4. ASSUME NEW r \in Requests, CacheKey(r) PROVE InvisibleStep
  BY <1>4, CacheKeyEffect DEF InvisibleStep, RepliesKept
<1>5. ASSUME NEW r \in Requests, CloseAuthSession(r) PROVE InvisibleStep
  BY <1>0, <1>5, GotoEffect
  DEF CloseAuthSession, Steps, Waiting, Holding, InvisibleStep, RepliesKept
<1>6. ASSUME NEW r \in Requests, Serve(r) PROVE InvisibleStep
  BY <1>0, <1>6, AnswerEffect, IdleFields DEF Serve, InvisibleStep, RepliesKept
<1>7. ASSUME NEW r \in Requests, SelectOwn(r) PROVE InvisibleStep
  BY <1>0, <1>7, GotoEffect, AnswerEffect, IdleFields
  DEF SelectOwn, Steps, Waiting, Holding, InvisibleStep, RepliesKept
<1>8. ASSUME NEW r \in Requests, UpdateKey(r) PROVE InvisibleStep
  BY <1>0, <1>8, GotoEffect DEF UpdateKey, Steps, Waiting, Holding, InvisibleStep, RepliesKept
<1>9. ASSUME NEW r \in Requests, ClearCache(r) PROVE InvisibleStep
  BY <1>0, <1>9, GotoEffect DEF ClearCache, Steps, Waiting, Holding, InvisibleStep, RepliesKept
<1>10. ASSUME NEW r \in Requests, InsertTenant(r) PROVE InvisibleStep
  BY <1>0, <1>10, GotoEffect, AnswerEffect, IdleFields
  DEF InsertTenant, Steps, Waiting, Holding, InvisibleStep, RepliesKept
<1>11. ASSUME NEW r \in Requests, InsertKey(r) PROVE InvisibleStep
  BY <1>0, <1>11, GotoEffect DEF InsertKey, Steps, Waiting, Holding, InvisibleStep, RepliesKept
<1>12. ASSUME NEW r \in Requests, LockTimeout(r) PROVE InvisibleStep
  BY <1>0, <1>12, AnswerEffect, IdleFields
  DEF LockTimeout, Waiting, InvisibleStep, RepliesKept
<1>13. ASSUME NEW r \in Requests, DatabaseError(r) PROVE InvisibleStep
  BY <1>0, <1>13, AnswerEffect, IdleFields
  DEF DatabaseError, Waiting, InvisibleStep, RepliesKept
<1>14. ASSUME NEW r \in Requests, NEW raw \in RawKeys,
              NEW op \in {"use", "revoke", "regenerate"},
              NEW k \in KeyIds \cup {None}, NEW n \in RawKeys \cup {None},
              Arrive(r, raw, op, k, n)
       PROVE  InvisibleStep
  <2>1. /\ \A q \in Requests : q # r => req'[q] = req[q]
        /\ req'[r].pc \in {"idle", "select", "route"}
    BY <1>0, <1>14, ArriveEffect, IdleFields
  <2> QED BY <1>14, <2>1 DEF Arrive, InFlight, InvisibleStep, RepliesKept
<1>15. ASSUME NEW r \in Requests, NEW e \in Emails, NEW t \in TenantIds,
              NEW k \in KeyIds, NEW n \in RawKeys, Register(r, e, t, k, n)
       PROVE  InvisibleStep
  <2>1. /\ \A q \in Requests : q # r => req'[q] = req[q]
        /\ req'[r].pc = "insertTenant"
    BY <1>0, <1>15, RegisterEffect
  <2> QED BY <1>15, <2>1 DEF Register, InFlight, InvisibleStep, RepliesKept
<1> QED BY <1>1, <1>2, <1>3, <1>4, <1>5, <1>6, <1>7, <1>8, <1>9, <1>10, <1>11,
           <1>12, <1>13, <1>14, <1>15 DEF Next, Step

\* What a commit adds to the raw keys on their way.
LEMMA CommitUnshown ==
    ASSUME IInv, NEW r \in Requests, Commit(r)
    PROVE  Unshown' = IF req[r].fresh = None THEN Unshown
                      ELSE Unshown \cup {<<req[r].key, req[r].fresh>>}
BY CommitEffect DEF Unshown

\* The raw key a request has drawn is unused until its commit.
LEMMA CommitDrawsUnused ==
    ASSUME IInv, NEW r \in Requests, req[r].pc = "commit", req[r].fresh # None
    PROVE  KS!Unused(req[r].fresh)
<1>1. FreshInv
  BY DEF IInv
<1>2. issued[req[r].fresh] = None
  BY <1>1 DEF FreshInv
<1>3. \A k \in KeyIds : rows[k] # None => rows[k].hash # req[r].fresh
  BY <1>1 DEF FreshInv
<1>4. \A k \in KeyIds : <<k, req[r].fresh>> \notin Unshown
  BY <1>1 DEF FreshInv, Unshown
<1> QED BY <1>2, <1>3, <1>4 DEF KS!Unused

\* A commit is an operation of the abstract store.
LEMMA CommitRefines ==
    ASSUME IInv, NEW r \in Requests, Commit(r) PROVE KS!StoreNext
<1>1. /\ TypeOK /\ RequestShape /\ OwnerInv /\ EmailInv /\ NewRowsInv
      /\ req[r] \in Request
  BY DEF IInv, TypeOK
<1>2. /\ req[r].pc = "commit" /\ req[r].key \in KeyIds /\ issued' = issued
      /\ rows' = [rows EXCEPT ![req[r].key] = Written(r)]
  BY CommitEffect, CommitWrites DEF Commit
<1>3. ASSUME req[r].op # "register"
      PROVE  /\ req[r].raw \in RawKeys
             /\ rows[req[r].key] # None
             /\ KS!Owns(req[r].raw, req[r].key)
             /\ tenants' = tenants
  BY <1>1, <1>2, <1>3, CommitEffect DEF RequestShape, OwnerInv, Request, KS!Owns
<1>4. CASE req[r].op = "register"
  <2>1. /\ req[r].email \in Emails /\ req[r].tenant \in TenantIds
        /\ req[r].fresh \in RawKeys /\ req[r].fresh # None
    BY <1>1, <1>4 DEF RequestShape, Request
  <2>2. tenants[req[r].tenant] = None /\ rows[req[r].key] = None
    BY <1>4, CommitEffect
  <2>3. \A u \in TenantIds : tenants[u] # req[r].email
    BY <1>1, <1>2, <1>4 DEF EmailInv, EmailTaken
  <2>4. /\ tenants' = [tenants EXCEPT ![req[r].tenant] = req[r].email]
        /\ Written(r) = [tenant |-> req[r].tenant, hash |-> req[r].fresh, active |-> TRUE]
    BY <1>4 DEF Commit, Written
  <2>5. KS!StoreRegister(req[r].tenant, req[r].email, req[r].key, req[r].fresh)
    BY <1>2, <2>1, <2>2, <2>3, <2>4, CommitUnshown, CommitDrawsUnused
    DEF KS!StoreRegister
  <2> QED BY <1>2, <2>1, <2>5 DEF KS!StoreNext, KS!StoreOperation
<1>5. CASE req[r].op = "revoke"
  <2>1. /\ Written(r) = [rows[req[r].key] EXCEPT !.active = FALSE]
        /\ req[r].fresh = None
    BY <1>5, CommitEffect DEF Written
  <2>2. KS!StoreRevoke(req[r].raw, req[r].key)
    BY <1>2, <1>3, <1>5, <2>1, CommitUnshown DEF KS!StoreRevoke
  <2> QED BY <1>2, <1>3, <1>5, <2>2 DEF KS!StoreNext, KS!StoreOperation
<1>6. CASE req[r].op = "regenerate"
  <2>1. /\ Written(r) = [rows[req[r].key] EXCEPT !.hash = req[r].fresh]
        /\ req[r].fresh # None /\ req[r].fresh \in RawKeys
    BY <1>1, <1>6 DEF Written, RequestShape, Request
  <2>2. KS!StoreRegenerate(req[r].raw, req[r].key, req[r].fresh)
    BY <1>2, <1>3, <1>6, <2>1, CommitUnshown, CommitDrawsUnused DEF KS!StoreRegenerate
  <2> QED BY <1>2, <1>3, <1>6, <2>1, <2>2 DEF KS!StoreNext, KS!StoreOperation
<1> QED BY <1>4, <1>5, <1>6, CommitEffect

\* A reply shows the raw key its request has stored, or is invisible.
LEMMA ReplyRefines ==
    ASSUME IInv, NEW r \in Requests, Reply(r)
    PROVE  KS!StoreNext \/ UNCHANGED KS!storeVars
<1>1. FreshInv
  BY DEF IInv
<1>2. CASE req[r].fresh = None
  <2>1. Unshown' = Unshown
    BY <1>2, ReplyEffect, IdleFields DEF Unshown
  <2> QED BY <1>2, <2>1, ReplyEffect DEF KS!storeVars, KS!tables
<1>3. CASE req[r].fresh # None
  <2>1. Unshown' = Unshown \ {<<req[r].key, req[r].fresh>>}
    BY <1>1, <1>3, ReplyEffect, IdleFields DEF Unshown, FreshInv
  <2>2. <<req[r].key, req[r].fresh>> \in Unshown
    BY <1>3, ReplyEffect DEF Unshown
  <2>3. issued[req[r].fresh] = None
    BY <1>1, <1>3 DEF FreshInv
  <2>4. issued' = [issued EXCEPT ![req[r].fresh] = req[r].key]
    BY <1>3 DEF Reply
  <2>5. KS!StoreShow(req[r].key, req[r].fresh)
    BY <2>1, <2>2, <2>3, <2>4, ReplyEffect DEF KS!StoreShow, KS!tables
  <2> QED BY <1>3, <2>5, ReplyEffect DEF KS!StoreNext, KS!StoreOperation
<1> QED BY <1>2, <1>3

\* After a crash nothing is on its way.
LEMMA CrashRefines == ASSUME Crash PROVE KS!StoreNext
<1>1. Unshown' = {}
  BY IdleFields DEF Crash, Unshown
<1> QED BY <1>1 DEF Crash, KS!StoreNext, KS!StoreForget, KS!tables

LEMMA InitRefines == Init => KS!StoreInit
<1> SUFFICES ASSUME Init PROVE KS!StoreInit
  OBVIOUS
<1>1. Unshown = {}
  BY IdleFields DEF Init, Unshown
<1> QED BY <1>1 DEF Init, KS!StoreInit

LEMMA StepRefines == IInv /\ [Next]_vars => [KS!StoreNext]_KS!storeVars
<1> SUFFICES ASSUME IInv, [Next]_vars PROVE [KS!StoreNext]_KS!storeVars
  OBVIOUS
<1>1. CASE UNCHANGED vars
  <2>1. RepliesKept
    BY <1>1 DEF vars, RepliesKept
  <2> QED BY <1>1, <2>1, UnshownKept DEF vars, KS!storeVars, KS!tables
<1>2. CASE Next
  <2>1. CASE InvisibleStep
    BY <2>1, UnshownKept DEF InvisibleStep, KS!storeVars, KS!tables
  <2>2. CASE Crash
    BY <2>2, CrashRefines
  <2>3. CASE \E r \in Requests : Commit(r) \/ Reply(r)
    BY <2>3, CommitRefines, ReplyRefines
  <2> QED BY <1>2, <2>1, <2>2, <2>3, InvisibleSteps
<1> QED BY <1>1, <1>2

\* Statements, locks, a cache and crashes included, the key operations of auth.py
\* behave as single steps on the tables.
THEOREM Refinement == Spec => ImplementsKeyStore
<1>1. Spec => KS!StoreInit
  BY InitRefines DEF Spec
<1>2. Spec => [][KS!StoreNext]_KS!storeVars
  BY Inductive, StepRefines, PTL DEF Spec
<1> QED BY <1>1, <1>2, PTL DEF ImplementsKeyStore, KS!StoreSpec
=============================================================================
