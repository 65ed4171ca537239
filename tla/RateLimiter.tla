----------------------------- MODULE RateLimiter -----------------------------
(***************************************************************************)
(* SlidingWindowLimiter.check of redis_client.py for one key: a Lua script *)
(* over a sorted set in Redis, and an in-memory window per process that    *)
(* takes over when the call to Redis raises.  Requests are stamped by the  *)
(* caller before the await, so Redis may run the scripts in another order  *)
(* than the stamps.  One unit of the clock is one millisecond.             *)
(***************************************************************************)
EXTENDS Naturals, Sequences, FiniteSets, FiniteSetsExt

CONSTANTS Requests,      \* calls of check, each made once
          Limit,         \* rate_limit_per_minute, positive here
          Window,        \* the window, in units of the clock
          MaxDelay,      \* longest time between a stamp and its script
          MaxTime,       \* bound: the clock stops here
          RedisMayFail   \* FALSE: every call to Redis succeeds

ASSUME ConstantsAssumption ==
    /\ Limit \in Nat \ {0}
    /\ Window \in Nat \ {0}
    /\ MaxDelay \in Nat
    /\ MaxTime \in Nat
    /\ RedisMayFail \in BOOLEAN

VARIABLES clock,   \* time.time() and the clock of Redis
          zset,    \* the scores in the sorted set of the key
          expiry,  \* when Redis drops the key (PEXPIRE)
          bucket,  \* _InMemoryWindow._buckets[key]: time stamps, oldest first
          call     \* the calls of check

vars == <<clock, zset, expiry, bucket, call>>

Time == 0..MaxTime

Call == [pc      : {"new", "sent", "failed", "admitted", "refused"},
         stamp   : Time,                         \* now_ms
         counted : BOOLEAN,                      \* the script has added the stamp
         by      : {"none", "redis", "memory"},  \* who decided
         at      : Time,                         \* now of the in-memory window
         reset   : 0..(MaxTime + Window)]        \* the reset time it returned

TypeOK ==
    /\ clock \in Time
    /\ zset \subseteq Time
    /\ expiry \in 0..(MaxTime + Window)
    /\ bucket \in Seq(Time)
    /\ call \in [Requests -> Call]

Init ==
    /\ clock = 0
    /\ zset = {}
    /\ expiry = 0
    /\ bucket = <<>>
    /\ call = [r \in Requests |->
                 [pc |-> "new", stamp |-> 0, counted |-> FALSE, by |-> "none", at |-> 0,
                  reset |-> 0]]

-----------------------------------------------------------------------------
(* The Lua script *)

\* ZREMRANGEBYSCORE key -inf (now - window).
Kept(s) == {x \in zset : x + Window > s}

\* Mutant: the limit tested with > instead of >=.
ScriptAdmitsOneMore(s) == Cardinality(Kept(s)) <= Limit

\* ZCARD after the removal.
ScriptAdmits(s) == Cardinality(Kept(s)) < Limit

\* Mutant: the reset of an admission, for a refusal as well.
ScriptResetFromNow(s) == s + Window

\* Refused: when the oldest score leaves the window; admitted: when this one does.
ScriptReset(s) == (IF ScriptAdmits(s) THEN s ELSE Min(Kept(s))) + Window

\* The script runs in one step.  The member it adds is the stamp and a number
\* from math.random, which starts from the same seed in every script: calls
\* with the same stamp add one member.
Script(r) ==
    LET s == call[r].stamp IN
    IF ScriptAdmits(s) THEN /\ zset' = Kept(s) \cup {s}
                            /\ expiry' = clock + Window
                       ELSE /\ zset' = Kept(s)
                            /\ UNCHANGED expiry

-----------------------------------------------------------------------------
(* The in-memory window *)

\* Mutant: stamps are dropped a unit too early.
RecentTooFew ==
    LET fresh == {i \in DOMAIN bucket : bucket[i] + Window > clock + 1} IN
    IF fresh = {} THEN <<>> ELSE SubSeq(bucket, Min(fresh), Len(bucket))

\* popleft while bucket[0] < now - window: the oldest stamps go.
Recent ==
    LET fresh == {i \in DOMAIN bucket : bucket[i] + Window >= clock} IN
    IF fresh = {} THEN <<>> ELSE SubSeq(bucket, Min(fresh), Len(bucket))

\* Mutant: the call itself is counted before the limit is tested.
FallbackCountsItself(r) ==
    /\ call[r].pc = "failed"
    /\ LET admitted == Len(Recent) + 1 < Limit IN
       /\ bucket' = IF admitted THEN Append(Recent, clock) ELSE Recent
       /\ call' = [call EXCEPT ![r].pc = IF admitted THEN "admitted" ELSE "refused",
                               ![r].by = "memory", ![r].at = clock,
                               ![r].reset = (IF admitted THEN clock ELSE Head(Recent)) + Window]
    /\ UNCHANGED <<clock, zset, expiry>>

\* Mutant: the end of the window is stored instead of its start.
FallbackStoresReset(r) ==
    /\ call[r].pc = "failed"
    /\ bucket' = Append(Recent, clock + Window)
    /\ call' = [call EXCEPT ![r].pc = IF Len(Recent) < Limit THEN "admitted" ELSE "refused",
                            ![r].by = "memory", ![r].at = clock,
                            ![r].reset = clock + Window]
    /\ UNCHANGED <<clock, zset, expiry>>

\* The call to Redis has raised: _InMemoryWindow.check decides, under both of
\* its locks and without an await, at the time it runs.
Fallback(r) ==
    /\ call[r].pc = "failed"
    /\ LET admitted == Len(Recent) < Limit IN
       /\ bucket' = IF admitted THEN Append(Recent, clock) ELSE Recent
       /\ call' = [call EXCEPT ![r].pc = IF admitted THEN "admitted" ELSE "refused",
                               ![r].by = "memory", ![r].at = clock,
                               ![r].reset = (IF admitted THEN clock ELSE Head(Recent)) + Window]
    /\ UNCHANGED <<clock, zset, expiry>>

-----------------------------------------------------------------------------
(* SlidingWindowLimiter.check *)

\* now_ms is read and the script is sent.
Send(r) ==
    /\ call[r].pc = "new"
    /\ call' = [call EXCEPT ![r].pc = "sent", ![r].stamp = clock]
    /\ UNCHANGED <<clock, zset, expiry, bucket>>

\* Redis runs the script and its reply decides.
RedisDecides(r) ==
    /\ call[r].pc = "sent"
    /\ Script(r)
    /\ LET admitted == ScriptAdmits(call[r].stamp) IN
       call' = [call EXCEPT ![r].pc = IF admitted THEN "admitted" ELSE "refused",
                            ![r].counted = admitted, ![r].by = "redis",
                            ![r].reset = ScriptReset(call[r].stamp)]
    /\ UNCHANGED <<clock, bucket>>

\* Redis cannot be reached: the script never runs.
RedisUnreachable(r) ==
    /\ RedisMayFail
    /\ call[r].pc = "sent"
    /\ call' = [call EXCEPT ![r].pc = "failed"]
    /\ UNCHANGED <<clock, zset, expiry, bucket>>

\* The script runs but its reply is lost: Redis has counted a call that the
\* in-memory window will decide.
RedisReplyLost(r) ==
    /\ RedisMayFail
    /\ call[r].pc = "sent"
    /\ Script(r)
    /\ call' = [call EXCEPT ![r].pc = "failed",
                            ![r].counted = ScriptAdmits(call[r].stamp)]
    /\ UNCHANGED <<clock, bucket>>

\* Time passes; no script is later than MaxDelay, and an expired key is gone.
Tick ==
    /\ clock < MaxTime
    /\ \A r \in Requests : call[r].pc = "sent" => clock < call[r].stamp + MaxDelay
    /\ clock' = clock + 1
    /\ zset' = IF clock' >= expiry THEN {} ELSE zset
    /\ UNCHANGED <<expiry, bucket, call>>

Next ==
    \/ \E r \in Requests :
          \/ Send(r) \/ RedisDecides(r)
          \/ RedisUnreachable(r) \/ RedisReplyLost(r) \/ Fallback(r)
    \/ Tick

Spec == Init /\ [][Next]_vars

-----------------------------------------------------------------------------
(* Safety *)

CountedStamps == {call[r].stamp : r \in {q \in Requests : call[q].counted}}

MemoryAdmitted == {r \in Requests : call[r].pc = "admitted" /\ call[r].by = "memory"}

\* Redis counts at most Limit milliseconds in every window shortened by the
\* delay between stamp and script: a script that runs late may find evicted
\* what a later stamp no longer needed, but nothing younger.
RedisWindowLimit ==
    \A t \in Time :
        Cardinality({s \in CountedStamps : s <= t /\ t < s + Window - MaxDelay}) <= Limit

\* The in-memory window admits at most Limit calls in any closed window,
\* however often Redis comes and goes between them.
MemoryWindowLimit ==
    \A t \in Time :
        Cardinality({r \in MemoryAdmitted : call[r].at <= t /\ t <= call[r].at + Window}) <= Limit

\* Nobody is refused without cause.  When Redis refuses a call, Limit other
\* stamps lie less than a window before it, or after it; for the in-memory
\* window, whose end is included, Limit admitted calls do.
RefusalJustified ==
    \A r \in Requests :
        call[r].pc = "refused" =>
            \/ /\ call[r].by = "redis"
               /\ Cardinality({s \in CountedStamps : s + Window > call[r].stamp}) >= Limit
            \/ /\ call[r].by = "memory"
               /\ Cardinality({q \in MemoryAdmitted :
                                 call[q].at + Window >= call[r].at}) >= Limit

DecidedNow(r) == call[r].pc \in {"sent", "failed"} /\ call'[r].pc = "admitted"

\* Nobody is let in before the reset time of a refusal: once a call was refused
\* until some time, the same window admits no call that is earlier than that.
\* That there is room at that time is not said.  A script may be overtaken by
\* later stamps, so for Redis its stamp may be MaxDelay earlier; the in-memory
\* window keeps its oldest entry at the very reset time, and admits after it only.
NobodyBeforeReset ==
    [][\A r, q \in Requests :
          DecidedNow(r) /\ call[q].pc = "refused" /\ call'[r].by = call[q].by =>
              IF call[q].by = "redis" THEN call[r].stamp + MaxDelay >= call[q].reset
              ELSE clock > call[q].reset]_vars

-----------------------------------------------------------------------------
(* The inductive invariant *)

\* What a call has filled in at each step; no script is later than MaxDelay.
CallInv ==
    \A r \in Requests :
        /\ call[r].pc \in {"new", "sent"} => ~call[r].counted
        /\ call[r].pc = "sent" => clock <= call[r].stamp + MaxDelay
        /\ call[r].stamp <= clock /\ call[r].at <= clock

\* What Redis has forgotten is a window old, by eviction or because the key expired.
SetInv ==
    /\ zset \subseteq CountedStamps
    /\ Cardinality(zset) <= Limit
    /\ \A s \in CountedStamps :
          /\ s + Window <= expiry
          /\ s \notin zset => s + Window <= clock

MemoryAdmittedSince(x) == {r \in MemoryAdmitted : call[r].at >= x}

\* The first k entries are those older than x.
OlderThan(x, k) == \A i \in DOMAIN bucket : i <= k <=> bucket[i] < x

\* The deque is sorted, and what it has forgotten is older than a window: each of
\* its entries stands for one admitted call.
BucketInv ==
    /\ Len(bucket) <= Limit
    /\ \A i \in DOMAIN bucket :
          bucket[i] <= clock /\ \A j \in DOMAIN bucket : i < j => bucket[i] <= bucket[j]
    /\ IsFiniteSet(MemoryAdmitted)
    /\ \A x \in 0..clock, k \in 0..Len(bucket) :
          x + Window >= clock /\ OlderThan(x, k) =>
              Cardinality(MemoryAdmittedSince(x)) = Len(bucket) - k

\* A window that refused was full of what leaves it at the reset time or later.
RefusalInv ==
    \A q \in Requests :
        call[q].pc = "refused" =>
            \/ /\ call[q].by = "redis"
               /\ Cardinality({s \in CountedStamps : s + Window >= call[q].reset}) >= Limit
            \/ /\ call[q].by = "memory"
               /\ Cardinality({r \in MemoryAdmitted :
                                 call[r].at + Window >= call[q].reset}) >= Limit

\* Holds in every reachable state and is kept by every step.
IInv == TypeOK /\ CallInv /\ SetInv /\ BucketInv /\ RefusalInv

-----------------------------------------------------------------------------
(* What the docstring says, and the code does not do *)

\* redis_client.py:55, "Allow up to ``limit`` requests per window for the given
\* key.": calls stamped in the same millisecond share one member of the set.
LimitPerWindow ==
    \A t \in Time :
        Cardinality({r \in Requests : /\ call[r].pc = "admitted"
                                      /\ call[r].stamp <= t
                                      /\ t < call[r].stamp + Window}) <= Limit
=============================================================================
