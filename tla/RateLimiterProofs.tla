------------------------- MODULE RateLimiterProofs -------------------------
(***************************************************************************)
(* The two windows of RateLimiter for any number of calls, any limit, any  *)
(* window and any delay between a stamp and its script.                    *)
(***************************************************************************)
EXTENDS RateLimiter, FiniteSetTheorems, SequenceTheorems, TLAPS

-----------------------------------------------------------------------------
(* Numbers and sets *)

\* A set of natural numbers that has an element has a least one, and Min is it.
LEMMA MinIsLeast ==
    ASSUME NEW S \in SUBSET Nat, S # {}
    PROVE  Min(S) \in S /\ \A x \in S : Min(S) <= x
<1> DEFINE R == {ss \in Nat \X Nat : ss[1] < ss[2]}
<1>1. IsWellFoundedOn(R, Nat)
  BY NatLessThanWellFounded DEF OpToRel
<1>2. PICK m \in S : \A x \in S : <<x, m>> \notin R
  <2> HIDE DEF R
  <2> QED BY <1>1, WFMin
<1>3. ASSUME NEW x \in S PROVE m <= x
  <2>1. x \in Nat /\ m \in Nat
    OBVIOUS
  <2>2. x < m => <<x, m>> \in R
    BY <2>1
  <2> QED BY <1>2, <2>1, <2>2
<1> QED BY <1>2, <1>3 DEF Min

\* Sets of instants can be counted.
LEMMA TimeIsFinite ==
    /\ Time \subseteq Nat /\ IsFiniteSet(Time)
    /\ \A S \in SUBSET Time : IsFiniteSet(S) /\ Cardinality(S) \in Nat
<1>1. Time \subseteq Nat /\ IsFiniteSet(Time)
  BY FS_Interval, ConstantsAssumption DEF Time
<1> QED BY <1>1, FS_Subset, FS_CardinalityType

\* The script and the in-memory window count subsets of what they have.
LEMMA Larger ==
    ASSUME NEW T, IsFiniteSet(T), NEW S \in SUBSET T
    PROVE  /\ IsFiniteSet(S) /\ Cardinality(S) \in Nat /\ Cardinality(T) \in Nat
           /\ Cardinality(S) <= Cardinality(T)
  BY FS_Subset, FS_CardinalityType

\* Ages and times.
LEMMA Ages ==
    \A a, b, c, w \in Nat : /\ a + w < c /\ c <= b + w => a < b
                            /\ c <= b + w /\ a >= b => a + w >= c
                            /\ a + w >= b + w <=> a >= b
  OBVIOUS

-----------------------------------------------------------------------------
(* The operators of the model *)

\* What the script counts, and the oldest of it when it refuses.
LEMMA KeptProperties ==
    ASSUME TypeOK, NEW s \in Time
    PROVE  /\ Kept(s) \subseteq Time
           /\ IsFiniteSet(Kept(s)) /\ Cardinality(Kept(s)) \in Nat
           /\ ~ScriptAdmits(s) => /\ Min(Kept(s)) \in Kept(s)
                                  /\ \A x \in Kept(s) : Min(Kept(s)) <= x
           /\ ScriptReset(s) \in 0..(MaxTime + Window)
<1>1. Kept(s) \subseteq Time /\ Kept(s) \in SUBSET Nat
  BY TimeIsFinite DEF Kept, TypeOK
<1>2. IsFiniteSet(Kept(s)) /\ Cardinality(Kept(s)) \in Nat
  BY <1>1, TimeIsFinite
<1>3. ASSUME ~ScriptAdmits(s)
      PROVE  Min(Kept(s)) \in Kept(s) /\ \A x \in Kept(s) : Min(Kept(s)) <= x
  <2>1. Kept(s) # {}
    BY <1>2, <1>3, FS_EmptySet, ConstantsAssumption DEF ScriptAdmits
  <2> QED BY <1>1, <2>1, MinIsLeast
<1>4. ScriptReset(s) \in 0..(MaxTime + Window)
  <2>1. (IF ScriptAdmits(s) THEN s ELSE Min(Kept(s))) \in Time
    BY <1>1, <1>3
  <2> QED BY <2>1, ConstantsAssumption DEF ScriptReset, Time
<1> QED BY <1>1, <1>2, <1>3, <1>4

\* The deque without its outdated front: the entries from some place on.
LEMMA RecentProperties ==
    ASSUME TypeOK, BucketInv
    PROVE  /\ Recent \in Seq(Time)
           /\ \E m \in 0..Len(bucket) :
                 /\ Len(Recent) = Len(bucket) - m
                 /\ \A i \in 1..Len(Recent) : Recent[i] = bucket[m + i]
                 /\ \A i \in 1..m : bucket[i] + Window < clock
                 /\ \A i \in 1..Len(Recent) : Recent[i] + Window >= clock
<1> DEFINE fresh == {i \in DOMAIN bucket : bucket[i] + Window >= clock}
<1>1. /\ bucket \in Seq(Time) /\ Len(bucket) \in Nat /\ DOMAIN bucket = 1..Len(bucket)
      /\ \A i \in DOMAIN bucket : bucket[i] \in Nat /\ bucket[i] \in Time
      /\ clock \in Nat /\ Window \in Nat
  <2>1. bucket \in Seq(Time) /\ Len(bucket) \in Nat /\ DOMAIN bucket = 1..Len(bucket)
    BY LenProperties DEF TypeOK
  <2>2. \A i \in DOMAIN bucket : bucket[i] \in Time
    BY <2>1, ElementOfSeq
  <2> QED BY <2>1, <2>2, TimeIsFinite, ConstantsAssumption DEF TypeOK
<1>2. CASE fresh = {}
  <2>1. Recent = <<>>
    BY <1>2 DEF Recent
  <2>2. \A i \in 1..Len(bucket) : bucket[i] + Window < clock
    BY <1>1, <1>2
  <2>3. Len(Recent) = 0 /\ Recent \in Seq(Time)
    BY <2>1
  <2>4. Len(bucket) \in 0..Len(bucket) /\ Len(Recent) = Len(bucket) - Len(bucket)
    BY <1>1, <2>3
  <2> QED BY <2>2, <2>3, <2>4
<1>3. CASE fresh # {}
  <2> DEFINE f == Min(fresh)
  <2>1. fresh \in SUBSET Nat
    BY <1>1
  <2>2. f \in fresh /\ \A i \in fresh : f <= i
    BY <1>3, <2>1, MinIsLeast
  <2> HIDE DEF f
  <2>3. Recent = SubSeq(bucket, f, Len(bucket))
    BY <1>3 DEF Recent, f
  <2>4. f \in 1..Len(bucket)
    BY <1>1, <2>2
  <2>5. /\ Recent \in Seq(Time)
        /\ Len(Recent) = Len(bucket) - f + 1
        /\ \A i \in 1..Len(Recent) : Recent[i] = bucket[f + i - 1]
    BY <1>1, <2>3, <2>4, SubSeqProperties
  <2>6. f - 1 \in 0..Len(bucket) /\ Len(Recent) = Len(bucket) - (f - 1)
    BY <1>1, <2>4, <2>5
  <2>7. ASSUME NEW i \in 1..Len(Recent)
        PROVE  Recent[i] = bucket[(f - 1) + i] /\ Recent[i] + Window >= clock
    <3>1. f + i - 1 \in DOMAIN bucket /\ f + i - 1 = (f - 1) + i
      BY <1>1, <2>4, <2>5
    <3>2. bucket[f] <= bucket[f + i - 1]
      <4> HIDE DEF fresh
      <4>1. CASE i = 1
        <5>1. f + i - 1 = f
          BY <2>4, <4>1
        <5> QED BY <1>1, <2>4, <5>1
      <4>2. CASE i # 1
        <5> DEFINE k == f + i - 1
        <5>1. f < k /\ k \in DOMAIN bucket /\ f \in DOMAIN bucket
          BY <1>1, <2>4, <2>5, <3>1, <4>2
        <5> HIDE DEF k
        <5>2. bucket[f] <= bucket[k]
          BY <5>1 DEF BucketInv
        <5> QED BY <5>2 DEF k
      <4> QED BY <4>1, <4>2
    <3>3. bucket[f] + Window >= clock
      BY <2>2
    <3>4. Recent[i] = bucket[f + i - 1] /\ bucket[f] \in Nat /\ bucket[f + i - 1] \in Nat
      BY <1>1, <2>4, <2>5, <3>1
    <3> HIDE DEF fresh
    <3> QED BY <1>1, <3>1, <3>2, <3>3, <3>4
  <2>8. ASSUME NEW i \in 1..(f - 1) PROVE bucket[i] + Window < clock
    BY <1>1, <2>2, <2>4
  <2> QED BY <2>5, <2>6, <2>7, <2>8
<1> QED BY <1>2, <1>3

\* The entries of a sorted deque that are older than x are a front of it.
LEMMA OlderFront ==
    ASSUME TypeOK, BucketInv, NEW x \in Nat
    PROVE  \E k \in 0..Len(bucket) : OlderThan(x, k)
<1> DEFINE young == {i \in DOMAIN bucket : bucket[i] >= x}
<1>1. /\ Len(bucket) \in Nat /\ DOMAIN bucket = 1..Len(bucket)
      /\ \A i \in DOMAIN bucket : bucket[i] \in Nat
  <2>1. bucket \in Seq(Time) /\ Time \subseteq Nat
    BY TimeIsFinite DEF TypeOK
  <2>2. Len(bucket) \in Nat /\ DOMAIN bucket = 1..Len(bucket)
    BY <2>1, LenProperties
  <2>3. \A i \in DOMAIN bucket : bucket[i] \in Time
    BY <2>1, ElementOfSeq
  <2> QED BY <2>1, <2>2, <2>3
<1>2. CASE young = {}
  <2>1. OlderThan(x, Len(bucket))
    BY <1>1, <1>2 DEF OlderThan
  <2> QED BY <1>1, <2>1
<1>3. CASE young # {}
  <2>1. young \in SUBSET Nat
    BY <1>1
  <2>2. PICK f \in young : \A i \in young : f <= i
    BY <1>3, <2>1, MinIsLeast
  <2>3. OlderThan(x, f - 1)
    <3>1. ASSUME NEW i \in DOMAIN bucket, i <= f - 1 PROVE bucket[i] < x
      BY <1>1, <2>2, <3>1
    <3>2. ASSUME NEW i \in DOMAIN bucket, ~(i <= f - 1) PROVE ~(bucket[i] < x)
      <4>1. bucket[f] <= bucket[i]
        BY <1>1, <2>2, <3>2 DEF BucketInv
      <4> QED BY <1>1, <2>2, <4>1
    <3> QED BY <3>1, <3>2 DEF OlderThan
  <2> QED BY <1>1, <2>2, <2>3
<1> QED BY <1>2, <1>3

\* How many calls the window admitted since x is the number of entries since x.
LEMMA AdmittedSince ==
    ASSUME TypeOK, BucketInv, NEW x \in 0..clock, x + Window >= clock,
           NEW k \in 0..Len(bucket), OlderThan(x, k)
    PROVE  Cardinality(MemoryAdmittedSince(x)) = Len(bucket) - k
  BY DEF BucketInv

-----------------------------------------------------------------------------
(* The script *)

\* What is known of the call of r whose script runs now.
LEMMA SentCall ==
    ASSUME IInv, NEW r \in Requests, call[r].pc = "sent"
    PROVE  /\ call[r].stamp \in Time /\ ~call[r].counted
           /\ call[r].stamp <= clock /\ clock <= call[r].stamp + MaxDelay
  BY DEF IInv, TypeOK, Call, CallInv

\* Stamps are instants.
LEMMA CountedAreTimes == TypeOK => CountedStamps \subseteq Time
  BY DEF TypeOK, Call, CountedStamps

\* The script counts the stamp of a call that it admits, and no other.
LEMMA ScriptCounts ==
    ASSUME IInv, NEW r \in Requests, call[r].pc = "sent", Script(r), clock' = clock,
           \A q \in Requests \ {r} : call'[q] = call[q],
           call'[r].stamp = call[r].stamp,
           call'[r].counted = ScriptAdmits(call[r].stamp)
    PROVE  /\ CountedStamps' = IF ScriptAdmits(call[r].stamp)
                               THEN CountedStamps \cup {call[r].stamp} ELSE CountedStamps
           /\ zset' \subseteq Time
           /\ expiry' \in 0..(MaxTime + Window)
           /\ SetInv'
<1> DEFINE s == call[r].stamp
<1>1. /\ s \in Time /\ s \in Nat /\ s <= clock /\ ~call[r].counted
      /\ clock \in Nat /\ clock <= MaxTime /\ expiry \in Nat
      /\ Window \in Nat /\ Limit \in Nat /\ MaxTime \in Nat
  BY SentCall, ConstantsAssumption DEF IInv, TypeOK, Time
<1>2. TypeOK /\ SetInv /\ CountedStamps \subseteq Time /\ Time \subseteq Nat
  BY CountedAreTimes, TimeIsFinite DEF IInv
<1>3. /\ Kept(s) \subseteq zset /\ Kept(s) \subseteq Time
      /\ IsFiniteSet(Kept(s)) /\ Cardinality(Kept(s)) \in Nat
  BY <1>1, <1>2, KeptProperties DEF Kept
<1>4. CountedStamps' = IF ScriptAdmits(s) THEN CountedStamps \cup {s} ELSE CountedStamps
  BY <1>1 DEF CountedStamps
<1>5. CASE ScriptAdmits(s)
  <2>1. zset' = Kept(s) \cup {s} /\ expiry' = clock + Window
    BY <1>5 DEF Script
  <2>2. Cardinality(zset') <= Limit
    <3> DEFINE K == Kept(s)
    <3>1. IsFiniteSet(K) /\ Cardinality(K) \in Nat /\ Cardinality(K) < Limit
      BY <1>3, <1>5 DEF ScriptAdmits
    <3> HIDE DEF K
    <3>2. Cardinality(K \cup {s}) <= Cardinality(K) + 1 /\ Cardinality(K \cup {s}) \in Nat
      <4>1. /\ IsFiniteSet(K \cup {s})
            /\ Cardinality(K \cup {s}) = IF s \in K THEN Cardinality(K) ELSE Cardinality(K) + 1
        BY <3>1, FS_AddElement
      <4> QED BY <3>1, <4>1
    <3> QED BY <1>1, <2>1, <3>1, <3>2 DEF K
  <2>3. zset' \subseteq CountedStamps'
    BY <1>2, <1>3, <1>4, <1>5, <2>1 DEF SetInv
  <2>4. ASSUME NEW x \in CountedStamps'
        PROVE  x + Window <= expiry' /\ (x \notin zset' => x + Window <= clock)
    <3>1. CASE x = s
      BY <1>1, <2>1, <3>1
    <3>2. CASE x # s
      <4>1. x \in CountedStamps /\ x \in Nat
        BY <1>2, <1>4, <1>5, <3>2
      <4>2. x <= clock
        BY <4>1, <1>2 DEF IInv, CallInv, CountedStamps
      <4>3. x \notin zset' => x + Window <= clock
        <5>1. CASE x \notin zset
          BY <1>2, <4>1, <5>1 DEF SetInv
        <5>2. CASE x \in zset /\ x \notin zset'
          <6>1. ~(x + Window > s)
            BY <2>1, <5>2 DEF Kept
          <6> QED BY <6>1, <1>1, <4>1
        <5> QED BY <5>1, <5>2
      <4> QED BY <1>1, <2>1, <4>1, <4>2, <4>3
    <3> QED BY <3>1, <3>2
  <2> QED BY <1>1, <1>3, <1>4, <1>5, <2>1, <2>2, <2>3, <2>4 DEF SetInv
<1>6. CASE ~ScriptAdmits(s)
  <2>1. zset' = Kept(s) /\ expiry' = expiry
    BY <1>6 DEF Script
  <2>2. Cardinality(zset') <= Limit
    <3>1. IsFiniteSet(zset) /\ Cardinality(zset) <= Limit
      BY <1>2, TimeIsFinite DEF SetInv, TypeOK
    <3>2. Cardinality(Kept(s)) <= Cardinality(zset) /\ Cardinality(zset) \in Nat
      BY <1>3, <3>1, Larger
    <3> QED BY <1>1, <1>3, <2>1, <3>1, <3>2
  <2>3. zset' \subseteq CountedStamps'
    BY <1>2, <1>3, <1>4, <1>6, <2>1 DEF SetInv
  <2>4. ASSUME NEW x \in CountedStamps'
        PROVE  x + Window <= expiry' /\ (x \notin zset' => x + Window <= clock)
    <3>1. x \in CountedStamps /\ x \in Nat
      BY <1>2, <1>4, <1>6
    <3>2. x + Window <= expiry /\ (x \notin zset => x + Window <= clock)
      BY <1>2, <3>1 DEF SetInv
    <3>3. x \in zset /\ x \notin zset' => x + Window <= s
      BY <1>1, <2>1, <3>1 DEF Kept
    <3> QED BY <1>1, <2>1, <3>1, <3>2, <3>3
  <2> QED BY <1>2, <1>3, <1>4, <1>6, <2>1, <2>2, <2>3, <2>4 DEF SetInv, TypeOK
<1> QED BY <1>4, <1>5, <1>6

-----------------------------------------------------------------------------
(* What a refusal rests on *)

\* RefusalInv and RefusalJustified for one refused call.
FullUntilReset(q) ==
    \/ /\ call[q].by = "redis"
       /\ Cardinality({s \in CountedStamps : s + Window >= call[q].reset}) >= Limit
    \/ /\ call[q].by = "memory"
       /\ Cardinality({r \in MemoryAdmitted : call[r].at + Window >= call[q].reset}) >= Limit

FullWhenRefused(q) ==
    \/ /\ call[q].by = "redis"
       /\ Cardinality({s \in CountedStamps : s + Window > call[q].stamp}) >= Limit
    \/ /\ call[q].by = "memory"
       /\ Cardinality({r \in MemoryAdmitted : call[r].at + Window >= call[q].at}) >= Limit

\* A call that was refused stays so, and what refused it is only added to.
LEMMA RefusalsKeep ==
    ASSUME IInv, NEW r \in Requests, call[r].pc \notin {"admitted", "refused"},
           \A q \in Requests \ {r} : call'[q] = call[q],
           CountedStamps \subseteq CountedStamps', CountedStamps' \subseteq Time,
           IsFiniteSet(MemoryAdmitted'),
           NEW q \in Requests \ {r}, call[q].pc = "refused"
    PROVE  FullUntilReset(q)' /\ (FullWhenRefused(q) => FullWhenRefused(q)')
<1>1. call'[q] = call[q] /\ Limit \in Nat
  BY ConstantsAssumption
<1>2. MemoryAdmitted \subseteq MemoryAdmitted' /\ \A p \in MemoryAdmitted : call'[p] = call[p]
  BY DEF MemoryAdmitted
<1>3. ASSUME NEW A, NEW B \in SUBSET A, IsFiniteSet(A), Cardinality(B) >= Limit
      PROVE  Cardinality(A) >= Limit
  BY <1>1, <1>3, Larger
<1>4. ASSUME NEW y, Cardinality({s \in CountedStamps : s + Window >= y}) >= Limit
      PROVE  Cardinality({s \in CountedStamps' : s + Window >= y}) >= Limit
  BY <1>3, <1>4, TimeIsFinite
<1>5. ASSUME NEW y, Cardinality({s \in CountedStamps : s + Window > y}) >= Limit
      PROVE  Cardinality({s \in CountedStamps' : s + Window > y}) >= Limit
  BY <1>3, <1>5, TimeIsFinite
<1>6. ASSUME NEW y, Cardinality({p \in MemoryAdmitted : call[p].at + Window >= y}) >= Limit
      PROVE  Cardinality({p \in MemoryAdmitted' : call'[p].at + Window >= y}) >= Limit
  <2>1. /\ {p \in MemoryAdmitted : call[p].at + Window >= y}
            \subseteq {p \in MemoryAdmitted' : call'[p].at + Window >= y}
        /\ IsFiniteSet({p \in MemoryAdmitted' : call'[p].at + Window >= y})
    BY <1>2, FS_Subset
  <2> QED BY <1>3, <1>6, <2>1
<1> QED
  BY <1>1, <1>4, <1>5, <1>6 DEF IInv, RefusalInv, FullUntilReset, FullWhenRefused

\* Earlier refusals stay justified while stamps and admissions are only added.
LEMMA RefusalInvKeeps ==
    ASSUME IInv, NEW r \in Requests, call[r].pc \notin {"admitted", "refused"},
           \A q \in Requests \ {r} : call'[q] = call[q],
           CountedStamps \subseteq CountedStamps', CountedStamps' \subseteq Time,
           IsFiniteSet(MemoryAdmitted'),
           call'[r].pc = "refused" => FullUntilReset(r)'
    PROVE  RefusalInv'
<1>1. ASSUME NEW q \in Requests, call'[q].pc = "refused" PROVE FullUntilReset(q)'
  <2>1. CASE q = r
    BY <1>1, <2>1
  <2>2. CASE q # r
    BY <1>1, <2>2, RefusalsKeep
  <2> QED BY <2>1, <2>2
<1> QED BY <1>1 DEF RefusalInv, FullUntilReset

-----------------------------------------------------------------------------
(* Steps *)

\* A step that leaves the clock and the deque alone and admits nobody from memory.
LEMMA BucketKeeps ==
    ASSUME IInv, UNCHANGED <<clock, bucket>>, MemoryAdmitted' = MemoryAdmitted,
           \A r \in MemoryAdmitted : call'[r].at = call[r].at
    PROVE  BucketInv'
<1>1. \A x \in 0..clock : MemoryAdmittedSince(x)' = MemoryAdmittedSince(x)
  BY DEF MemoryAdmittedSince
<1> QED BY <1>1 DEF IInv, BucketInv, OlderThan

\* What each step on the call of r does to it and to the counted and admitted calls.
LEMMA SendStep ==
    ASSUME IInv, NEW r \in Requests, Send(r)
    PROVE  /\ CountedStamps' = CountedStamps /\ MemoryAdmitted' = MemoryAdmitted
           /\ \A q \in Requests \ {r} : call'[q] = call[q]
           /\ call'[r] = [call[r] EXCEPT !.pc = "sent", !.stamp = clock]
           /\ call[r].pc = "new" /\ call'[r].pc = "sent"
  BY DEF IInv, TypeOK, Call, CallInv, Send, CountedStamps, MemoryAdmitted

\* RedisUnreachable changes one call.
LEMMA UnreachableStep ==
    ASSUME IInv, NEW r \in Requests, RedisUnreachable(r)
    PROVE  /\ CountedStamps' = CountedStamps /\ MemoryAdmitted' = MemoryAdmitted
           /\ \A q \in Requests \ {r} : call'[q] = call[q]
           /\ call'[r] = [call[r] EXCEPT !.pc = "failed"]
           /\ call[r].pc = "sent" /\ call'[r].pc = "failed"
  BY DEF IInv, TypeOK, Call, CallInv, RedisUnreachable, CountedStamps, MemoryAdmitted

\* RedisReplyLost runs the script for one call.
LEMMA ReplyLostStep ==
    ASSUME IInv, NEW r \in Requests, RedisReplyLost(r)
    PROVE  /\ call[r].pc = "sent" /\ Script(r) /\ UNCHANGED <<clock, bucket>>
           /\ \A q \in Requests \ {r} : call'[q] = call[q]
           /\ call'[r].stamp = call[r].stamp /\ call'[r].at = call[r].at
           /\ call'[r].counted = ScriptAdmits(call[r].stamp)
           /\ call'[r].pc = "failed"
  BY DEF IInv, TypeOK, Call, RedisReplyLost

\* RedisDecides runs the script for one call and answers it.
LEMMA DecidesStep ==
    ASSUME IInv, NEW r \in Requests, RedisDecides(r)
    PROVE  /\ call[r].pc = "sent" /\ Script(r) /\ UNCHANGED <<clock, bucket>>
           /\ \A q \in Requests \ {r} : call'[q] = call[q]
           /\ call'[r].stamp = call[r].stamp /\ call'[r].at = call[r].at
           /\ call'[r].by = "redis"
           /\ call'[r].counted = ScriptAdmits(call[r].stamp)
           /\ call'[r].reset = ScriptReset(call[r].stamp)
           /\ call'[r].pc = IF ScriptAdmits(call[r].stamp) THEN "admitted" ELSE "refused"
  BY DEF IInv, TypeOK, Call, RedisDecides

LEMMA SendKeeps == ASSUME IInv, NEW r \in Requests, Send(r) PROVE IInv'
<1>1. /\ CountedStamps' = CountedStamps /\ MemoryAdmitted' = MemoryAdmitted
      /\ \A q \in Requests \ {r} : call'[q] = call[q]
      /\ call'[r] = [call[r] EXCEPT !.pc = "sent", !.stamp = clock] /\ call'[r].pc = "sent"
  BY SendStep
<1>2. TypeOK'
  <2>1. clock \in Time /\ call[r] \in Call /\ call \in [Requests -> Call]
    BY DEF IInv, TypeOK
  <2>2. [call[r] EXCEPT !.pc = "sent", !.stamp = clock] \in Call
    BY <2>1 DEF Call
  <2>3. call' \in [Requests -> Call]
    BY <2>1, <2>2 DEF Send
  <2> QED BY <2>3 DEF IInv, TypeOK, Send
<1>3. CallInv'
  BY <1>1, ConstantsAssumption DEF IInv, TypeOK, Call, CallInv, Send, Time
<1>4. SetInv'
  BY <1>1 DEF IInv, SetInv, Send
<1>5. BucketInv'
  BY <1>1, BucketKeeps DEF Send, MemoryAdmitted, IInv, TypeOK, Call
<1>6. RefusalInv'
  <2>1. IsFiniteSet(MemoryAdmitted') /\ CountedStamps' \subseteq Time
    BY <1>1, CountedAreTimes DEF IInv, BucketInv
  <2> QED BY <1>1, <2>1, RefusalInvKeeps DEF Send
<1> QED BY <1>2, <1>3, <1>4, <1>5, <1>6 DEF IInv

LEMMA RedisUnreachableKeeps ==
    ASSUME IInv, NEW r \in Requests, RedisUnreachable(r) PROVE IInv'
<1>1. /\ CountedStamps' = CountedStamps /\ MemoryAdmitted' = MemoryAdmitted
      /\ \A q \in Requests \ {r} : call'[q] = call[q]
      /\ call'[r] = [call[r] EXCEPT !.pc = "failed"] /\ call'[r].pc = "failed"
  BY UnreachableStep
<1>2. TypeOK'
  <2>1. call[r] \in Call /\ call \in [Requests -> Call]
    BY DEF IInv, TypeOK
  <2>2. [call[r] EXCEPT !.pc = "failed"] \in Call
    BY <2>1 DEF Call
  <2>3. call' \in [Requests -> Call]
    BY <2>1, <2>2 DEF RedisUnreachable
  <2> QED BY <2>3 DEF IInv, TypeOK, RedisUnreachable
<1>3. CallInv'
  BY <1>1 DEF IInv, TypeOK, Call, CallInv, RedisUnreachable
<1>4. SetInv'
  BY <1>1 DEF IInv, SetInv, RedisUnreachable
<1>5. BucketInv'
  BY <1>1, BucketKeeps DEF RedisUnreachable, MemoryAdmitted, IInv, TypeOK, Call
<1>6. RefusalInv'
  <2>1. IsFiniteSet(MemoryAdmitted') /\ CountedStamps' \subseteq Time
    BY <1>1, CountedAreTimes DEF IInv, BucketInv
  <2> QED BY <1>1, <2>1, RefusalInvKeeps DEF RedisUnreachable
<1> QED BY <1>2, <1>3, <1>4, <1>5, <1>6 DEF IInv

\* The script ran: what both of its outcomes have in common.
LEMMA ScriptKeeps ==
    ASSUME IInv, NEW r \in Requests, call[r].pc = "sent", Script(r),
           UNCHANGED <<clock, bucket>>,
           \A q \in Requests \ {r} : call'[q] = call[q],
           call'[r].stamp = call[r].stamp, call'[r].at = call[r].at,
           call'[r].counted = ScriptAdmits(call[r].stamp),
           call'[r].pc = "failed" \/ call'[r].by = "redis",
           call'[r].pc \notin {"new", "sent"}
    PROVE  /\ CallInv' /\ SetInv' /\ BucketInv'
           /\ zset' \subseteq Time /\ expiry' \in 0..(MaxTime + Window)
           /\ CountedStamps \subseteq CountedStamps' /\ CountedStamps' \subseteq Time
           /\ MemoryAdmitted' = MemoryAdmitted
<1>1. /\ SetInv' /\ zset' \subseteq Time /\ expiry' \in 0..(MaxTime + Window)
      /\ CountedStamps' = IF ScriptAdmits(call[r].stamp)
                          THEN CountedStamps \cup {call[r].stamp} ELSE CountedStamps
  BY ScriptCounts
<1>2. CountedStamps \subseteq CountedStamps' /\ CountedStamps' \subseteq Time
  BY <1>1, SentCall, CountedAreTimes DEF IInv
<1>3. MemoryAdmitted' = MemoryAdmitted
  BY DEF MemoryAdmitted
<1>4. CallInv'
  BY DEF IInv, CallInv
<1>5. BucketInv'
  BY <1>3, BucketKeeps DEF MemoryAdmitted
<1> QED BY <1>1, <1>2, <1>3, <1>4, <1>5

LEMMA RedisReplyLostKeeps ==
    ASSUME IInv, NEW r \in Requests, RedisReplyLost(r) PROVE IInv'
<1>1. /\ call[r].pc = "sent" /\ Script(r) /\ UNCHANGED <<clock, bucket>>
      /\ \A q \in Requests \ {r} : call'[q] = call[q]
      /\ call'[r].stamp = call[r].stamp /\ call'[r].at = call[r].at
      /\ call'[r].counted = ScriptAdmits(call[r].stamp)
      /\ call'[r].pc = "failed"
  BY ReplyLostStep
<1>2. /\ CallInv' /\ SetInv' /\ BucketInv'
      /\ zset' \subseteq Time /\ expiry' \in 0..(MaxTime + Window)
      /\ CountedStamps \subseteq CountedStamps' /\ CountedStamps' \subseteq Time
      /\ MemoryAdmitted' = MemoryAdmitted
  BY <1>1, ScriptKeeps
<1>3. TypeOK'
  <2> DEFINE a == ScriptAdmits(call[r].stamp)
  <2>1. a \in BOOLEAN /\ call' = [call EXCEPT ![r].pc = "failed", ![r].counted = a]
    BY DEF RedisReplyLost, ScriptAdmits
  <2> HIDE DEF a
  <2>2. call[r] \in Call /\ call \in [Requests -> Call]
    BY DEF IInv, TypeOK
  <2>3. [call[r] EXCEPT !.pc = "failed", !.counted = a] \in Call
    BY <2>1, <2>2 DEF Call
  <2>4. call' \in [Requests -> Call]
    BY <2>1, <2>2, <2>3
  <2> QED BY <1>1, <1>2, <2>4 DEF IInv, TypeOK
<1>4. RefusalInv'
  BY <1>1, <1>2, RefusalInvKeeps DEF IInv, BucketInv
<1> QED BY <1>2, <1>3, <1>4 DEF IInv

LEMMA RedisDecidesKeeps ==
    ASSUME IInv, NEW r \in Requests, RedisDecides(r) PROVE IInv'
<1> DEFINE s == call[r].stamp
<1>1. /\ call[r].pc = "sent" /\ Script(r) /\ UNCHANGED <<clock, bucket>>
      /\ \A q \in Requests \ {r} : call'[q] = call[q]
      /\ call'[r].stamp = s /\ call'[r].at = call[r].at /\ call'[r].by = "redis"
      /\ call'[r].counted = ScriptAdmits(s) /\ call'[r].reset = ScriptReset(s)
      /\ call'[r].pc = IF ScriptAdmits(s) THEN "admitted" ELSE "refused"
  BY DecidesStep
<1>2. /\ CallInv' /\ SetInv' /\ BucketInv'
      /\ zset' \subseteq Time /\ expiry' \in 0..(MaxTime + Window)
      /\ CountedStamps \subseteq CountedStamps' /\ CountedStamps' \subseteq Time
      /\ MemoryAdmitted' = MemoryAdmitted
  BY <1>1, ScriptKeeps
<1>3. TypeOK'
  <2> DEFINE a == ScriptAdmits(s)
             p == IF a THEN "admitted" ELSE "refused"
             t == ScriptReset(s)
  <2>1. /\ p \in {"admitted", "refused"} /\ a \in BOOLEAN
        /\ t \in 0..(MaxTime + Window)
    BY <1>1, SentCall, KeptProperties DEF IInv, ScriptAdmits
  <2>2. call' = [call EXCEPT ![r].pc = p, ![r].counted = a, ![r].by = "redis", ![r].reset = t]
    BY DEF RedisDecides
  <2> HIDE DEF a, p, t
  <2>3. call[r] \in Call /\ [call[r] EXCEPT !.pc = p, !.counted = a, !.by = "redis", !.reset = t] \in Call
    BY <2>1 DEF IInv, TypeOK, Call
  <2>4. call' \in [Requests -> Call]
    BY <2>2, <2>3 DEF IInv, TypeOK
  <2> QED BY <1>1, <1>2, <2>4 DEF IInv, TypeOK
<1>4. ASSUME call'[r].pc = "refused" PROVE FullUntilReset(r)'
  <2>1. s \in Time /\ ~ScriptAdmits(s)
    BY <1>1, <1>4, SentCall
  <2>2. /\ Kept(s) \subseteq Time /\ Min(Kept(s)) \in Kept(s)
        /\ \A x \in Kept(s) : Min(Kept(s)) <= x
        /\ Cardinality(Kept(s)) \in Nat
    BY <2>1, KeptProperties DEF IInv
  <2>3. Cardinality(Kept(s)) >= Limit
    BY <2>1, <2>2, ConstantsAssumption DEF ScriptAdmits
  <2>4. call'[r].reset = Min(Kept(s)) + Window
    BY <1>1, <2>1 DEF ScriptReset
  <2>5. Kept(s) \subseteq CountedStamps'
    BY <1>1, <1>2, <2>1 DEF SetInv, Script
  <2>6. Kept(s) \subseteq {x \in CountedStamps' : x + Window >= call'[r].reset}
    <3>1. ASSUME NEW x \in Kept(s) PROVE x + Window >= call'[r].reset
      <4>1. x \in Nat /\ Min(Kept(s)) \in Nat /\ Min(Kept(s)) <= x /\ Window \in Nat
        BY <2>2, TimeIsFinite, ConstantsAssumption
      <4> QED BY <2>4, <4>1
    <3> QED BY <2>5, <3>1
  <2>7. IsFiniteSet({x \in CountedStamps' : x + Window >= call'[r].reset})
    BY <1>2, TimeIsFinite
  <2>8. Cardinality({x \in CountedStamps' : x + Window >= call'[r].reset}) >= Limit
    BY <2>2, <2>3, <2>6, <2>7, Larger, ConstantsAssumption
  <2> QED BY <1>1, <2>8 DEF FullUntilReset
<1>5. RefusalInv'
  BY <1>1, <1>2, <1>4, RefusalInvKeeps DEF IInv, BucketInv
<1> QED BY <1>2, <1>3, <1>5 DEF IInv

LEMMA TickKeeps == ASSUME IInv, Tick PROVE IInv'
<1>1. /\ CountedStamps' = CountedStamps /\ MemoryAdmitted' = MemoryAdmitted
      /\ clock' = clock + 1 /\ call' = call /\ bucket' = bucket /\ expiry' = expiry
      /\ zset' \subseteq zset /\ (zset' = zset \/ clock' >= expiry)
  BY DEF Tick, CountedStamps, MemoryAdmitted
<1>2. clock \in Nat /\ clock' \in Time /\ Window \in Nat /\ MaxDelay \in Nat
  BY ConstantsAssumption DEF IInv, TypeOK, Time, Tick
<1>3. TypeOK'
  BY <1>1, <1>2 DEF IInv, TypeOK
<1>4. CallInv'
  BY <1>1, <1>2, ConstantsAssumption DEF IInv, TypeOK, Call, Time, CallInv, Tick
<1>5. SetInv'
  <2>1. CountedStamps \subseteq Nat /\ expiry \in Nat
    <3>1. CountedStamps \subseteq Nat
      BY CountedAreTimes, TimeIsFinite DEF IInv
    <3>2. expiry \in Nat
      BY ConstantsAssumption DEF IInv, TypeOK
    <3> QED BY <3>1, <3>2
  <2>2. zset' \subseteq CountedStamps /\ Cardinality(zset') <= Limit
    <3>1. IsFiniteSet(zset) /\ zset' \in SUBSET zset /\ Cardinality(zset) <= Limit
      BY <1>1, TimeIsFinite DEF IInv, TypeOK, SetInv
    <3>2. Cardinality(zset') <= Cardinality(zset) /\ Cardinality(zset') \in Nat
          /\ Cardinality(zset) \in Nat
      BY <3>1, Larger
    <3> QED BY <3>1, <3>2, <1>1, ConstantsAssumption DEF IInv, SetInv
  <2>3. ASSUME NEW x \in CountedStamps
        PROVE  x + Window <= expiry /\ (x \notin zset' => x + Window <= clock')
    <3>1. x + Window <= expiry /\ (x \notin zset => x + Window <= clock)
      BY DEF IInv, SetInv
    <3> QED BY <1>1, <1>2, <2>1, <3>1
  <2> QED BY <1>1, <2>2, <2>3 DEF SetInv
<1>6. BucketInv'
  <2>1. \A i \in DOMAIN bucket : bucket[i] \in Nat
    BY ElementOfSeq, LenProperties, TimeIsFinite DEF IInv, TypeOK
  <2>2. ASSUME NEW x \in 0..clock', NEW k \in 0..Len(bucket), x + Window >= clock',
               OlderThan(x, k)
        PROVE  Cardinality(MemoryAdmittedSince(x)) = Len(bucket) - k
    <3>1. CASE x \in 0..clock
      BY <1>1, <1>2, <2>2, <3>1, AdmittedSince DEF IInv
    <3>2. CASE x = clock + 1
      <4>1. MemoryAdmittedSince(x) = {}
        BY <1>2, <3>2 DEF IInv, TypeOK, Call, Time, CallInv, MemoryAdmittedSince, MemoryAdmitted
      <4>2. k = Len(bucket)
        <5>1. Len(bucket) \in Nat /\ DOMAIN bucket = 1..Len(bucket)
          BY LenProperties DEF IInv, TypeOK
        <5>2. \A i \in DOMAIN bucket : bucket[i] < x
          BY <1>2, <2>1, <3>2 DEF IInv, BucketInv
        <5>3. k \in Int /\ 0 <= k /\ k <= Len(bucket)
          BY <5>1
        <5>4. ~(k + 1 \in DOMAIN bucket)
          BY <2>2, <5>2, <5>3 DEF OlderThan
        <5>5. ~(k + 1 <= Len(bucket))
          BY <5>1, <5>3, <5>4
        <5>6. \A m, n \in Int : m <= n /\ ~(m + 1 <= n) => m = n
          OBVIOUS
        <5>7. Len(bucket) \in Int
          BY <5>1
        <5> QED BY <5>3, <5>5, <5>6, <5>7, Zenon
      <4> QED
        BY <4>1, <4>2, FS_EmptySet, LenProperties DEF IInv, TypeOK
    <3> QED BY <1>1, <1>2, <3>1, <3>2
  <2>3. \A i \in DOMAIN bucket : bucket[i] <= clock'
    BY <1>1, <1>2, <2>1 DEF IInv, BucketInv
  <2>4. \A x, k : OlderThan(x, k)' <=> OlderThan(x, k)
    BY <1>1 DEF OlderThan
  <2>5. \A x : MemoryAdmittedSince(x)' = MemoryAdmittedSince(x)
    BY <1>1 DEF MemoryAdmittedSince
  <2> QED BY <1>1, <2>2, <2>3, <2>4, <2>5 DEF IInv, BucketInv
<1>7. RefusalInv'
  BY <1>1 DEF IInv, RefusalInv
<1> QED BY <1>3, <1>4, <1>5, <1>6, <1>7 DEF IInv

-----------------------------------------------------------------------------
(* The in-memory window *)

\* The decision of the in-memory window, in the terms of the deque before it.
LEMMA FallbackStep ==
    ASSUME IInv, NEW r \in Requests, Fallback(r)
    PROVE  /\ call[r].pc = "failed" /\ clock \in Time /\ UNCHANGED <<clock, zset, expiry>>
           /\ \A q \in Requests \ {r} : call'[q] = call[q]
           /\ call'[r].by = "memory" /\ call'[r].at = clock
           /\ call'[r].stamp = call[r].stamp /\ call'[r].counted = call[r].counted
           /\ CountedStamps' = CountedStamps
           /\ call' \in [Requests -> Call]
           /\ IF Len(Recent) < Limit
              THEN /\ call'[r].pc = "admitted" /\ bucket' = Append(Recent, clock)
                   /\ MemoryAdmitted' = MemoryAdmitted \cup {r} /\ r \notin MemoryAdmitted
              ELSE /\ call'[r].pc = "refused" /\ bucket' = Recent
                   /\ call'[r].reset = Recent[1] + Window /\ Len(Recent) >= Limit
                   /\ MemoryAdmitted' = MemoryAdmitted
<1> DEFINE a == Len(Recent) < Limit
           p == IF a THEN "admitted" ELSE "refused"
           t == (IF a THEN clock ELSE Head(Recent)) + Window
<1>1. /\ call[r].pc = "failed" /\ UNCHANGED <<clock, zset, expiry>>
      /\ bucket' = IF a THEN Append(Recent, clock) ELSE Recent
      /\ call' = [call EXCEPT ![r].pc = p, ![r].by = "memory", ![r].at = clock,
                              ![r].reset = t]
  BY DEF Fallback
<1>2. Recent \in Seq(Time) /\ Len(Recent) \in Nat
  BY RecentProperties, LenProperties DEF IInv
<1>3. ~a => Len(Recent) >= Limit /\ Head(Recent) = Recent[1] /\ Head(Recent) \in Time
  <2>1. ~a => Len(Recent) >= Limit /\ Len(Recent) >= 1
    BY <1>2, ConstantsAssumption
  <2>2. ~a => Recent # <<>>
    BY <2>1, EmptySeq
  <2>3. Recent # <<>> => Head(Recent) = Recent[1] /\ Head(Recent) \in Time
    BY <1>2, HeadTailProperties
  <2> QED BY <2>1, <2>2, <2>3
<1>4. clock \in Time /\ p \in {"admitted", "refused"} /\ t \in 0..(MaxTime + Window)
  <2>1. clock \in Time /\ (IF a THEN clock ELSE Head(Recent)) \in Time
    BY <1>3 DEF IInv, TypeOK
  <2> QED BY <2>1, ConstantsAssumption DEF Time
<1>5. t = IF a THEN clock + Window ELSE Recent[1] + Window
  BY <1>3
<1>6. a \/ ~a
  OBVIOUS
<1>7. p = IF a THEN "admitted" ELSE "refused"
  OBVIOUS
<1> HIDE DEF a, p, t
<1>8. call[r] \in Call /\ [call[r] EXCEPT !.pc = p, !.by = "memory", !.at = clock, !.reset = t] \in Call
  BY <1>4 DEF IInv, TypeOK, Call
<1>9. /\ call' \in [Requests -> Call] /\ \A q \in Requests \ {r} : call'[q] = call[q]
      /\ call'[r] = [call[r] EXCEPT !.pc = p, !.by = "memory", !.at = clock, !.reset = t]
  BY <1>1, <1>8 DEF IInv, TypeOK
<1>10. /\ call'[r].pc = p /\ call'[r].by = "memory" /\ call'[r].at = clock
       /\ call'[r].reset = t
       /\ call'[r].stamp = call[r].stamp /\ call'[r].counted = call[r].counted
  BY <1>8, <1>9 DEF Call
<1>11. CountedStamps' = CountedStamps
  <2>1. \A q \in Requests : call'[q].stamp = call[q].stamp /\ call'[q].counted = call[q].counted
    BY <1>9, <1>10
  <2> QED BY <2>1, Zenon DEF CountedStamps
<1>12. CASE a
  <2>1. MemoryAdmitted' = MemoryAdmitted \cup {r} /\ r \notin MemoryAdmitted
    BY <1>1, <1>7, <1>9, <1>10, <1>12 DEF MemoryAdmitted
  <2> QED BY <1>1, <1>4, <1>7, <1>9, <1>10, <1>11, <1>12, <2>1 DEF a
<1>13. CASE ~a
  <2>1. MemoryAdmitted' = MemoryAdmitted
    BY <1>1, <1>7, <1>9, <1>10, <1>13 DEF MemoryAdmitted
  <2> QED BY <1>1, <1>3, <1>4, <1>5, <1>7, <1>9, <1>10, <1>11, <1>13, <2>1 DEF a
<1> QED BY <1>12, <1>13

\* The deque after the decision, with the places of its entries before.
LEMMA FallbackBucket ==
    ASSUME IInv, NEW r \in Requests, Fallback(r)
    PROVE  BucketInv' /\ bucket' \in Seq(Time)
<1> DEFINE n == Len(Recent)
<1>1. /\ clock \in Time /\ clock \in Nat /\ clock' = clock /\ Window \in Nat /\ Limit \in Nat
      /\ \A q \in Requests \ {r} : call'[q] = call[q]
      /\ call'[r].at = clock
      /\ call' \in [Requests -> Call]
  BY FallbackStep, TimeIsFinite, ConstantsAssumption
<1>2. /\ Recent \in Seq(Time) /\ n \in Nat /\ DOMAIN Recent = 1..n
      /\ Len(bucket) \in Nat /\ DOMAIN bucket = 1..Len(bucket)
      /\ \A i \in DOMAIN bucket : bucket[i] \in Nat /\ bucket[i] <= clock
  <2>1. Recent \in Seq(Time) /\ bucket \in Seq(Time)
    BY RecentProperties DEF IInv, TypeOK
  <2>2. /\ n \in Nat /\ DOMAIN Recent = 1..n
        /\ Len(bucket) \in Nat /\ DOMAIN bucket = 1..Len(bucket)
    BY <2>1, LenProperties
  <2>3. \A i \in DOMAIN bucket : bucket[i] \in Nat /\ bucket[i] <= clock
    BY <2>1, <2>2, ElementOfSeq, TimeIsFinite DEF IInv, BucketInv
  <2> QED BY <2>1, <2>2, <2>3
<1>3. PICK m \in 0..Len(bucket) :
         /\ n = Len(bucket) - m
         /\ \A i \in 1..n : Recent[i] = bucket[m + i]
         /\ \A i \in 1..m : bucket[i] + Window < clock
         /\ \A i \in 1..n : Recent[i] + Window >= clock
  BY RecentProperties DEF IInv
<1>4. \A i \in 1..n : /\ m + i \in DOMAIN bucket /\ Recent[i] \in Nat /\ Recent[i] <= clock
                      /\ \A j \in 1..n : i < j => Recent[i] <= Recent[j]
  <2>1. ASSUME NEW i \in 1..n
        PROVE  m + i \in DOMAIN bucket /\ Recent[i] \in Nat /\ Recent[i] <= clock
    BY <1>2, <1>3
  <2>2. ASSUME NEW i \in 1..n, NEW j \in 1..n, i < j PROVE Recent[i] <= Recent[j]
    <3>1. m + i \in DOMAIN bucket /\ m + j \in DOMAIN bucket /\ m + i < m + j
      BY <1>2, <1>3, <2>2
    <3>2. bucket[m + i] <= bucket[m + j]
      BY <3>1 DEF IInv, BucketInv
    <3> QED BY <1>3, <3>2
  <2> QED BY <2>1, <2>2
\* Since x, the window has admitted as many as the kept entries since x.
<1>5. ASSUME NEW x \in 0..clock, x + Window >= clock, NEW k \in 0..n,
             \A i \in 1..n : i <= k <=> Recent[i] < x
      PROVE  Cardinality(MemoryAdmittedSince(x)) = n - k
  <2>1. m + k \in 0..Len(bucket) /\ Len(bucket) - (m + k) = n - k
    BY <1>2, <1>3
  <2>2. ASSUME NEW i \in DOMAIN bucket PROVE i <= m + k <=> bucket[i] < x
    <3>1. CASE i \in 1..m
      <4>1. bucket[i] + Window < clock /\ bucket[i] \in Nat
        BY <1>2, <1>3, <3>1
      <4> QED BY <1>1, <1>3, <1>5, <3>1, <4>1
    <3>2. CASE i \notin 1..m
      <4>1. i - m \in 1..n /\ m + (i - m) = i
        BY <1>2, <1>3, <3>2
      <4>2. Recent[i - m] = bucket[i]
        BY <1>3, <4>1
      <4>3. i - m <= k <=> bucket[i] < x
        BY <1>5, <4>1, <4>2
      <4> QED BY <1>2, <1>3, <4>1, <4>3
    <3> QED BY <3>1, <3>2
  <2>3. OlderThan(x, m + k)
    BY <2>2 DEF OlderThan
  <2> QED BY <1>5, <2>1, <2>3, AdmittedSince DEF IInv
<1> HIDE DEF n
<1>6. CASE n < Limit
  <2>1. /\ bucket' = Append(Recent, clock)
        /\ MemoryAdmitted' = MemoryAdmitted \cup {r} /\ r \notin MemoryAdmitted
    BY <1>6, FallbackStep DEF n
  <2>2. /\ bucket' \in Seq(Time) /\ Len(bucket') = n + 1 /\ DOMAIN bucket' = 1..(n + 1)
        /\ \A i \in 1..n : bucket'[i] = Recent[i]
        /\ bucket'[n + 1] = clock
    <3>1. /\ bucket' \in Seq(Time) /\ Len(bucket') = n + 1
          /\ \A i \in 1..n : bucket'[i] = Recent[i]
          /\ bucket'[n + 1] = clock
      BY <1>1, <1>2, <2>1, AppendProperties DEF n
    <3> QED BY <3>1, LenProperties
  <2>3. Len(bucket') <= Limit
    BY <1>1, <1>2, <1>6, <2>2
  <2>4. ASSUME NEW i \in DOMAIN bucket'
        PROVE  bucket'[i] <= clock' /\ \A j \in DOMAIN bucket' : i < j => bucket'[i] <= bucket'[j]
    <3>1. i \in 1..n \/ i = n + 1
      BY <1>2, <2>2
    <3>2. bucket'[i] <= clock'
      BY <1>1, <1>2, <1>4, <2>2, <3>1
    <3>3. ASSUME NEW j \in DOMAIN bucket', i < j PROVE bucket'[i] <= bucket'[j]
      <4>1. i \in 1..n /\ (j \in 1..n \/ j = n + 1)
        BY <1>2, <2>2, <3>3
      <4>2. CASE j \in 1..n
        BY <1>4, <2>2, <3>3, <4>1, <4>2
      <4>3. CASE j = n + 1
        BY <1>1, <2>2, <3>2, <4>3
      <4> QED BY <4>1, <4>2, <4>3
    <3> QED BY <3>2, <3>3
  <2>5. IsFiniteSet(MemoryAdmitted')
    BY <2>1, FS_AddElement DEF IInv, BucketInv
  <2>6. ASSUME NEW x \in 0..clock', NEW k \in 0..Len(bucket'), x + Window >= clock',
               OlderThan(x, k)'
        PROVE  Cardinality(MemoryAdmittedSince(x)') = Len(bucket') - k
    <3>1. ~(n + 1 <= k)
      BY <1>1, <1>2, <2>2, <2>6 DEF OlderThan
    <3>2. k \in 0..n
      BY <1>2, <2>2, <3>1
    <3>3. \A i \in 1..n : i <= k <=> Recent[i] < x
      BY <1>2, <2>2, <2>6 DEF OlderThan
    <3>4. Cardinality(MemoryAdmittedSince(x)) = n - k
      BY <1>1, <1>5, <2>6, <3>2, <3>3
    <3>5. MemoryAdmittedSince(x)' = MemoryAdmittedSince(x) \cup {r}
      <4>1. \A q \in MemoryAdmitted : call'[q] = call[q]
        BY <1>1, <2>1 DEF MemoryAdmitted
      <4>2. call'[r].at >= x
        BY <1>1
      <4> QED BY <2>1, <4>1, <4>2 DEF MemoryAdmittedSince
    <3>6. IsFiniteSet(MemoryAdmittedSince(x)) /\ r \notin MemoryAdmittedSince(x)
      BY <2>1, FS_Subset DEF MemoryAdmittedSince, IInv, BucketInv
    <3>7. Cardinality(MemoryAdmittedSince(x)') = Cardinality(MemoryAdmittedSince(x)) + 1
      BY <3>5, <3>6, FS_AddElement
    <3> QED BY <1>2, <2>2, <3>2, <3>4, <3>7
  <2> QED BY <2>2, <2>3, <2>4, <2>5, <2>6 DEF BucketInv
<1>7. CASE ~(n < Limit)
  <2>1. bucket' = Recent /\ MemoryAdmitted' = MemoryAdmitted
    BY <1>7, FallbackStep DEF n
  <2>2. bucket' \in Seq(Time) /\ Len(bucket') = n /\ DOMAIN bucket' = 1..n
    BY <1>2, <2>1 DEF n
  <2>3. Len(bucket') <= Limit
    BY <1>1, <1>2, <1>3, <2>2 DEF IInv, BucketInv
  <2>4. ASSUME NEW i \in DOMAIN bucket'
        PROVE  bucket'[i] <= clock' /\ \A j \in DOMAIN bucket' : i < j => bucket'[i] <= bucket'[j]
    BY <1>1, <1>4, <2>1, <2>2
  <2>5. IsFiniteSet(MemoryAdmitted')
    BY <2>1 DEF IInv, BucketInv
  <2>6. ASSUME NEW x \in 0..clock', NEW k \in 0..Len(bucket'), x + Window >= clock',
               OlderThan(x, k)'
        PROVE  Cardinality(MemoryAdmittedSince(x)') = Len(bucket') - k
    <3>1. \A i \in 1..n : i <= k <=> Recent[i] < x
      BY <2>1, <2>2, <2>6 DEF OlderThan
    <3>2. Cardinality(MemoryAdmittedSince(x)) = n - k
      BY <1>1, <1>5, <2>2, <2>6, <3>1
    <3>3. MemoryAdmittedSince(x)' = MemoryAdmittedSince(x)
      <4>1. \A q \in MemoryAdmitted : call'[q] = call[q]
        BY <1>1, <2>1, FallbackStep DEF MemoryAdmitted
      <4> QED BY <2>1, <4>1 DEF MemoryAdmittedSince
    <3> QED BY <2>2, <3>2, <3>3
  <2> QED BY <2>2, <2>3, <2>4, <2>5, <2>6 DEF BucketInv
<1> QED BY <1>6, <1>7

\* A window that refuses is full of calls that leave it at the reset time or later.
LEMMA MemoryRefuses ==
    ASSUME IInv, NEW r \in Requests, Fallback(r), ~(Len(Recent) < Limit)
    PROVE  /\ Recent[1] \in Nat /\ Recent[1] + Window >= clock
           /\ Cardinality(MemoryAdmittedSince(Recent[1])) >= Limit
           /\ Cardinality({p \in MemoryAdmitted : call[p].at + Window >= clock}) >= Limit
<1>1. /\ clock \in Nat /\ Window \in Nat /\ Limit \in Nat /\ Limit >= 1
      /\ Recent \in Seq(Time) /\ bucket \in Seq(Time)
  BY TimeIsFinite, ConstantsAssumption, RecentProperties DEF IInv, TypeOK
<1>2. /\ Len(Recent) \in Nat /\ DOMAIN Recent = 1..Len(Recent)
      /\ Len(bucket) \in Nat /\ DOMAIN bucket = 1..Len(bucket)
  BY <1>1, LenProperties
<1>3. \A i \in DOMAIN bucket : bucket[i] \in Nat /\ bucket[i] <= clock
  BY <1>1, <1>2, ElementOfSeq, TimeIsFinite DEF IInv, BucketInv
<1>4. PICK m \in 0..Len(bucket) :
         /\ Len(Recent) = Len(bucket) - m
         /\ \A i \in 1..Len(Recent) : Recent[i] = bucket[m + i]
         /\ \A i \in 1..m : bucket[i] + Window < clock
         /\ \A i \in 1..Len(Recent) : Recent[i] + Window >= clock
  BY RecentProperties DEF IInv
<1> DEFINE x == Recent[1]
<1>5. /\ 1 \in 1..Len(Recent) /\ m + 1 \in DOMAIN bucket /\ x = bucket[m + 1]
      /\ x + Window >= clock
  BY <1>1, <1>2, <1>4
<1>6. x \in Nat /\ x \in 0..clock
  BY <1>1, <1>3, <1>5
<1> HIDE DEF x
<1>7. OlderThan(x, m)
  <2>1. ASSUME NEW i \in DOMAIN bucket, i <= m PROVE bucket[i] < x
    <3>1. i \in 1..m /\ bucket[i] \in Nat
      BY <1>2, <1>3, <1>4, <2>1
    <3>2. bucket[i] + Window < clock
      BY <1>4, <3>1
    <3> QED BY <1>1, <1>5, <1>6, <3>1, <3>2, Ages, Zenon
  <2>2. ASSUME NEW i \in DOMAIN bucket, ~(i <= m) PROVE ~(bucket[i] < x)
    <3>1. i = m + 1 \/ m + 1 < i
      BY <1>2, <1>4, <2>2
    <3>2. bucket[m + 1] <= bucket[i]
      BY <1>3, <1>5, <3>1 DEF IInv, BucketInv
    <3> QED BY <1>3, <1>5, <3>2
  <2> QED BY <2>1, <2>2 DEF OlderThan
<1>8. Cardinality(MemoryAdmittedSince(x)) = Len(bucket) - m
  BY <1>5, <1>6, <1>7, AdmittedSince DEF IInv
<1>9. Cardinality(MemoryAdmittedSince(x)) >= Limit
  BY <1>1, <1>2, <1>4, <1>8
<1>10. Cardinality({p \in MemoryAdmitted : call[p].at + Window >= clock}) >= Limit
  <2> DEFINE A == {p \in MemoryAdmitted : call[p].at + Window >= clock}
  <2>1. \A p \in MemoryAdmitted : call[p].at \in Nat
    BY TimeIsFinite DEF MemoryAdmitted, IInv, TypeOK, Call
  <2>2. MemoryAdmittedSince(x) \subseteq A
    <3>1. ASSUME NEW p \in MemoryAdmitted, call[p].at >= x PROVE call[p].at + Window >= clock
      <4>1. call[p].at \in Nat
        BY <2>1
      <4> QED BY <1>1, <1>5, <1>6, <3>1, <4>1, Ages, SMT
    <3> QED BY <3>1 DEF MemoryAdmittedSince
  <2>3. IsFiniteSet(A)
    BY FS_Subset DEF IInv, BucketInv
  <2> HIDE DEF A
  <2>4. Cardinality(MemoryAdmittedSince(x)) <= Cardinality(A) /\ Cardinality(A) \in Nat
        /\ Cardinality(MemoryAdmittedSince(x)) \in Nat
    BY <2>2, <2>3, Larger
  <2>5. Cardinality(A) >= Limit
    BY <1>1, <1>9, <2>4
  <2> QED BY <2>5 DEF A
<1> QED BY <1>5, <1>6, <1>9, <1>10 DEF x

\* A window that admits has room: fewer than Limit calls since any time in it.
LEMMA MemoryAdmits ==
    ASSUME IInv, NEW r \in Requests, Fallback(r), Len(Recent) < Limit,
           NEW x \in 0..clock, x + Window >= clock
    PROVE  Cardinality(MemoryAdmittedSince(x)) < Limit
<1>1. /\ clock \in Nat /\ Window \in Nat /\ Limit \in Nat /\ x \in Nat
      /\ Recent \in Seq(Time) /\ bucket \in Seq(Time)
  BY TimeIsFinite, ConstantsAssumption, RecentProperties DEF IInv, TypeOK
<1>2. /\ Len(Recent) \in Nat /\ Len(bucket) \in Nat /\ DOMAIN bucket = 1..Len(bucket)
  BY <1>1, LenProperties
<1>3. \A i \in DOMAIN bucket : bucket[i] \in Nat
  BY <1>1, <1>2, ElementOfSeq, TimeIsFinite
<1>4. PICK m \in 0..Len(bucket) :
         Len(Recent) = Len(bucket) - m /\ \A i \in 1..m : bucket[i] + Window < clock
  BY RecentProperties DEF IInv
<1>5. PICK k \in 0..Len(bucket) : OlderThan(x, k)
  BY <1>1, OlderFront DEF IInv
<1>6. Cardinality(MemoryAdmittedSince(x)) = Len(bucket) - k
  BY <1>5, AdmittedSince DEF IInv
<1>7. m <= k
  <2>1. CASE m = 0
    BY <1>2, <1>5, <2>1
  <2>2. CASE m # 0
    <3>1. m \in 1..m /\ m \in DOMAIN bucket
      BY <1>2, <1>4, <2>2
    <3>2. bucket[m] + Window < clock /\ bucket[m] \in Nat
      BY <1>3, <1>4, <3>1
    <3>3. bucket[m] < x
      BY <1>1, <3>2, Ages, Zenon
    <3> QED BY <1>5, <3>1, <3>3 DEF OlderThan
  <2> QED BY <2>1, <2>2
<1> QED BY <1>1, <1>2, <1>4, <1>5, <1>6, <1>7

LEMMA FallbackKeeps == ASSUME IInv, NEW r \in Requests, Fallback(r) PROVE IInv'
<1>1. /\ call[r].pc = "failed" /\ clock \in Time /\ UNCHANGED <<clock, zset, expiry>>
      /\ \A q \in Requests \ {r} : call'[q] = call[q]
      /\ call'[r].pc \in {"admitted", "refused"}
      /\ call'[r].by = "memory" /\ call'[r].at = clock
      /\ call'[r].stamp = call[r].stamp
      /\ CountedStamps' = CountedStamps /\ call' \in [Requests -> Call]
  BY FallbackStep
<1>2. TypeOK'
  BY <1>1, FallbackBucket DEF IInv, TypeOK
<1>3. CallInv'
  <2>1. clock \in Nat
    BY <1>1, TimeIsFinite
  <2> QED BY <1>1, <2>1 DEF IInv, CallInv
<1>4. SetInv'
  BY <1>1 DEF IInv, SetInv
<1>5. BucketInv'
  BY FallbackBucket
<1>6. ASSUME call'[r].pc = "refused" PROVE FullUntilReset(r)'
  <2>1. /\ ~(Len(Recent) < Limit) /\ MemoryAdmitted' = MemoryAdmitted
        /\ call'[r].reset = Recent[1] + Window
    BY <1>6, FallbackStep
  <2>2. Recent[1] \in Nat /\ Cardinality(MemoryAdmittedSince(Recent[1])) >= Limit
    BY <2>1, MemoryRefuses
  <2>3. {p \in MemoryAdmitted' : call'[p].at + Window >= call'[r].reset}
          = MemoryAdmittedSince(Recent[1])
    <3>1. ASSUME NEW p \in MemoryAdmitted
          PROVE  call'[p].at + Window >= call'[r].reset <=> call[p].at >= Recent[1]
      <4>1. p # r /\ call'[p] = call[p] /\ call[p].at \in Nat
        BY <1>1, TimeIsFinite DEF MemoryAdmitted, IInv, TypeOK, Call
      <4>2. Window \in Nat /\ Recent[1] \in Nat
        BY <2>2, ConstantsAssumption
      <4>3. call[p].at + Window >= Recent[1] + Window <=> call[p].at >= Recent[1]
        BY <4>1, <4>2, Ages, Zenon
      <4> QED BY <2>1, <4>1, <4>3, Zenon
    <3> QED BY <2>1, <3>1 DEF MemoryAdmittedSince
  <2> QED BY <1>1, <2>2, <2>3 DEF FullUntilReset
<1>7. RefusalInv'
  <2>1. CountedStamps' \subseteq Time
    BY <1>1, CountedAreTimes DEF IInv
  <2> QED BY <1>1, <1>5, <1>6, <2>1, RefusalInvKeeps DEF BucketInv
<1> QED BY <1>2, <1>3, <1>4, <1>5, <1>7 DEF IInv

-----------------------------------------------------------------------------
(* The inductive invariant *)

LEMMA InitInv == Init => IInv
<1> SUFFICES ASSUME Init PROVE IInv
  OBVIOUS
<1>1. 0 \in Time /\ Window \in Nat /\ Limit \in Nat
  BY ConstantsAssumption DEF Time
<1>2. TypeOK
  BY <1>1, ConstantsAssumption DEF Init, TypeOK, Call
<1>3. CountedStamps = {} /\ MemoryAdmitted = {} /\ \A x : MemoryAdmittedSince(x) = {}
  BY DEF Init, CountedStamps, MemoryAdmitted, MemoryAdmittedSince
<1>4. CallInv
  BY ConstantsAssumption DEF Init, CallInv
<1>5. SetInv
  BY <1>1, <1>3, FS_EmptySet DEF Init, SetInv
<1>6. BucketInv
  <2>1. bucket = <<>> /\ Len(bucket) = 0 /\ DOMAIN bucket = {}
    BY DEF Init
  <2>2. IsFiniteSet({}) /\ Cardinality({}) = 0
    BY FS_EmptySet
  <2>3. \A k \in 0..Len(bucket) : 0 = Len(bucket) - k
    BY <2>1
  <2>4. 0 <= Limit
    BY <1>1
  <2> QED BY <1>3, <2>1, <2>2, <2>3, <2>4, Zenon DEF BucketInv
<1>7. RefusalInv
  BY DEF Init, RefusalInv
<1> QED BY <1>2, <1>4, <1>5, <1>6, <1>7 DEF IInv

LEMMA NextInv == IInv /\ [Next]_vars => IInv'
<1> SUFFICES ASSUME IInv, [Next]_vars PROVE IInv'
  OBVIOUS
<1>1. ASSUME NEW r \in Requests, Send(r) PROVE IInv'
  BY <1>1, SendKeeps
<1>2. ASSUME NEW r \in Requests, RedisDecides(r) PROVE IInv'
  BY <1>2, RedisDecidesKeeps
<1>3. ASSUME NEW r \in Requests, RedisUnreachable(r) PROVE IInv'
  BY <1>3, RedisUnreachableKeeps
<1>4. ASSUME NEW r \in Requests, RedisReplyLost(r) PROVE IInv'
  BY <1>4, RedisReplyLostKeeps
<1>5. ASSUME NEW r \in Requests, Fallback(r) PROVE IInv'
  BY <1>5, FallbackKeeps
<1>6. CASE Tick
  BY <1>6, TickKeeps
<1>7. CASE UNCHANGED vars
  <2>1. UNCHANGED <<clock, zset, expiry, bucket, call>>
    BY <1>7 DEF vars
  <2>2. CountedStamps' = CountedStamps /\ MemoryAdmitted' = MemoryAdmitted
    BY <2>1, Zenon DEF CountedStamps, MemoryAdmitted
  <2>3. TypeOK'
    BY <2>1, Zenon DEF IInv, TypeOK
  <2>4. CallInv'
    BY <2>1, Zenon DEF IInv, CallInv
  <2>5. SetInv'
    BY <2>1, <2>2, Zenon DEF IInv, SetInv
  <2>6. BucketInv'
    BY <2>1, <2>2, BucketKeeps
  <2>7. RefusalInv'
    BY <2>1, <2>2, Zenon DEF IInv, RefusalInv
  <2> QED BY <2>3, <2>4, <2>5, <2>6, <2>7 DEF IInv
<1> QED BY <1>1, <1>2, <1>3, <1>4, <1>5, <1>6, <1>7 DEF Next

\* The strengthening of the limits holds in every reachable state: what Redis
\* and the deque have forgotten is too old to matter.
THEOREM Inductive == Spec => []IInv
<1>1. Init => IInv
  BY InitInv
<1>2. IInv /\ [Next]_vars => IInv'
  BY NextInv
<1> QED BY <1>1, <1>2, PTL DEF Spec

\* The stamps, the scores and the reset times of check stay in their ranges.
THEOREM TypeCorrect == Spec => []TypeOK
<1>1. IInv => TypeOK
  BY DEF IInv
<1> QED BY <1>1, Inductive, PTL

-----------------------------------------------------------------------------
(* What the windows promise *)

\* The three limits, each true at the start and kept by every step.
WindowCounts(t) == {s \in CountedStamps : s <= t /\ t < s + Window - MaxDelay}

CoveredBy(t) == {r \in MemoryAdmitted : call[r].at <= t /\ t <= call[r].at + Window}

\* When the script admits, the window of any t that holds the new stamp holds no
\* stamp that the set has lost, so the set itself is the bound.
LEMMA ScriptKeepsLimit ==
    ASSUME IInv, NEW r \in Requests, call[r].pc = "sent", Script(r), clock' = clock,
           \A q \in Requests \ {r} : call'[q] = call[q],
           call'[r].stamp = call[r].stamp,
           call'[r].counted = ScriptAdmits(call[r].stamp),
           RedisWindowLimit
    PROVE  RedisWindowLimit'
<1> DEFINE s == call[r].stamp
<1>1. /\ s \in Time /\ s \in Nat /\ s <= clock /\ clock <= s + MaxDelay /\ clock \in Nat
      /\ Window \in Nat /\ MaxDelay \in Nat /\ Limit \in Nat
  <2>1. s \in Time /\ s <= clock /\ clock <= s + MaxDelay
    BY SentCall
  <2>2. clock \in Nat /\ s \in Nat
    BY <2>1, TimeIsFinite DEF IInv, TypeOK
  <2> QED BY <2>1, <2>2, ConstantsAssumption
<1>2. /\ CountedStamps' = IF ScriptAdmits(s) THEN CountedStamps \cup {s} ELSE CountedStamps
      /\ zset' \subseteq Time /\ SetInv' /\ CountedStamps \subseteq Nat
  BY ScriptCounts, CountedAreTimes, TimeIsFinite DEF IInv
<1>3. CASE ~ScriptAdmits(s)
  BY <1>2, <1>3 DEF RedisWindowLimit
<1>4. CASE ScriptAdmits(s)
  <2> SUFFICES ASSUME NEW t \in Time PROVE Cardinality(WindowCounts(t)') <= Limit
    BY DEF RedisWindowLimit, WindowCounts
  <2>1. t \in Nat /\ CountedStamps' = CountedStamps \cup {s}
    BY <1>2, <1>4, TimeIsFinite
  <2>2. CASE s <= t /\ t < s + Window - MaxDelay
    <3>1. zset' = Kept(s) \cup {s}
      BY <1>4 DEF Script
    <3>2. ASSUME NEW x \in WindowCounts(t)' PROVE x \in zset'
      <4>1. CASE x = s
        BY <3>1, <4>1
      <4>2. CASE x # s
        <5>1. x \in CountedStamps /\ x \in Nat /\ x <= t /\ t < x + Window - MaxDelay
          BY <1>2, <2>1, <3>2, <4>2 DEF WindowCounts
        <5>2. x + Window > clock /\ x + Window > s
          BY <1>1, <2>1, <2>2, <5>1
        <5>3. x \in zset
          BY <1>1, <5>1, <5>2 DEF IInv, SetInv
        <5> QED BY <3>1, <5>2, <5>3 DEF Kept
      <4> QED BY <4>1, <4>2
    <3>3. /\ WindowCounts(t)' \subseteq zset' /\ IsFiniteSet(zset') /\ Cardinality(zset') <= Limit
      BY <1>2, <3>2, TimeIsFinite DEF SetInv
    <3>4. /\ Cardinality(WindowCounts(t)') <= Cardinality(zset')
          /\ Cardinality(WindowCounts(t)') \in Nat /\ Cardinality(zset') \in Nat
      BY <3>3, Larger
    <3> QED BY <1>1, <3>3, <3>4
  <2>3. CASE ~(s <= t /\ t < s + Window - MaxDelay)
    <3>1. WindowCounts(t)' = WindowCounts(t)
      BY <2>1, <2>3 DEF WindowCounts
    <3> QED BY <3>1 DEF RedisWindowLimit, WindowCounts
  <2> QED BY <2>2, <2>3
<1> QED BY <1>3, <1>4

\* Redis counts at most Limit milliseconds in every window shortened by the delay
\* between a stamp and its script, whatever the order of the scripts.
THEOREM RedisLimited == Spec => []RedisWindowLimit
<1>1. Init => RedisWindowLimit
  <2> SUFFICES ASSUME Init PROVE RedisWindowLimit
    OBVIOUS
  <2>1. CountedStamps = {}
    BY DEF Init, CountedStamps
  <2> QED BY <2>1, FS_EmptySet, ConstantsAssumption DEF RedisWindowLimit
<1>2. IInv /\ RedisWindowLimit /\ [Next]_vars => RedisWindowLimit'
  <2> SUFFICES ASSUME IInv, RedisWindowLimit, [Next]_vars PROVE RedisWindowLimit'
    OBVIOUS
  <2>1. CASE CountedStamps' = CountedStamps
    BY <2>1 DEF RedisWindowLimit
  <2>2. ASSUME NEW r \in Requests, RedisDecides(r) PROVE RedisWindowLimit'
    BY <2>2, DecidesStep, ScriptKeepsLimit
  <2>3. ASSUME NEW r \in Requests, RedisReplyLost(r) PROVE RedisWindowLimit'
    BY <2>3, ReplyLostStep, ScriptKeepsLimit
  <2>4. ASSUME NEW r \in Requests, Send(r) PROVE CountedStamps' = CountedStamps
    BY <2>4, SendStep
  <2>5. ASSUME NEW r \in Requests, RedisUnreachable(r) PROVE CountedStamps' = CountedStamps
    BY <2>5, UnreachableStep
  <2>6. ASSUME NEW r \in Requests, Fallback(r) PROVE CountedStamps' = CountedStamps
    BY <2>6, FallbackStep
  <2>7. Tick \/ UNCHANGED vars => CountedStamps' = CountedStamps
    BY DEF Tick, vars, CountedStamps
  <2> QED BY <2>1, <2>2, <2>3, <2>4, <2>5, <2>6, <2>7 DEF Next
<1> QED BY <1>1, <1>2, Inductive, PTL DEF Spec

\* An admission fills a window that had room; older windows are what they were.
LEMMA FallbackKeepsLimit ==
    ASSUME IInv, NEW r \in Requests, Fallback(r), MemoryWindowLimit
    PROVE  MemoryWindowLimit'
<1>1. /\ clock' = clock /\ clock \in Nat /\ Window \in Nat /\ Limit \in Nat
      /\ \A q \in Requests \ {r} : call'[q] = call[q]
      /\ call'[r].at = clock
  BY FallbackStep, TimeIsFinite, ConstantsAssumption
<1>2. \A q \in MemoryAdmitted : call[q].at \in Nat /\ call[q].at <= clock /\ q # r
  BY FallbackStep, TimeIsFinite DEF MemoryAdmitted, IInv, TypeOK, Call, CallInv
<1>3. CASE ~(Len(Recent) < Limit)
  <2>1. MemoryAdmitted' = MemoryAdmitted /\ \A q \in MemoryAdmitted : call'[q] = call[q]
    BY <1>1, <1>2, <1>3, FallbackStep DEF MemoryAdmitted
  <2>2. \A t \in Time : CoveredBy(t)' = CoveredBy(t)
    BY <2>1 DEF CoveredBy
  <2> QED BY <2>2, Zenon DEF MemoryWindowLimit, CoveredBy
<1>4. CASE Len(Recent) < Limit
  <2> SUFFICES ASSUME NEW t \in Time PROVE Cardinality(CoveredBy(t)') <= Limit
    BY DEF MemoryWindowLimit, CoveredBy
  <2>1. /\ MemoryAdmitted' = MemoryAdmitted \cup {r} /\ t \in Nat
        /\ \A q \in MemoryAdmitted : call'[q] = call[q]
        /\ IsFiniteSet(MemoryAdmitted)
    <3>1. MemoryAdmitted' = MemoryAdmitted \cup {r}
      BY <1>4, FallbackStep
    <3>2. \A q \in MemoryAdmitted : call'[q] = call[q]
      BY <1>1, <1>2 DEF MemoryAdmitted
    <3>3. t \in Nat /\ IsFiniteSet(MemoryAdmitted)
      BY TimeIsFinite DEF IInv, BucketInv
    <3> QED BY <3>1, <3>2, <3>3
  <2>2. CASE ~(clock <= t /\ t <= clock + Window)
    <3>1. CoveredBy(t)' = CoveredBy(t)
      BY <1>1, <2>1, <2>2 DEF CoveredBy
    <3> QED BY <3>1, Zenon DEF MemoryWindowLimit, CoveredBy
  <2>3. CASE clock <= t /\ t <= clock + Window
    <3> DEFINE x == IF clock >= Window THEN clock - Window ELSE 0
    <3>1. x \in 0..clock /\ x + Window >= clock /\ \A a \in Nat : clock <= a + Window => a >= x
      BY <1>1
    <3> HIDE DEF x
    <3>2. Cardinality(MemoryAdmittedSince(x)) < Limit
      BY <1>4, <3>1, MemoryAdmits
    <3>3. IsFiniteSet(MemoryAdmittedSince(x)) /\ r \notin MemoryAdmittedSince(x)
      BY <1>2, <2>1, FS_Subset DEF MemoryAdmittedSince
    <3>4. CoveredBy(t)' \subseteq MemoryAdmittedSince(x) \cup {r}
      <4>1. ASSUME NEW q \in MemoryAdmitted, t <= call[q].at + Window
            PROVE  call[q].at >= x
        <5>1. clock <= call[q].at + Window
          BY <1>1, <1>2, <2>1, <2>3, <4>1
        <5> QED BY <1>2, <3>1, <5>1
      <4> QED BY <2>1, <4>1 DEF CoveredBy, MemoryAdmittedSince
    <3> DEFINE M == MemoryAdmittedSince(x)
               C == CoveredBy(t)'
    <3> HIDE DEF M, C
    <3>5. /\ IsFiniteSet(M \cup {r}) /\ Cardinality(M \cup {r}) = Cardinality(M) + 1
          /\ Cardinality(M) \in Nat /\ Cardinality(M) < Limit
      BY <3>2, <3>3, FS_AddElement, FS_CardinalityType DEF M
    <3>6. Cardinality(C) <= Cardinality(M \cup {r}) /\ Cardinality(C) \in Nat
      BY <3>4, <3>5, Larger DEF M, C
    <3>7. Cardinality(C) <= Limit
      BY <1>1, <3>5, <3>6
    <3> QED BY <3>7 DEF C
  <2> QED BY <2>2, <2>3
<1> QED BY <1>3, <1>4

\* The in-memory window admits at most Limit calls in any closed window, however
\* often Redis comes and goes between them.
THEOREM MemoryLimited == Spec => []MemoryWindowLimit
<1>1. Init => MemoryWindowLimit
  <2> SUFFICES ASSUME Init PROVE MemoryWindowLimit
    OBVIOUS
  <2>1. MemoryAdmitted = {}
    BY DEF Init, MemoryAdmitted
  <2> QED BY <2>1, FS_EmptySet, ConstantsAssumption DEF MemoryWindowLimit
<1>2. IInv /\ MemoryWindowLimit /\ [Next]_vars => MemoryWindowLimit'
  <2> SUFFICES ASSUME IInv, MemoryWindowLimit, [Next]_vars PROVE MemoryWindowLimit'
    OBVIOUS
  <2>1. ASSUME MemoryAdmitted' = MemoryAdmitted,
               \A q \in MemoryAdmitted : call'[q].at = call[q].at
        PROVE  MemoryWindowLimit'
    <3>1. \A t \in Time : CoveredBy(t)' = CoveredBy(t)
      BY <2>1 DEF CoveredBy
    <3> QED BY <3>1, Zenon DEF MemoryWindowLimit, CoveredBy
  <2>2. ASSUME NEW r \in Requests, Send(r) \/ RedisUnreachable(r) PROVE MemoryWindowLimit'
    BY <2>1, <2>2, SendStep, UnreachableStep DEF MemoryAdmitted
  <2>3. ASSUME NEW r \in Requests, RedisReplyLost(r) PROVE MemoryWindowLimit'
    BY <2>1, <2>3, ReplyLostStep DEF MemoryAdmitted
  <2>4. ASSUME NEW r \in Requests, RedisDecides(r) PROVE MemoryWindowLimit'
    BY <2>1, <2>4, DecidesStep DEF MemoryAdmitted
  <2>5. ASSUME NEW r \in Requests, Fallback(r) PROVE MemoryWindowLimit'
    BY <2>5, FallbackKeepsLimit
  <2>6. CASE Tick \/ UNCHANGED vars
    BY <2>1, <2>6 DEF Tick, vars, MemoryAdmitted
  <2> QED BY <2>2, <2>3, <2>4, <2>5, <2>6 DEF Next
<1> QED BY <1>1, <1>2, Inductive, PTL DEF Spec

\* Nobody is refused without cause, and what justified a refusal does not go away.
THEOREM RefusalsJustified == Spec => []RefusalJustified
<1> DEFINE J == \A q \in Requests : call[q].pc = "refused" => FullWhenRefused(q)
<1>1. Init => J
  BY DEF Init
<1>2. IInv /\ J /\ [Next]_vars => J'
  <2> SUFFICES ASSUME IInv, IInv', J, [Next]_vars, NEW q \in Requests, call'[q].pc = "refused"
               PROVE  FullWhenRefused(q)'
    BY NextInv
  <2>1. CountedStamps' \subseteq Time /\ IsFiniteSet(MemoryAdmitted')
    <3>1. TypeOK' => CountedStamps' \subseteq Time
      BY DEF TypeOK, Call, CountedStamps
    <3> QED BY <3>1 DEF IInv, BucketInv
  \* A step that does not refuse q: q was refused before, and stays so.
  <2>2. ASSUME NEW r \in Requests \ {q}, call[r].pc \notin {"admitted", "refused"},
               \A p \in Requests \ {r} : call'[p] = call[p],
               CountedStamps \subseteq CountedStamps'
        PROVE  FullWhenRefused(q)'
    BY <2>1, <2>2, RefusalsKeep
  <2>3. ASSUME NEW r \in Requests, Send(r) \/ RedisUnreachable(r) PROVE FullWhenRefused(q)'
    BY <2>2, <2>3, SendStep, UnreachableStep
  <2>4. ASSUME NEW r \in Requests, RedisReplyLost(r) PROVE FullWhenRefused(q)'
    <3>1. CountedStamps \subseteq CountedStamps'
      BY <2>4, ReplyLostStep, ScriptCounts DEF RedisReplyLost
    <3> QED BY <2>2, <2>4, <3>1, ReplyLostStep
  <2>5. ASSUME NEW r \in Requests, RedisDecides(r) PROVE FullWhenRefused(q)'
    <3>1. CountedStamps \subseteq CountedStamps'
      BY <2>5, DecidesStep, ScriptCounts
    <3>2. CASE q # r
      BY <2>2, <2>5, <3>1, <3>2, DecidesStep
    <3>3. CASE q = r
      <4> DEFINE s == call[r].stamp
      <4>1. /\ ~ScriptAdmits(s) /\ s \in Time /\ call'[r].stamp = s /\ call'[r].by = "redis"
        BY <2>5, <3>3, DecidesStep, SentCall
      <4>2. Cardinality(Kept(s)) >= Limit /\ Cardinality(Kept(s)) \in Nat
        BY <4>1, KeptProperties, ConstantsAssumption DEF ScriptAdmits, IInv
      <4>3. Kept(s) \subseteq {x \in CountedStamps' : x + Window > s}
        BY <3>1 DEF Kept, IInv, SetInv
      <4>4. IsFiniteSet({x \in CountedStamps' : x + Window > s})
        BY <2>1, TimeIsFinite
      <4>5. Cardinality({x \in CountedStamps' : x + Window > s}) >= Limit
        BY <4>2, <4>3, <4>4, Larger, ConstantsAssumption
      <4> QED BY <3>3, <4>1, <4>5 DEF FullWhenRefused
    <3> QED BY <3>2, <3>3
  <2>6. ASSUME NEW r \in Requests, Fallback(r) PROVE FullWhenRefused(q)'
    <3>1. /\ call[r].pc = "failed" /\ \A p \in Requests \ {r} : call'[p] = call[p]
          /\ CountedStamps' = CountedStamps /\ call'[r].by = "memory" /\ call'[r].at = clock
      BY <2>6, FallbackStep
    <3>2. CASE q # r
      BY <2>2, <3>1, <3>2
    <3>3. CASE q = r
      <4>1. ~(Len(Recent) < Limit) /\ MemoryAdmitted' = MemoryAdmitted
        BY <2>6, <3>3, FallbackStep
      <4>2. Cardinality({p \in MemoryAdmitted : call[p].at + Window >= clock}) >= Limit
        BY <2>6, <4>1, MemoryRefuses
      <4>3. \A p \in MemoryAdmitted : call'[p] = call[p]
        BY <3>1 DEF MemoryAdmitted
      <4>4. {p \in MemoryAdmitted' : call'[p].at + Window >= call'[r].at}
              = {p \in MemoryAdmitted : call[p].at + Window >= clock}
        BY <3>1, <4>1, <4>3
      <4> QED BY <3>1, <3>3, <4>2, <4>4 DEF FullWhenRefused
    <3> QED BY <3>2, <3>3
  <2>7. CASE Tick \/ UNCHANGED vars
    <3>1. call' = call /\ CountedStamps' = CountedStamps /\ MemoryAdmitted' = MemoryAdmitted
      BY <2>7 DEF Tick, vars, CountedStamps, MemoryAdmitted
    <3> QED BY <3>1 DEF FullWhenRefused
  <2> QED BY <2>3, <2>4, <2>5, <2>6, <2>7 DEF Next
<1>3. J => RefusalJustified
  BY DEF RefusalJustified, FullWhenRefused
<1> HIDE DEF J
<1> QED BY <1>1, <1>2, <1>3, Inductive, PTL DEF Spec

\* Once a call was refused until some time, no earlier call is admitted by the
\* same window (SlidingWindowLimiter.check, _InMemoryWindow.check): the stamp of
\* a script that Redis admits may be MaxDelay earlier, the in-memory window
\* admits after that time only.
THEOREM NoEarlyAdmission == Spec => NobodyBeforeReset
<1> DEFINE A == \A r, q \in Requests :
                    DecidedNow(r) /\ call[q].pc = "refused" /\ call'[r].by = call[q].by =>
                        IF call[q].by = "redis" THEN call[r].stamp + MaxDelay >= call[q].reset
                        ELSE clock > call[q].reset
<1>1. IInv /\ [Next]_vars => A
  <2> SUFFICES ASSUME IInv, [Next]_vars, NEW r \in Requests, NEW q \in Requests,
                      DecidedNow(r), call[q].pc = "refused", call'[r].by = call[q].by
               PROVE  IF call[q].by = "redis" THEN call[r].stamp + MaxDelay >= call[q].reset
                      ELSE clock > call[q].reset
    OBVIOUS
  <2>1. call[q].reset \in Nat /\ clock \in Nat /\ Window \in Nat /\ Limit \in Nat /\ MaxDelay \in Nat
    BY TimeIsFinite, ConstantsAssumption DEF IInv, TypeOK, Call
  <2>2. call'[r].pc = "admitted" /\ call[r].pc \in {"sent", "failed"}
    BY DEF DecidedNow
  <2>3. RedisDecides(r) \/ Fallback(r)
    <3>1. ASSUME NEW p \in Requests, Send(p) \/ RedisUnreachable(p) PROVE FALSE
      BY <2>2, <3>1, SendStep, UnreachableStep
    <3>2. ASSUME NEW p \in Requests, RedisReplyLost(p) PROVE FALSE
      BY <2>2, <3>2, ReplyLostStep
    <3>3. ASSUME NEW p \in Requests, RedisDecides(p), p # r PROVE FALSE
      BY <2>2, <3>3, DecidesStep
    <3>4. ASSUME NEW p \in Requests, Fallback(p), p # r PROVE FALSE
      BY <2>2, <3>4, FallbackStep
    <3>5. CASE Tick \/ UNCHANGED vars
      BY <2>2, <3>5 DEF Tick, vars
    <3> QED BY <3>1, <3>2, <3>3, <3>4, <3>5 DEF Next
  <2>4. CASE RedisDecides(r)
    <3> DEFINE s == call[r].stamp
               y == call[q].reset
               F == {x \in CountedStamps : x + Window >= y}
    <3>1. /\ call[q].by = "redis" /\ ScriptAdmits(s) /\ s \in Time
          /\ s <= clock /\ clock <= s + MaxDelay /\ call[r].pc = "sent"
      BY <2>2, <2>4, DecidesStep, SentCall
    <3>2. s \in Nat /\ CountedStamps \subseteq Nat
      BY <3>1, CountedAreTimes, TimeIsFinite DEF IInv
    <3>3. Cardinality(F) >= Limit
      BY <3>1 DEF IInv, RefusalInv
    <3>4. ASSUME ~(s + MaxDelay >= y) PROVE FALSE
      <4>1. ASSUME NEW x \in F PROVE x \in Kept(s)
        <5>1. x \in CountedStamps /\ x \in Nat /\ x + Window >= y
          BY <3>2
        <5>2. x + Window > clock /\ x + Window > s
          BY <2>1, <3>1, <3>2, <3>4, <5>1
        <5>3. x \in zset
          BY <2>1, <5>1, <5>2 DEF IInv, SetInv
        <5> QED BY <5>2, <5>3 DEF Kept
      <4>2. IsFiniteSet(Kept(s)) /\ Cardinality(Kept(s)) < Limit
        BY <3>1, KeptProperties DEF IInv, ScriptAdmits
      <4>3. F \subseteq Kept(s)
        BY <4>1
      <4> HIDE DEF F
      <4>4. /\ Cardinality(F) <= Cardinality(Kept(s))
            /\ Cardinality(F) \in Nat /\ Cardinality(Kept(s)) \in Nat
        BY <4>2, <4>3, Larger
      <4> QED BY <2>1, <3>3, <4>2, <4>4
    <3> QED BY <3>1, <3>4
  <2>5. CASE Fallback(r)
    <3> DEFINE y == call[q].reset
    <3>1. call[q].by = "memory" /\ Len(Recent) < Limit
      BY <2>2, <2>5, FallbackStep
    <3>2. Cardinality({p \in MemoryAdmitted : call[p].at + Window >= y}) >= Limit
      BY <3>1 DEF IInv, RefusalInv
    <3>3. ASSUME ~(clock > y) PROVE FALSE
      <4> DEFINE x == IF y >= Window THEN y - Window ELSE 0
      <4>1. /\ \A p \in MemoryAdmitted : call[p].at \in Nat /\ call[p].at <= clock
        BY TimeIsFinite DEF MemoryAdmitted, IInv, TypeOK, Call, CallInv
      <4>2. x \in Nat /\ x + Window >= clock /\ \A a \in Nat : a + Window >= y <=> a >= x
        BY <2>1, <3>3
      <4> HIDE DEF x
      <4>3. {p \in MemoryAdmitted : call[p].at + Window >= y} = MemoryAdmittedSince(x)
        BY <4>1, <4>2 DEF MemoryAdmittedSince
      <4>4. CASE x <= clock
        <5>1. x \in 0..clock
          BY <2>1, <4>2, <4>4
        <5>2. Cardinality(MemoryAdmittedSince(x)) < Limit
          BY <2>5, <3>1, <4>2, <5>1, MemoryAdmits
        <5>3. Cardinality(MemoryAdmittedSince(x)) \in Nat
          <6>1. MemoryAdmittedSince(x) \subseteq MemoryAdmitted /\ IsFiniteSet(MemoryAdmitted)
            BY DEF MemoryAdmittedSince, IInv, BucketInv
          <6> QED BY <6>1, Larger
        <5>4. Cardinality(MemoryAdmittedSince(x)) >= Limit
          BY <3>2, <4>3, Zenon
        <5> DEFINE n == Cardinality(MemoryAdmittedSince(x))
        <5> HIDE DEF n
        <5>5. n < Limit /\ n \in Nat /\ n >= Limit
          BY <5>2, <5>3, <5>4 DEF n
        <5> QED BY <2>1, <5>5
      <4>5. CASE ~(x <= clock)
        <5>1. MemoryAdmittedSince(x) = {}
          BY <2>1, <4>1, <4>2, <4>5 DEF MemoryAdmittedSince
        <5>2. Cardinality(MemoryAdmittedSince(x)) = 0
          BY <5>1, FS_EmptySet
        <5>3. Cardinality(MemoryAdmittedSince(x)) >= Limit
          BY <3>2, <4>3, Zenon
        <5>4. ~(0 >= Limit)
          BY ConstantsAssumption
        <5> QED BY <5>2, <5>3, <5>4, Zenon
      <4> QED BY <4>4, <4>5
    <3> QED BY <2>1, <3>1, <3>3
  <2> QED BY <2>3, <2>4, <2>5
<1> QED BY <1>1, Inductive, PTL DEF Spec, NobodyBeforeReset

=============================================================================
