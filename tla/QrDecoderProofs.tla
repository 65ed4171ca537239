--------------------------- MODULE QrDecoderProofs ---------------------------
(* What holds of QrDecoder for any number of threads. *)
EXTENDS QrDecoder, TLAPS

\* The initial states satisfy the invariant.
LEMMA InitIInv == Init => IInv
<1> SUFFICES ASSUME Init PROVE IInv
  OBVIOUS
<1>1. Idle \in Thread /\ Idle.pc = "idle" /\ ~Idle.late
  BY DEF Idle, Thread, Steps
<1>2. \A t \in Threads : thread[t] = Idle
  BY DEF Init
<1>3. TypeOK
  BY <1>1 DEF Init, TypeOK
<1>4. DecoderInv /\ LockInv /\ LoadInv
  BY <1>1, <1>2, NoneAssumption DEF Init, DecoderInv, LockInv, LoadInv
<1>5. LateInv
  BY <1>1, <1>2 DEF LateInv
<1> QED
  BY <1>3, <1>4, <1>5 DEF IInv

\* A step of one thread leaves the others where they were.
LEMMA GotoOthers ==
    ASSUME TypeOK, NEW t \in Threads, NEW pc \in Steps, Goto(t, pc)
    PROVE  /\ thread' \in [Threads -> Thread]
           /\ thread'[t].pc = pc /\ thread'[t].late = thread[t].late
           /\ \A u \in Threads \ {t} : thread'[u] = thread[u]
  BY DEF TypeOK, Goto, Thread

\* The same for the end of a decode.
LEMMA ReturnOthers ==
    ASSUME TypeOK, NEW t \in Threads, Return(t)
    PROVE  /\ thread' \in [Threads -> Thread]
           /\ thread'[t].pc = "idle" /\ thread'[t].late = FALSE
           /\ \A u \in Threads \ {t} : thread'[u] = thread[u]
  BY DEF TypeOK, Return, Thread, Idle, Steps

\* Every step preserves the invariant.
LEMMA NextIInv == IInv /\ [Next]_vars => IInv'
<1> SUFFICES ASSUME IInv, [Next]_vars PROVE IInv'
  OBVIOUS
<1> USE NoneAssumption DEF IInv
<1>1. CASE UNCHANGED vars
  BY <1>1 DEF vars, TypeOK, DecoderInv, LockInv, LoadInv, LateInv
<1>2. ASSUME NEW t \in Threads, Decode(t) PROVE IInv'
  <2>1. /\ thread' \in [Threads -> Thread]
        /\ thread'[t].pc \in {"opencv", "makeDecoder"} /\ thread'[t].late = attempted
        /\ \A u \in Threads \ {t} : thread'[u] = thread[u]
    BY <1>2 DEF Decode, TypeOK, Thread, Steps
  <2>2. thread[t].pc = "idle"
    BY <1>2 DEF Decode
  <2> QED
    BY <1>2, <2>1, <2>2
       DEF Decode, getDecoderVars, modelVars, TypeOK, DecoderInv, LockInv, LoadInv, LateInv
<1>3. ASSUME NEW t \in Threads, LockDecoder(t) PROVE IInv'
  BY <1>3 DEF LockDecoder, modelVars, TypeOK, DecoderInv, LockInv, LoadInv, LateInv
<1>4. ASSUME NEW t \in Threads, MakeDecoder(t) PROVE IInv'
  <2>1. Goto(t, "opencv") /\ thread[t].pc = "makeDecoder"
    BY <1>4 DEF MakeDecoder
  <2> QED
    BY <1>4, <2>1, GotoOthers
       DEF MakeDecoder, modelVars, TypeOK, DecoderInv, LockInv, LoadInv, LateInv, Steps
<1>5. ASSUME NEW t \in Threads, OpencvEnds(t) \/ FinishDecode(t) PROVE IInv'
  <2>1. Return(t) /\ thread[t].pc \in {"opencv", "detect", "noModel"}
    BY <1>5 DEF OpencvEnds, FinishDecode
  <2>2. UNCHANGED <<decoder, decoderLock, made, qreader, attempted, lock, loads>>
    BY <1>5 DEF OpencvEnds, FinishDecode, getDecoderVars, modelVars
  <2>3. /\ thread' \in [Threads -> Thread]
        /\ thread'[t].pc = "idle" /\ thread'[t].late = FALSE
        /\ \A u \in Threads \ {t} : thread'[u] = thread[u]
    BY <2>1, ReturnOthers
  <2>4. TypeOK' /\ DecoderInv'
    BY <2>2, <2>3 DEF TypeOK, DecoderInv
  <2>5. LockInv' /\ LateInv'
    BY <2>1, <2>2, <2>3 DEF LockInv, LateInv
  <2>6. LoadInv'
    BY <2>1, <2>2, <2>3 DEF LoadInv
  <2> QED
    BY <2>4, <2>5, <2>6
<1>6. ASSUME NEW t \in Threads, OpencvFindsNothing(t) PROVE IInv'
  <2>1. Goto(t, "readModel") /\ thread[t].pc = "opencv"
    BY <1>6 DEF OpencvFindsNothing
  <2> QED
    BY <1>6, <2>1, GotoOthers
       DEF OpencvFindsNothing, getDecoderVars, modelVars,
           TypeOK, DecoderInv, LockInv, LoadInv, LateInv, Steps
<1>7. ASSUME NEW t \in Threads, ReadModel(t) PROVE IInv'
  <2>1. Goto(t, IF qreader THEN "detect" ELSE "readAttempted") /\ thread[t].pc = "readModel"
    BY <1>7 DEF ReadModel
  <2> QED
    BY <1>7, <2>1, GotoOthers
       DEF ReadModel, getDecoderVars, modelVars,
           TypeOK, DecoderInv, LockInv, LoadInv, LateInv, Steps
<1>8. ASSUME NEW t \in Threads, ReadAttempted(t) PROVE IInv'
  <2>1. Goto(t, IF attempted THEN "noModel" ELSE "lockModel") /\ thread[t].pc = "readAttempted"
    BY <1>8 DEF ReadAttempted
  <2> QED
    BY <1>8, <2>1, GotoOthers
       DEF ReadAttempted, getDecoderVars, modelVars,
           TypeOK, DecoderInv, LockInv, LoadInv, LateInv, Steps
<1>9. ASSUME NEW t \in Threads, LockModel(t) PROVE IInv'
  <2>1. CASE attempted
    <3>1. Goto(t, IF qreader THEN "detect" ELSE "noModel") /\ thread[t].pc = "lockModel"
      BY <1>9, <2>1 DEF LockModel
    <3> QED
      BY <1>9, <2>1, <3>1, GotoOthers
         DEF LockModel, getDecoderVars, TypeOK, DecoderInv, LockInv, LoadInv, LateInv, Steps
  <2>2. CASE ~attempted
    <3>1. Goto(t, "load") /\ thread[t].pc = "lockModel" /\ lock = None /\ lock' = t
      BY <1>9, <2>2 DEF LockModel
    <3> QED
      BY <1>9, <2>2, <3>1, GotoOthers
         DEF LockModel, getDecoderVars, TypeOK, DecoderInv, LockInv, LoadInv, LateInv, Steps
  <2> QED
    BY <2>1, <2>2 DEF TypeOK
<1>10. ASSUME NEW t \in Threads, ImportFails(t) PROVE IInv'
  <2>1. Goto(t, "noModel") /\ thread[t].pc = "load"
    BY <1>10 DEF ImportFails
  <2> QED
    BY <1>10, <2>1, GotoOthers
       DEF ImportFails, getDecoderVars, TypeOK, DecoderInv, LockInv, LoadInv, LateInv, Steps
<1>11. ASSUME NEW t \in Threads, Load(t) PROVE IInv'
  <2>1. Goto(t, "mark") /\ thread[t].pc = "load"
    BY <1>11 DEF Load
  <2> QED
    BY <1>11, <2>1, GotoOthers
       DEF Load, getDecoderVars, TypeOK, DecoderInv, LockInv, LoadInv, LateInv, Steps
<1>12. ASSUME NEW t \in Threads, Mark(t) PROVE IInv'
  <2>1. Goto(t, IF qreader THEN "detect" ELSE "noModel") /\ thread[t].pc = "mark"
    BY <1>12 DEF Mark
  <2> QED
    BY <1>12, <2>1, GotoOthers
       DEF Mark, getDecoderVars, TypeOK, DecoderInv, LockInv, LoadInv, LateInv, Steps
<1> QED
  BY <1>1, <1>2, <1>3, <1>4, <1>5, <1>6, <1>7, <1>8, <1>9, <1>10, <1>11, <1>12 DEF Next, Run

\* The invariant holds in every reachable state.
THEOREM Inductive == Spec => []IInv
  BY InitIInv, NextIInv, PTL DEF Spec

\* Every variable has its type, for any number of threads.
THEOREM TypeCorrect == Spec => []TypeOK
<1>1. IInv => TypeOK
  BY DEF IInv
<1> QED
  BY <1>1, Inductive, PTL

\* One QrDecoder is made and its model loaded at most once, for any number of
\* threads (get_decoder, _ensure_qreader).
THEOREM OnceOnly == Spec => []MadeAndLoadedOnce
<1>1. IInv => MadeAndLoadedOnce
  BY DEF IInv, DecoderInv, LoadInv, MadeAndLoadedOnce
<1> QED
  BY <1>1, Inductive, PTL

\* A decode that begins after the model was loaded finds it (_ensure_qreader).
THEOREM LateFindsModel == Spec => []LateDecodesFindModel
<1>1. IInv => LateDecodesFindModel
  BY DEF IInv, LateInv, LateDecodesFindModel
<1> QED
  BY <1>1, Inductive, PTL

\* The verdict on the model never changes (_ensure_qreader).
THEOREM VerdictSettled == Spec => SettledForGood
<1>1. IInv /\ [Next]_vars => [attempted => qreader' = qreader /\ attempted']_vars
  <2> SUFFICES ASSUME IInv, Next, attempted PROVE qreader' = qreader /\ attempted'
    BY DEF vars
  <2>1. PICK t \in Threads : Decode(t) \/ Run(t)
    BY DEF Next
  <2>2. thread[t].pc # "load"
    BY DEF IInv, LoadInv
  <2> QED
    BY <2>1, <2>2
       DEF Decode, Run, LockDecoder, MakeDecoder, OpencvEnds, OpencvFindsNothing,
           FinishDecode, ReadModel, ReadAttempted, LockModel, ImportFails, Load, Mark,
           getDecoderVars, modelVars
<1> QED
  BY <1>1, Inductive, PTL DEF Spec, SettledForGood
=============================================================================
