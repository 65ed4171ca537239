------------------------------ MODULE QrDecoder ------------------------------
(***************************************************************************)
(* qr_decoder.py: the shared QrDecoder made by get_decoder, and the qreader *)
(* model that _ensure_qreader loads when opencv finds nothing.  The routes *)
(* from_qr_base64 and batch are plain functions, so FastAPI runs them in   *)
(* threads: a step here is what one thread does between two accesses to    *)
(* the shared fields _decoder, _qreader and _qreader_attempted.            *)
(***************************************************************************)
EXTENDS Naturals

CONSTANTS Threads,  \* worker threads of the server
          None

ASSUME NoneAssumption == None \notin Threads

VARIABLES decoder,      \* _decoder is not None
          decoderLock,  \* the thread that holds _decoder_lock
          made,         \* how often QrDecoder() was called
          qreader,      \* self._qreader is not None
          attempted,    \* self._qreader_attempted
          lock,         \* the thread that holds self._lock
          loads,        \* how often QReader() was called
          thread        \* the decodes in progress

vars == <<decoder, decoderLock, made, qreader, attempted, lock, loads, thread>>

Steps == {"idle", "makeDecoder", "opencv", "readModel", "readAttempted",
          "lockModel", "load", "mark", "detect", "noModel"}

\* "late": the model was settled, loaded or given up, when the decode began.
Thread == [pc : Steps, late : BOOLEAN]

Idle == [pc |-> "idle", late |-> FALSE]

TypeOK ==
    /\ decoder \in BOOLEAN
    /\ decoderLock \in Threads \cup {None}
    /\ made \in Nat
    /\ qreader \in BOOLEAN
    /\ attempted \in BOOLEAN
    /\ lock \in Threads \cup {None}
    /\ loads \in Nat
    /\ thread \in [Threads -> Thread]

Init ==
    /\ decoder = FALSE
    /\ decoderLock = None
    /\ made = 0
    /\ qreader = FALSE
    /\ attempted = FALSE
    /\ lock = None
    /\ loads = 0
    /\ thread = [t \in Threads |-> Idle]

Goto(t, pc) == thread' = [thread EXCEPT ![t].pc = pc]

Return(t) == thread' = [thread EXCEPT ![t] = Idle]

getDecoderVars == <<decoder, decoderLock, made>>
modelVars == <<qreader, attempted, lock, loads>>

-----------------------------------------------------------------------------
(* get_decoder *)

\* A decode begins: _decoder is read without its lock.
Decode(t) ==
    /\ thread[t].pc = "idle"
    /\ thread' = [thread EXCEPT ![t] =
                    [pc   |-> IF decoder THEN "opencv" ELSE "makeDecoder",
                     late |-> attempted]]
    /\ UNCHANGED <<getDecoderVars, modelVars>>

\* with _decoder_lock.
LockDecoder(t) ==
    /\ thread[t].pc = "makeDecoder"
    /\ decoderLock = None
    /\ decoderLock' = t
    /\ UNCHANGED <<decoder, made, thread, modelVars>>

\* Mutant: _decoder is not checked again under the lock.
MakeDecoderUnchecked(t) ==
    /\ thread[t].pc = "makeDecoder"
    /\ decoderLock = t
    /\ decoder' = TRUE
    /\ made' = made + 1
    /\ decoderLock' = None
    /\ Goto(t, "opencv")
    /\ UNCHANGED modelVars

\* _decoder is checked again, made if it is missing, and the lock released.
MakeDecoder(t) ==
    /\ thread[t].pc = "makeDecoder"
    /\ decoderLock = t
    /\ decoder' = TRUE
    /\ made' = IF decoder THEN made ELSE made + 1
    /\ decoderLock' = None
    /\ Goto(t, "opencv")
    /\ UNCHANGED modelVars

-----------------------------------------------------------------------------
(* QrDecoder.decode *)

\* The image is unreadable, or opencv finds a code: the decode ends here.
OpencvEnds(t) ==
    /\ thread[t].pc = "opencv"
    /\ Return(t)
    /\ UNCHANGED <<getDecoderVars, modelVars>>

\* opencv finds nothing: the model is asked for.
OpencvFindsNothing(t) ==
    /\ thread[t].pc = "opencv"
    /\ Goto(t, "readModel")
    /\ UNCHANGED <<getDecoderVars, modelVars>>

\* detect_and_decode runs, with or without a result, or the empty list is
\* returned because there is no model.
FinishDecode(t) ==
    /\ thread[t].pc \in {"detect", "noModel"}
    /\ Return(t)
    /\ UNCHANGED <<getDecoderVars, modelVars>>

-----------------------------------------------------------------------------
(* QrDecoder._ensure_qreader *)

\* The first unlocked read: self._qreader.
ReadModel(t) ==
    /\ thread[t].pc = "readModel"
    /\ Goto(t, IF qreader THEN "detect" ELSE "readAttempted")
    /\ UNCHANGED <<getDecoderVars, modelVars>>

\* The second one: self._qreader_attempted, None is returned if it is set.
ReadAttempted(t) ==
    /\ thread[t].pc = "readAttempted"
    /\ Goto(t, IF attempted THEN "noModel" ELSE "lockModel")
    /\ UNCHANGED <<getDecoderVars, modelVars>>

\* Mutant: the flag is not checked again under the lock.
LockModelUnchecked(t) ==
    /\ thread[t].pc = "lockModel"
    /\ lock = None
    /\ lock' = t
    /\ Goto(t, "load")
    /\ UNCHANGED <<qreader, attempted, loads, getDecoderVars>>

\* with self._lock: the flag is checked again, and self._qreader returned if
\* another thread has settled it meanwhile.
LockModel(t) ==
    /\ thread[t].pc = "lockModel"
    /\ lock = None
    /\ IF attempted
       THEN /\ Goto(t, IF qreader THEN "detect" ELSE "noModel")
            /\ UNCHANGED lock
       ELSE /\ lock' = t
            /\ Goto(t, "load")
    /\ UNCHANGED <<qreader, attempted, loads, getDecoderVars>>

\* Mutant: the early return keeps the lock.
ImportFailsLocked(t) ==
    /\ thread[t].pc = "load"
    /\ attempted' = TRUE
    /\ Goto(t, "noModel")
    /\ UNCHANGED <<qreader, lock, loads, getDecoderVars>>

\* The qreader package is missing: the flag is set, the lock released.
ImportFails(t) ==
    /\ thread[t].pc = "load"
    /\ attempted' = TRUE
    /\ lock' = None
    /\ Goto(t, "noModel")
    /\ UNCHANGED <<qreader, loads, getDecoderVars>>

\* Mutant: the flag is set before the model is loaded.
LoadMarksFirst(t) ==
    /\ thread[t].pc = "load"
    /\ IF attempted
       THEN /\ loads' = loads + 1
            /\ qreader' \in BOOLEAN
            /\ Goto(t, "mark")
            /\ UNCHANGED attempted
       ELSE /\ attempted' = TRUE
            /\ UNCHANGED <<qreader, loads, thread>>
    /\ UNCHANGED <<lock, getDecoderVars>>

\* Mutant: after a failed load the field holds something that is no model.
LoadKeepsFailure(t) ==
    /\ thread[t].pc = "load"
    /\ loads' = loads + 1
    /\ qreader' \in BOOLEAN \cup {None}
    /\ Goto(t, "mark")
    /\ UNCHANGED <<attempted, lock, getDecoderVars>>

\* QReader() returns the model or raises.
Load(t) ==
    /\ thread[t].pc = "load"
    /\ loads' = loads + 1
    /\ qreader' \in BOOLEAN
    /\ Goto(t, "mark")
    /\ UNCHANGED <<attempted, lock, getDecoderVars>>

\* The flag is set after the model, the lock released, self._qreader returned.
Mark(t) ==
    /\ thread[t].pc = "mark"
    /\ attempted' = TRUE
    /\ lock' = None
    /\ Goto(t, IF qreader THEN "detect" ELSE "noModel")
    /\ UNCHANGED <<qreader, loads, getDecoderVars>>

-----------------------------------------------------------------------------

\* What a thread does once its decode has begun.
Run(t) ==
    \/ LockDecoder(t) \/ MakeDecoder(t)
    \/ OpencvEnds(t) \/ OpencvFindsNothing(t) \/ FinishDecode(t)
    \/ ReadModel(t) \/ ReadAttempted(t) \/ LockModel(t)
    \/ ImportFails(t) \/ Load(t) \/ Mark(t)

Next == \E t \in Threads : Decode(t) \/ Run(t)

Spec == Init /\ [][Next]_vars

\* The operating system runs every thread, and a free lock goes to a waiter.
FairSpec == Spec /\ \A t \in Threads : WF_vars(Run(t))

-----------------------------------------------------------------------------
(* Safety *)

\* Whatever the threads race for, one QrDecoder is made and its model, which
\* is expensive to load, is loaded at most once, also when that fails (the two
\* double-checked locks of get_decoder and _ensure_qreader).
MadeAndLoadedOnce == made <= 1 /\ loads <= 1

\* A decode that begins when the model is settled and loaded is never told
\* that there is none, so a retry of a decode that was told so finds it.
LateDecodesFindModel ==
    \A t \in Threads : thread[t].late /\ thread[t].pc = "noModel" => ~qreader

\* The first verdict is the last one: no thread changes the model once the flag
\* is set.
SettledForGood == [][attempted => qreader' = qreader /\ attempted']_vars

\* Every decode ends, whichever branch of _ensure_qreader other threads leave
\* the lock by.
EveryDecodeEnds == \A t \in Threads : thread[t].pc # "idle" ~> thread[t].pc = "idle"

-----------------------------------------------------------------------------
(* The inductive invariant *)

\* One decoder exists or none has been made.
DecoderInv == made = IF decoder THEN 1 ELSE 0

\* self._lock is held exactly between the second check and the flag.
LockInv == \A t \in Threads : thread[t].pc \in {"load", "mark"} <=> lock = t

\* Before the flag is set nothing is loaded, except by the holder of the lock
\* that is about to set it.
LoadInv ==
    /\ loads \in {0, 1}
    /\ qreader => loads = 1
    /\ \A t \in Threads :
          /\ thread[t].pc = "load" => ~attempted /\ loads = 0
          /\ thread[t].pc = "mark" => ~attempted /\ loads = 1
    /\ ~attempted /\ loads = 1 => \E t \in Threads : thread[t].pc = "mark"

\* A late decode that has passed the first read without a model is right.
LateInv ==
    \A t \in Threads :
        thread[t].late => /\ attempted
                          /\ thread[t].pc \in {"readAttempted", "lockModel", "noModel"}
                                => ~qreader

\* What every step preserves: it implies MadeAndLoadedOnce and
\* LateDecodesFindModel (qr_decoder.py, the two double-checked locks).
IInv == TypeOK /\ DecoderInv /\ LockInv /\ LoadInv /\ LateInv

-----------------------------------------------------------------------------
(* What the docstring says, and the code does not do *)

\* qr_decoder.py:35, "Load the qreader model on demand; return None on
\* failure.": a thread that reads the empty field just before the model is
\* loaded and the flag just after is told None although nothing failed.
NoneOnlyOnFailure == \A t \in Threads : thread[t].pc = "noModel" => ~qreader
=============================================================================
