-------------------------- MODULE KernelStopProofs --------------------------
(* Proofs about KernelStop, for every set of processes and threads, every   *)
(* lease length and every bound.                                            *)
EXTENDS KernelStop, TLAPS

USE NoProcAssumption, HwLeasesAssumption, MaxTimeAssumption,
    MaxHwTokenAssumption, NoThreadAssumption, ProcOfAssumption,
    StopLeasesAssumption, MaxTokenAssumption, CallersAssumption,
    UnloadAssumption DEF LeaseEnd

-----------------------------------------------------------------------------
(* Type correctness *)

(* What the helpers on threads and sessions return. *)
LEMMA SuspendAllType ==
    ASSUME NEW th \in [Threads -> States], NEW S
    PROVE  SuspendAll(th, S) \in [Threads -> States]
  BY Zenon DEF SuspendAll, States

LEMMA ResumeAllType ==
    ASSUME NEW th \in [Threads -> States], NEW S
    PROVE  ResumeAll(th, S) \in [Threads -> States]
  BY Zenon DEF ResumeAll, Suspended, States

LEMMA NoSessionType == NoSession \in StopSession
  BY Zenon DEF NoSession, StopSession

LEMMA AfterResumeType ==
    ASSUME NEW s \in StopSession, NEW stuck \in SUBSET Threads
    PROVE  AfterResume(s, stuck) \in StopSession
  <1>1. CASE stuck = {}
    BY <1>1, NoSessionType, Zenon DEF AfterResume
  <1>2. CASE stuck # {}
    <2>1. AfterResume(s, stuck) = [s EXCEPT !.suspended = stuck, !.active = TRUE, !.deadline = 0]
      BY <1>2, Zenon DEF AfterResume
    <2>2. [s EXCEPT !.suspended = stuck, !.active = TRUE, !.deadline = 0] \in StopSession
      BY Zenon DEF StopSession
    <2> QED
      BY <2>1, <2>2, Zenon
  <1> QED
    BY <1>1, <1>2, Zenon

(* resume_session_locked keeps the types, whatever it could not resume. *)
LEMMA ResumeType ==
    ASSUME NEW s \in StopSession, NEW th \in [Threads -> States],
           ResumeSession(s, th)
    PROVE  ss' \in StopSession /\ thread' \in [Threads -> States]
  <1>1. CASE ResumeBusy(s)
    BY <1>1, Zenon DEF ResumeSession
  <1>2. CASE ~ResumeBusy(s)
    <2>1. PICK refused \in SUBSET {t \in s.suspended : Suspended(th, t)}, listed \in BOOLEAN :
             /\ ss' = AfterResume(s, Stuck(s, th, refused, listed))
             /\ thread' = ResumeAll(th, s.suspended \ Stuck(s, th, refused, listed))
      BY <1>2, Zenon DEF ResumeSession
    <2>2. Stuck(s, th, refused, listed) \subseteq Threads
      BY Zenon DEF Stuck, StopSession
    <2>3. AfterResume(s, Stuck(s, th, refused, listed)) \in StopSession
      BY <2>2, AfterResumeType, Zenon
    <2> QED
      BY <2>1, <2>3, ResumeAllType, Zenon
  <1> QED
    BY <1>1, <1>2, Zenon

(* The engine's operations keep its types. *)
LEMMA NoHwType == NoHw \in HwSession
  BY Zenon DEF NoHw, HwSession

LEMMA EngineType ==
    ASSUME EngineTypeOK,
           NEW p \in Procs, NEW k \in HwTokens \cup {0}, NEW now \in 0 .. MaxTime,
           NEW l \in HwLeases, NEW ok, NEW o \in AcquireOutcomes,
           NEW r, NEW a \in {"saved", "armed"},
           \/ Acquire(p, l, now, o)
           \/ Renew(p, k, l, now, ok)
           \/ Update(p, k, now, r, a)
           \/ Release(p, k, ok)
           \/ HwWatchdog(now, ok)
           \/ Recover(p, k, ok)
           \/ EngineStop(ok)
           \/ UNCHANGED engineVars
    PROVE  /\ hw' \in HwSession
           /\ ready' \in BOOLEAN
           /\ nextHw' \in 1 .. MaxHwToken + 1
  <1> USE DEF EngineTypeOK, HwTokens
  <1>0. HwLeases \subseteq Nat /\ now \in Nat /\ l \in Nat
    OBVIOUS
  <1>1. CASE Acquire(p, l, now, o)
    <2>1. nextHw \in HwTokens /\ nextHw' \in 1 .. MaxHwToken + 1 /\ now + l \in Nat
      BY <1>0, <1>1 DEF Acquire
    <2>2. [active |-> TRUE, pid |-> p, tok |-> nextHw, deadline |-> now + l,
           regs |-> "saved"] \in HwSession
      BY <2>1, Zenon DEF HwSession
    <2>3. hw' \in HwSession
      BY <1>1, <2>2, Zenon DEF Acquire
    <2>4. ready' \in BOOLEAN
      BY <1>1, Zenon DEF Acquire
    <2> QED
      BY <2>1, <2>3, <2>4, Zenon
  <1>2. CASE Renew(p, k, l, now, ok)
    <2>1. now + l \in Nat
      BY <1>0
    <2>2. [hw EXCEPT !.deadline = now + l] \in HwSession
      BY <2>1, Zenon DEF HwSession
    <2> QED
      BY <1>2, <2>2, NoHwType, Zenon DEF Renew, Restore, RestoreOk, RestoreFailed
  <1>3. CASE Update(p, k, now, r, a)
    <2>1. [hw EXCEPT !.regs = a] \in HwSession
      BY Zenon DEF HwSession
    <2>2. [hw EXCEPT !.regs = "torn"] \in HwSession
      BY Zenon DEF HwSession
    <2> QED
      BY <1>3, <2>1, <2>2, NoHwType, Zenon DEF Update, RestoreOk, RestoreFailed
  <1>4. CASE Release(p, k, ok) \/ HwWatchdog(now, ok) \/ Recover(p, k, ok)
    BY <1>4, NoHwType, Zenon DEF Release, HwWatchdog, Recover, Restore, RestoreOk, RestoreFailed
  <1>5. CASE EngineStop(ok) \/ UNCHANGED engineVars
    BY <1>5, NoHwType, Zenon DEF EngineStop, engineVars
  <1> QED
    BY <1>1, <1>2, <1>3, <1>4, <1>5, Zenon

LEMMA UpdatedType ==
    ASSUME NEW tok \in Tokens, NEW k \in HwTokens, NEW now \in Nat,
           NEW r \in {"ok", "other", "restore"}
    PROVE  [op |-> "updated", token |-> tok, hw |-> k, now |-> now, result |-> r] \in Calls
  BY Zenon DEF Calls

(* A step keeps a function on threads typed when it updates one value. *)
LEMMA CallType ==
    ASSUME NEW f \in [Threads -> Calls], NEW c \in Threads, NEW v \in Calls
    PROVE  [f EXCEPT ![c] = v] \in [Threads -> Calls]
  BY Zenon

LEMMA IdleType == Idle \in Calls
  BY Zenon DEF Idle, Calls

(* What a step that does not touch the engine leaves typed. *)
LEMMA TypeKept ==
    ASSUME TypeOK, UNCHANGED <<clock, engineVars, granted>>
    PROVE  /\ EngineTypeOK'
           /\ granted' \in [HwTokens -> Procs \cup {NoProc}]
  BY Zenon DEF TypeOK, EngineTypeOK, engineVars

LEMMA KernelTyped ==
    ASSUME TypeOK, NEW t \in Threads, CreateThread(t) \/ ExitThread(t)
    PROVE  TypeOK'
  <1>1. thread' \in [Threads -> States]
    BY Zenon DEF TypeOK, CreateThread, ExitThread, States
  <1> QED
    BY <1>1, TypeKept, Zenon DEF CreateThread, ExitThread, TypeOK, wdVars, stopVars

LEMMA NewSessionType ==
    ASSUME TypeOK, NEW c \in Threads, call[c].op = "begin", NEW S \in SUBSET Threads
    PROVE  NewSession(c, S) \in StopSession
  <1>1. call[c] \in Calls
    BY Zenon DEF TypeOK
  <1>2. call[c].exempt \in Threads \cup {NoThread}
    BY <1>1, Zenon DEF Calls
  <1>3. ProcOf[c] \in Procs
    BY Zenon
  <1> QED
    BY <1>2, <1>3, NoSessionType, Zenon DEF NewSession, StopSession

LEMMA StopCallTyped ==
    ASSUME TypeOK, NEW c \in Stoppers, StopCall(c)
    PROVE  TypeOK'
  <1> c \in Threads
    BY Zenon
  <1> USE DEF wdVars, stopVars
  <1>t. /\ thread \in [Threads -> States] /\ ss \in StopSession
        /\ call \in [Threads -> Calls] /\ clock \in Nat
    BY DEF TypeOK, EngineTypeOK
  <1>1. ASSUME NEW e \in Exempt \cup {NoThread}, NEW l \in StopLeases, BeginStopList(c, e, l)
        PROVE  TypeOK'
    <2>1. [op |-> "begin", list |-> ThreadsOf(ProcOf[c]), exempt |-> e, lease |-> l] \in Calls
      BY <1>1, Zenon DEF Calls, ThreadsOf
    <2>2. call' \in [Threads -> Calls]
      BY <1>1, <1>t, <2>1, CallType, Zenon DEF BeginStopList
    <2> QED
      BY <1>1, <2>2, TypeKept DEF BeginStopList, TypeOK
  <1>2. CASE BeginStopRefused(c) \/ BeginStopReturn(c)
    <2>1. call' \in [Threads -> Calls]
      BY <1>2, <1>t, CallType, IdleType, Zenon DEF BeginStopRefused, BeginStopReturn
    <2> QED
      BY <1>2, <2>1, TypeKept, Zenon DEF BeginStopRefused, BeginStopReturn, TypeOK
  <1>3. CASE BeginStopLocked(c)
    <2>1. ToSuspend(c) \in SUBSET Threads
      BY <1>3, <1>t, Zenon DEF BeginStopLocked, ToSuspend, Calls
    <2>2. nextToken \in Tokens /\ nextToken' \in 1 .. MaxToken + 1
      BY <1>3 DEF BeginStopLocked, TypeOK, Tokens
    <2>3. call[c].lease \in Nat
      BY <1>3, <1>t, Zenon DEF BeginStopLocked, Calls
    <2>4. clock + call[c].lease \in Nat
      BY <2>3, <1>t
    <2>5. NewSession(c, ToSuspend(c)) \in StopSession
      BY <1>3, <2>1, NewSessionType, Zenon DEF BeginStopLocked
    <2>6. ss' \in StopSession
      BY <1>3, <2>2, <2>4, <2>5, Zenon DEF BeginStopLocked, StopSession
    <2>7. thread' \in [Threads -> States]
      BY <1>3, <1>t, SuspendAllType, Zenon DEF BeginStopLocked
    <2>8. [op |-> "begun", token |-> nextToken] \in Calls
      BY <2>2, Zenon DEF Calls
    <2>9. call' \in [Threads -> Calls]
      BY <1>3, <1>t, <2>8, CallType, Zenon DEF BeginStopLocked
    <2> QED
      BY <1>3, <2>2, <2>6, <2>7, <2>9, TypeKept DEF BeginStopLocked, TypeOK
  <1>4. CASE BeginStopFailed(c)
    <2>1. PICK S \in SUBSET {t \in ToSuspend(c) : thread[t] = "running"} :
             ResumeSession(NewSession(c, S), SuspendAll(thread, S))
      BY <1>4, Zenon DEF BeginStopFailed
    <2>2. S \in SUBSET Threads
      BY <1>4, <1>t, Zenon DEF BeginStopFailed, ToSuspend, Calls
    <2>3. ss' \in StopSession /\ thread' \in [Threads -> States]
      BY <1>4, <1>t, <2>1, <2>2, NewSessionType, SuspendAllType, ResumeType, Zenon DEF BeginStopFailed
    <2>4. call' \in [Threads -> Calls]
      BY <1>4, <1>t, CallType, IdleType, Zenon DEF BeginStopFailed
    <2> QED
      BY <1>4, <2>3, <2>4, TypeKept DEF BeginStopFailed, TypeOK
  <1>5. CASE BeginStopCopyFailed(c)
    <2>1. call' \in [Threads -> Calls]
      BY <1>5, <1>t, CallType, IdleType, Zenon DEF BeginStopCopyFailed
    <2> QED
      BY <1>5, <1>t, <2>1, ResumeType, TypeKept DEF BeginStopCopyFailed, TypeOK
  <1>6. ASSUME NEW tok \in Tokens, NEW l \in StopLeases, RenewStop(c, tok, l)
        PROVE  TypeOK'
    <2>1. clock + l \in Nat
      BY <1>t
    <2>2. Retained \cup Newcomers \in SUBSET Threads
      BY Zenon DEF Retained, Newcomers, ThreadsOf
    <2>3. ss' \in StopSession
      BY <1>6, <1>t, <2>1, <2>2, Zenon DEF RenewStop, StopSession
    <2> QED
      BY <1>6, <1>t, <2>3, SuspendAllType, TypeKept DEF RenewStop, TypeOK
  <1>7. ASSUME NEW tok \in Tokens, RenewStopFailed(c, tok)
        PROVE  TypeOK'
    <2>1. PICK refused \in SUBSET Newcomers :
             /\ thread' = SuspendAll(thread, refused)
             /\ ss' = [ss EXCEPT !.suspended = Retained \cup refused]
      BY <1>7, Zenon DEF RenewStopFailed
    <2>2. Retained \cup refused \in SUBSET Threads
      BY Zenon DEF Retained, Newcomers, ThreadsOf
    <2>3. ss' \in StopSession
      BY <1>t, <2>1, <2>2, Zenon DEF StopSession
    <2> QED
      BY <1>7, <1>t, <2>1, <2>3, SuspendAllType, TypeKept DEF RenewStopFailed, TypeOK
  <1>8. ASSUME NEW tok \in Tokens, EndStop(c, tok)
        PROVE  TypeOK'
    BY <1>8, <1>t, ResumeType, TypeKept DEF EndStop, TypeOK
  <1> QED
    BY <1>1, <1>2, <1>3, <1>4, <1>5, <1>6, <1>7, <1>8, Zenon DEF StopCall

LEMMA UpdateCallTyped ==
    ASSUME TypeOK, NEW c \in HwCallers,
           \/ \E tok \in Tokens, k \in HwTokens : UpdateHardware(c, tok, k)
           \/ \E r \in {"ok", "other", "restore"}, a \in {"saved", "armed"} : UpdateEngine(c, r, a)
           \/ UpdateFinish(c)
    PROVE  TypeOK'
  <1> c \in Threads /\ ProcOf[c] \in Procs
    BY Zenon
  <1> USE DEF wdVars, stopVars
  <1>t. /\ thread \in [Threads -> States] /\ ss \in StopSession
        /\ call \in [Threads -> Calls] /\ clock \in 0 .. MaxTime
    BY Zenon DEF TypeOK, EngineTypeOK
  <1>1. ASSUME NEW tok \in Tokens, NEW k \in HwTokens, UpdateHardware(c, tok, k)
        PROVE  TypeOK'
    <2>1. ss' \in StopSession
      BY <1>1, <1>t, Zenon DEF UpdateHardware, StopSession
    <2>2. [op |-> "update", token |-> tok, hw |-> k] \in Calls
      BY Zenon DEF Calls
    <2>3. call' \in [Threads -> Calls]
      BY <1>1, <1>t, <2>2, CallType, Zenon DEF UpdateHardware
    <2> QED
      BY <1>1, <2>1, <2>3, TypeKept, ZenonT(60) DEF UpdateHardware, TypeOK
  <1>2. ASSUME NEW r \in {"ok", "other", "restore"}, NEW a \in {"saved", "armed"},
               UpdateEngine(c, r, a)
        PROVE  TypeOK'
    <2>1. call[c].token \in Tokens /\ call[c].hw \in HwTokens
      BY <1>2, <1>t, Zenon DEF UpdateEngine, Calls
    <2>2. hw' \in HwSession /\ ready' \in BOOLEAN /\ nextHw' \in 1 .. MaxHwToken + 1
      <3>1. Update(ProcOf[c], call[c].hw, clock, r, a) /\ EngineTypeOK
        BY <1>2, Zenon DEF UpdateEngine, TypeOK
      <3>2. [hw EXCEPT !.regs = a] \in HwSession /\ [hw EXCEPT !.regs = "torn"] \in HwSession
        BY <3>1, Zenon DEF EngineTypeOK, HwSession
      <3> QED
        BY <3>1, <3>2, NoHwType, Zenon DEF Update, RestoreOk, RestoreFailed, EngineTypeOK
    <2>3. [op |-> "updated", token |-> call[c].token, hw |-> call[c].hw,
           now |-> clock, result |-> r] \in Calls
      <3>1. clock \in Nat
        BY <1>t
      <3> QED
        BY <2>1, <3>1, UpdatedType, Zenon
    <2>4. call' \in [Threads -> Calls]
      BY <1>2, <1>t, <2>3, CallType, Zenon DEF UpdateEngine
    <2> QED
      BY <1>2, <2>2, <2>4 DEF UpdateEngine, TypeOK, EngineTypeOK
  <1>3. CASE UpdateFinish(c)
    <2> DEFINE pending == call[c].result = "restore"
               lowered == [ss EXCEPT !.hwMutation = FALSE, !.hwPending = pending,
                                     !.hwToken = IF pending THEN @ ELSE 0]
    <2>1. lowered \in StopSession
      BY <1>t, ZenonT(60) DEF StopSession
    <2> HIDE DEF lowered
    <2>2. ss' \in StopSession /\ thread' \in [Threads -> States]
      <3>1. \/ UNCHANGED <<ss, thread>>
            \/ ResumeSession(lowered, thread)
            \/ ss' = lowered /\ UNCHANGED thread
        BY <1>3, Zenon DEF UpdateFinish, lowered
      <3> QED
        BY <3>1, <1>t, <2>1, ResumeType, Zenon
    <2>3. call' \in [Threads -> Calls]
      BY <1>3, <1>t, CallType, IdleType, Zenon DEF UpdateFinish
    <2> QED
      BY <1>3, <2>2, <2>3, TypeKept DEF UpdateFinish, TypeOK
  <1> QED
    BY <1>1, <1>2, <1>3, Zenon

LEMMA HwCallTyped ==
    ASSUME TypeOK, NEW c \in HwCallers, HwCall(c)
    PROVE  TypeOK'
  <1> c \in Threads /\ ProcOf[c] \in Procs
    BY Zenon
  <1> USE DEF wdVars, stopVars
  <1>t. /\ thread \in [Threads -> States] /\ ss \in StopSession
        /\ call \in [Threads -> Calls] /\ clock \in 0 .. MaxTime
        /\ EngineTypeOK
    BY Zenon DEF TypeOK, EngineTypeOK
  <1>1. ASSUME NEW l \in HwLeases, NEW o \in AcquireOutcomes, NEW copied \in BOOLEAN,
               AcquireHardware(c, l, o, copied)
        PROVE  TypeOK'
    <2>1. Acquire(ProcOf[c], l, clock, o)
      BY <1>1, Zenon DEF AcquireHardware
    <2>2. hw' \in HwSession /\ ready' \in BOOLEAN /\ nextHw' \in 1 .. MaxHwToken + 1
      BY <2>1, <1>t, EngineType, Zenon
    <2>3. nextHw \in HwTokens
      BY <2>1, <1>t DEF Acquire, EngineTypeOK, HwTokens
    <2>4. [op |-> "uncopied", hw |-> nextHw] \in Calls
      BY <2>3, Zenon DEF Calls
    <2>5. call' \in [Threads -> Calls]
      BY <1>1, <1>t, <2>4, CallType, IdleType, Zenon DEF AcquireHardware
    <2>6. granted' \in [HwTokens -> Procs \cup {NoProc}]
      BY <1>1, <2>3, Zenon DEF AcquireHardware, TypeOK
    <2> QED
      BY <1>1, <2>2, <2>5, <2>6, Zenon DEF AcquireHardware, TypeOK, EngineTypeOK
  <1>2. ASSUME NEW ok \in BOOLEAN, AcquireUndone(c, ok)
        PROVE  TypeOK'
    <2>1. Release(ProcOf[c], call[c].hw, ok) \/ UNCHANGED engineVars
      BY <1>2, Zenon DEF AcquireUndone
    <2>2. hw' \in HwSession /\ ready' \in BOOLEAN /\ nextHw' \in 1 .. MaxHwToken + 1
      BY <2>1, <1>t, NoHwType, Zenon
         DEF Release, Restore, RestoreOk, RestoreFailed, EngineTypeOK, engineVars
    <2>3. call' \in [Threads -> Calls]
      BY <1>2, <1>t, CallType, IdleType, Zenon DEF AcquireUndone
    <2> QED
      BY <1>2, <2>2, <2>3 DEF AcquireUndone, TypeOK, EngineTypeOK
  <1>3. ASSUME NEW k \in HwTokens, NEW l \in HwLeases, NEW ok \in BOOLEAN,
               RenewHardware(c, k, l, ok)
        PROVE  TypeOK'
    <2>1. Renew(ProcOf[c], k, l, clock, ok)
      BY <1>3, Zenon DEF RenewHardware
    <2>2. hw' \in HwSession /\ ready' \in BOOLEAN /\ nextHw' \in 1 .. MaxHwToken + 1
      <3>1. clock + l \in Nat
        BY <1>t
      <3>2. [hw EXCEPT !.deadline = LeaseEnd(clock, l)] \in HwSession
        BY <1>t, <3>1, Zenon DEF HwSession, EngineTypeOK
      <3> QED
        BY <2>1, <1>t, <3>2, NoHwType, Zenon
           DEF Renew, Restore, RestoreOk, RestoreFailed, EngineTypeOK
    <2> QED
      BY <1>3, <2>2 DEF RenewHardware, TypeOK, EngineTypeOK
  <1>4. ASSUME NEW k \in HwTokens, NEW ok \in BOOLEAN, ReleaseHardware(c, k, ok)
        PROVE  TypeOK'
    <2>1. Release(ProcOf[c], k, ok)
      BY <1>4, Zenon DEF ReleaseHardware
    <2>2. hw' \in HwSession /\ ready' \in BOOLEAN /\ nextHw' \in 1 .. MaxHwToken + 1
      BY <2>1, <1>t, NoHwType, Zenon
         DEF Release, Restore, RestoreOk, RestoreFailed, EngineTypeOK
    <2>3. [op |-> "released", hw |-> k, now |-> clock] \in Calls
      BY <1>t DEF Calls
    <2>4. call' \in [Threads -> Calls]
      BY <1>4, <1>t, <2>3, CallType, IdleType, Zenon DEF ReleaseHardware
    <2> QED
      BY <1>4, <2>2, <2>4 DEF ReleaseHardware, TypeOK, EngineTypeOK
  <1>5. CASE ReleaseFinish(c)
    <2> DEFINE lowered == [ss EXCEPT !.hwPending = FALSE, !.hwToken = 0]
    <2>1. lowered \in StopSession
      BY <1>t, Zenon DEF StopSession
    <2> HIDE DEF lowered
    <2>2. ss' \in StopSession /\ thread' \in [Threads -> States]
      <3>1. \/ UNCHANGED <<ss, thread>>
            \/ ResumeSession(lowered, thread)
            \/ ss' = lowered /\ UNCHANGED thread
        BY <1>5, Zenon DEF ReleaseFinish, lowered
      <3> QED
        BY <3>1, <1>t, <2>1, ResumeType, Zenon
    <2>3. call' \in [Threads -> Calls]
      BY <1>5, <1>t, CallType, IdleType, Zenon DEF ReleaseFinish
    <2> QED
      BY <1>5, <2>2, <2>3, TypeKept DEF ReleaseFinish, TypeOK
  <1> QED
    BY <1>1, <1>2, <1>3, <1>4, <1>5, UpdateCallTyped, Zenon DEF HwCall

LEMMA ProbeCallTyped ==
    ASSUME TypeOK, NEW c \in Probers, ProbeCall(c)
    PROVE  TypeOK'
  <1> c \in Threads
    BY Zenon
  <1> USE DEF wdVars, stopVars
  <1>t. thread \in [Threads -> States] /\ call \in [Threads -> Calls]
    BY Zenon DEF TypeOK
  <1>1. ASSUME NEW t \in Threads, ProbeSuspend(c, t)
        PROVE  TypeOK'
    <2>1. [op |-> "probing", target |-> t] \in Calls
      BY Zenon DEF Calls
    <2>2. call' \in [Threads -> Calls]
      BY <1>1, <1>t, <2>1, CallType, Zenon DEF ProbeSuspend
    <2>3. thread' \in [Threads -> States]
      BY <1>1, <1>t, Zenon DEF ProbeSuspend, States
    <2> QED
      BY <1>1, <2>2, <2>3, TypeKept DEF ProbeSuspend, TypeOK
  <1>2. CASE ProbeResume(c)
    <2>1. call' \in [Threads -> Calls]
      BY <1>2, <1>t, CallType, IdleType, Zenon DEF ProbeResume
    <2> QED
      BY <1>2, <1>t, <2>1, ResumeAllType, TypeKept DEF ProbeResume, TypeOK
  <1> QED
    BY <1>1, <1>2, Zenon DEF ProbeCall

WdType == [pc : {"top", "hw", "lease", "exited"}, now : Nat,
           pid : Procs \cup {NoProc}, token : Tokens \cup {0},
           hw : HwTokens \cup {0}, recovered : BOOLEAN]

(* What the watchdog does to the session in its last step. *)
LowerRecovered ==
    IF /\ RecoveryNeeded /\ wd.recovered
       /\ ss.active /\ ss.hwPending /\ ss.pid = wd.pid
       /\ ss.token = wd.token /\ ss.hwToken = wd.hw
    THEN [ss EXCEPT !.hwPending = FALSE, !.hwToken = 0]
    ELSE ss

LEMMA WatchdogLeaseCases ==
    ASSUME WatchdogLease
    PROVE  \/ ResumeSession(LowerRecovered, thread)
           \/ ss' = LowerRecovered /\ UNCHANGED thread
  BY Zenon DEF WatchdogLease, LowerRecovered

LEMMA LowerRecoveredType ==
    ASSUME ss \in StopSession
    PROVE  LowerRecovered \in StopSession
  <1>1. [ss EXCEPT !.hwPending = FALSE, !.hwToken = 0] \in StopSession
    BY Zenon DEF StopSession
  <1> QED
    BY <1>1, Zenon DEF LowerRecovered

LEMMA WatchdogTyped ==
    ASSUME TypeOK, Watchdog
    PROVE  TypeOK'
  <1> USE DEF wdVars, stopVars
  <1>t. /\ thread \in [Threads -> States] /\ ss \in StopSession
        /\ wd \in WdType /\ clock \in 0 .. MaxTime /\ EngineTypeOK
    BY Zenon DEF TypeOK, EngineTypeOK, WdType
  <1>w. WdTop \in WdType
    BY Zenon DEF WdTop, WdType
  <1>1. CASE WatchdogRead
    <2>1. wd' \in WdType
      BY <1>1, <1>t DEF WatchdogRead, WdType, StopSession
    <2> QED
      BY <1>1, <2>1, TypeKept, Zenon DEF WatchdogRead, TypeOK, WdType
  <1>2. ASSUME NEW ok \in BOOLEAN, WatchdogEngine(ok)
        PROVE  TypeOK'
    <2>1. wd' \in WdType
      <3>1. [wd EXCEPT !.pc = "lease", !.recovered = ok] \in WdType
        BY <1>t, Zenon DEF WdType
      <3>2. [wd EXCEPT !.pc = "lease"] \in WdType
        BY <1>t, Zenon DEF WdType
      <3> QED
        BY <1>2, <3>1, <3>2, Zenon DEF WatchdogEngine
    <2>2. hw' \in HwSession /\ ready' \in BOOLEAN /\ nextHw' \in 1 .. MaxHwToken + 1
      BY <1>2, <1>t, NoHwType, Zenon
         DEF WatchdogEngine, Recover, HwWatchdog, Restore, RestoreOk, RestoreFailed,
             EngineTypeOK, engineVars
    <2> QED
      BY <1>2, <2>1, <2>2, Zenon DEF WatchdogEngine, TypeOK, EngineTypeOK, WdType
  <1>3. CASE WatchdogEngineBusy \/ WatchdogMiss \/ WatchdogExit
    <2>1. wd' \in WdType
      <3>1. [wd EXCEPT !.pc = "lease"] \in WdType /\ [wd EXCEPT !.pc = "exited"] \in WdType
        BY <1>t, Zenon DEF WdType
      <3> QED
        BY <1>3, <1>w, <3>1, Zenon DEF WatchdogEngineBusy, WatchdogMiss, WatchdogExit
    <2> QED
      BY <1>3, <2>1, TypeKept, Zenon DEF WatchdogEngineBusy, WatchdogMiss, WatchdogExit, TypeOK, WdType
  <1>4. CASE WatchdogLease
    <2>1. ss' \in StopSession /\ thread' \in [Threads -> States]
      BY <1>4, <1>t, WatchdogLeaseCases, LowerRecoveredType, ResumeType, Zenon
    <2>2. wd' \in WdType
      BY <1>4, <1>w, Zenon DEF WatchdogLease
    <2> QED
      BY <1>4, <2>1, <2>2, TypeKept, Zenon DEF WatchdogLease, TypeOK, WdType
  <1> QED
    BY <1>1, <1>2, <1>3, <1>4, Zenon DEF Watchdog

Lowered == [ss EXCEPT !.hwMutation = FALSE, !.hwPending = FALSE, !.hwToken = 0]

LEMMA StopReleaseCases ==
    ASSUME StopRelease
    PROVE  \/ ss.active /\ ResumeSession(Lowered, thread)
           \/ ~ss.active /\ ss' = Lowered /\ UNCHANGED thread
  BY Zenon DEF StopRelease, Lowered

LEMMA LoweredType ==
    ASSUME ss \in StopSession
    PROVE  Lowered \in StopSession
  BY Zenon DEF StopSession, Lowered

LEMMA ModuleStopTyped ==
    ASSUME TypeOK, ModuleStop
    PROVE  TypeOK'
  <1> USE DEF wdVars, stopVars
  <1>t. /\ thread \in [Threads -> States] /\ ss \in StopSession /\ EngineTypeOK
    BY Zenon DEF TypeOK
  <1>1. ASSUME NEW restored \in BOOLEAN, NEW joined \in BOOLEAN, StopEngine(restored, joined)
        PROVE  TypeOK'
    <2>1. hw' \in HwSession /\ ready' \in BOOLEAN /\ nextHw' \in 1 .. MaxHwToken + 1
      BY <1>1, <1>t, NoHwType, Zenon DEF StopEngine, EngineStop, EngineTypeOK
    <2>2. module' \in {"loaded", "quiesced", "released", "retired", "unloaded"}
      BY <1>1, Zenon DEF StopEngine
    <2> QED
      BY <1>1, <2>1, <2>2, Zenon DEF StopEngine, TypeOK, EngineTypeOK
  <1>2. CASE StopRelease
    <2>1. ss' \in StopSession /\ thread' \in [Threads -> States]
      BY <1>2, <1>t, StopReleaseCases, LoweredType, ResumeType, Zenon
    <2>2. module' \in {"loaded", "quiesced", "released", "retired", "unloaded"}
      BY <1>2, Zenon DEF StopRelease
    <2> QED
      BY <1>2, <2>1, <2>2, TypeKept, Zenon DEF StopRelease, TypeOK
  <1>3. CASE StopRetire \/ StopJoin
    BY <1>3, TypeKept, Zenon DEF StopRetire, StopJoin, TypeOK
  <1> QED
    BY <1>1, <1>2, <1>3, Zenon DEF ModuleStop

LEMMA TypeStep ==
    ASSUME TypeOK, [Next]_vars
    PROVE  TypeOK'
  <1>1. CASE Clock
    <2>1. clock' \in 0 .. MaxTime
      BY <1>1 DEF Clock, Tick, TypeOK, EngineTypeOK
    <2> QED
      BY <1>1, <2>1 DEF Clock, TypeOK, EngineTypeOK, engineVars, stopVars, wdVars
  <1>2. CASE UNCHANGED vars
    BY <1>2 DEF vars, TypeOK, EngineTypeOK, engineVars, stopVars, wdVars
  <1> QED
    BY <1>1, <1>2, KernelTyped, StopCallTyped, HwCallTyped, ProbeCallTyped,
       WatchdogTyped, ModuleStopTyped, Zenon DEF Next, Kernel

LEMMA TypeInit == Init => TypeOK
  <1> SUFFICES ASSUME Init PROVE TypeOK
    BY Zenon
  <1>1. EngineTypeOK
    BY NoHwType DEF Init, EngineInit, EngineTypeOK
  <1>2. wd \in WdType
    BY Zenon DEF Init, WdTop, WdType
  <1>3. call \in [Threads -> Calls]
    BY IdleType, Zenon DEF Init
  <1>4. thread \in [Threads -> States] /\ ss \in StopSession
    BY NoSessionType, Zenon DEF Init, States
  <1>5. /\ nextToken \in 1 .. MaxToken + 1
        /\ granted \in [HwTokens -> Procs \cup {NoProc}]
    BY DEF Init
  <1> QED
    BY <1>1, <1>2, <1>3, <1>4, <1>5, Zenon DEF Init, TypeOK, WdType

(* The state of the companion keeps its types: in particular the sessions   *)
(* only ever hold thread UIDs, processes and tokens that exist.             *)
THEOREM TypeCorrect == Spec => []TypeOK
  BY TypeInit, TypeStep, PTL DEF Spec

-----------------------------------------------------------------------------
(* No stopped thread is ever dropped.  The invariant needs a second part:   *)

(* A session, and a BeginStop on its way, only lists threads of its owner.   *)
(* RenewStop relies on it: it forgets the threads that are not on the list   *)
(* of the owner's process.                                                  *)
OwnerThreads ==
    /\ \A t \in ss.suspended : ProcOf[t] = ss.pid
    /\ \A c \in Threads : call[c].op = "begin" =>
          \A t \in call[c].list : ProcOf[t] = ProcOf[c]

(* resume_session_locked keeps on its list every thread it leaves stopped. *)
LEMMA ResumeKeepsOwned ==
    ASSUME NEW s \in StopSession, NEW th \in [Threads -> States],
           \A t \in Threads : th[t] = "stop" => t \in s.suspended,
           \A t \in s.suspended : ProcOf[t] = s.pid,
           ResumeBusy(s) => s.active,
           ResumeSession(s, th)
    PROVE  NoOrphanedStop' /\ \A t \in ss'.suspended : ProcOf[t] = ss'.pid
  <1>1. CASE ResumeBusy(s)
    BY <1>1 DEF ResumeSession, NoOrphanedStop
  <1>2. CASE ~ResumeBusy(s)
    <2>1. PICK refused \in SUBSET {t \in s.suspended : Suspended(th, t)}, listed \in BOOLEAN :
             /\ ss' = AfterResume(s, Stuck(s, th, refused, listed))
             /\ thread' = ResumeAll(th, s.suspended \ Stuck(s, th, refused, listed))
      BY <1>2, Zenon DEF ResumeSession
    <2> DEFINE stuck == Stuck(s, th, refused, listed)
    <2>2. ASSUME NEW t \in Threads, thread'[t] = "stop"
          PROVE  t \in stuck
      <3>1. th[t] = "stop" /\ ~(t \in s.suspended \ stuck)
        BY <2>1, <2>2, Zenon DEF ResumeAll, Suspended
      <3> QED
        BY <3>1, Zenon
    <2>3. ASSUME stuck # {}
          PROVE  ss'.active /\ ss'.suspended = stuck /\ ss'.pid = s.pid
      <3>1. ss' = [s EXCEPT !.suspended = stuck, !.active = TRUE, !.deadline = 0]
        BY <2>1, <2>3, Zenon DEF AfterResume
      <3> QED
        BY <3>1, Zenon DEF StopSession
    <2>4. ASSUME stuck = {}
          PROVE  ss'.suspended = {}
      BY <2>1, <2>4, Zenon DEF AfterResume, NoSession
    <2>5. stuck \subseteq s.suspended
      BY Zenon DEF Stuck
    <2> HIDE DEF stuck
    <2> QED
      BY <2>2, <2>3, <2>4, <2>5, Zenon DEF NoOrphanedStop
  <1> QED
    BY <1>1, <1>2, Zenon

Owned == OwnerThreads /\ NoOrphanedStop

(* A step that changes neither the session nor the threads nor any call to  *)
(* BeginStop keeps the ownership.                                           *)
LEMMA OwnedKept ==
    ASSUME TypeOK, Owned, UNCHANGED ss,
           \A t \in Threads : thread'[t] = "stop" => thread[t] = "stop",
           \A c \in Threads : call'[c] = call[c] \/ call'[c].op # "begin"
    PROVE  Owned'
  BY Zenon DEF Owned, OwnerThreads, NoOrphanedStop

(* The list of a BeginStop that another syscall's step leaves alone. *)
LEMMA ListsKept ==
    ASSUME TypeOK, OwnerThreads, NEW c \in Threads, NEW v,
           v.op # "begin", call' = [call EXCEPT ![c] = v]
    PROVE  \A d \in Threads : call'[d].op = "begin" =>
              \A t \in call'[d].list : ProcOf[t] = ProcOf[d]
  BY Zenon DEF TypeOK, OwnerThreads

LEMMA StopCallOwned ==
    ASSUME TypeOK, Owned, NEW c \in Stoppers, StopCall(c)
    PROVE  Owned'
  <1> c \in Threads
    BY Zenon
  <1> USE DEF stopVars
  <1>t. /\ thread \in [Threads -> States] /\ ss \in StopSession
        /\ call \in [Threads -> Calls]
    BY Zenon DEF TypeOK
  <1>i. Idle.op # "begin"
    BY Zenon DEF Idle
  <1>o. /\ \A t \in Threads : thread[t] = "stop" => t \in ss.suspended
        /\ \A t \in ss.suspended : ProcOf[t] = ss.pid
        /\ NoOrphanedStop /\ OwnerThreads
    BY Zenon DEF Owned, OwnerThreads, NoOrphanedStop
  <1>1. ASSUME NEW e \in Exempt \cup {NoThread}, NEW l \in StopLeases, BeginStopList(c, e, l)
        PROVE  Owned'
    <2>1. \A d \in Threads : call'[d].op = "begin" =>
              \A t \in call'[d].list : ProcOf[t] = ProcOf[d]
      BY <1>1, <1>t, <1>o, Zenon DEF BeginStopList, OwnerThreads, ThreadsOf
    <2> QED
      BY <1>1, <1>o, <2>1, Zenon DEF BeginStopList, Owned, OwnerThreads, NoOrphanedStop
  <1>2. CASE BeginStopRefused(c) \/ BeginStopReturn(c)
    <2>1. call' = [call EXCEPT ![c] = Idle]
      BY <1>2, Zenon DEF BeginStopRefused, BeginStopReturn
    <2>2. UNCHANGED <<ss, thread>>
      BY <1>2, Zenon DEF BeginStopRefused, BeginStopReturn
    <2> QED
      BY <1>t, <1>i, <2>1, <2>2, OwnedKept, Zenon
  <1>3. CASE BeginStopLocked(c)
    <2>1. ToSuspend(c) \in SUBSET Threads /\ \A t \in ToSuspend(c) : ProcOf[t] = ProcOf[c]
      BY <1>3, <1>t, <1>o, Zenon DEF BeginStopLocked, ToSuspend, Calls, OwnerThreads
    <2>2. \A t \in Threads : thread'[t] = "stop" => t \in ToSuspend(c)
      BY <1>3, <1>o, Zenon DEF BeginStopLocked, SuspendAll, NoOrphanedStop
    <2>3. NewSession(c, ToSuspend(c)) \in StopSession
      BY <1>3, <2>1, NewSessionType, Zenon DEF BeginStopLocked
    <2>4. /\ NewSession(c, ToSuspend(c)).suspended = ToSuspend(c)
          /\ NewSession(c, ToSuspend(c)).pid = ProcOf[c]
      BY NoSessionType, Zenon DEF NewSession, StopSession
    <2>5. /\ ss'.active /\ ss'.suspended = NewSession(c, ToSuspend(c)).suspended
          /\ ss'.pid = NewSession(c, ToSuspend(c)).pid
      BY <1>3, <2>3, Zenon DEF BeginStopLocked, StopSession
    <2>6. \A d \in Threads : call'[d].op = "begin" =>
              \A t \in call'[d].list : ProcOf[t] = ProcOf[d]
      BY <1>3, <1>o, ListsKept, Zenon DEF BeginStopLocked
    <2>7. OwnerThreads'
      BY <2>1, <2>4, <2>5, <2>6, Zenon DEF OwnerThreads
    <2>8. NoOrphanedStop'
      BY <2>2, <2>4, <2>5, Zenon DEF NoOrphanedStop
    <2> QED
      BY <2>7, <2>8, Zenon DEF Owned
  <1>4. CASE BeginStopFailed(c)
    <2>1. PICK S \in SUBSET {t \in ToSuspend(c) : thread[t] = "running"} :
             ResumeSession(NewSession(c, S), SuspendAll(thread, S))
      BY <1>4, Zenon DEF BeginStopFailed
    <2>2. S \in SUBSET Threads /\ \A t \in S : ProcOf[t] = ProcOf[c]
      BY <1>4, <1>t, <1>o, Zenon DEF BeginStopFailed, ToSuspend, Calls, OwnerThreads
    <2>3. NewSession(c, S) \in StopSession
      BY <1>4, <2>2, NewSessionType, Zenon DEF BeginStopFailed
    <2>4. /\ NewSession(c, S).suspended = S /\ NewSession(c, S).pid = ProcOf[c]
          /\ ~ResumeBusy(NewSession(c, S))
      BY NoSessionType, Zenon DEF NewSession, StopSession, ResumeBusy, NoSession
    <2>5. \A t \in Threads : SuspendAll(thread, S)[t] = "stop" => t \in S
      BY <1>4, <1>o, Zenon DEF BeginStopFailed, SuspendAll, NoOrphanedStop
    <2>6. SuspendAll(thread, S) \in [Threads -> States]
      BY <1>t, SuspendAllType, Zenon
    <2>7. NoOrphanedStop' /\ \A t \in ss'.suspended : ProcOf[t] = ss'.pid
      BY <2>1, <2>2, <2>3, <2>4, <2>5, <2>6, ResumeKeepsOwned, Zenon
    <2>8. \A d \in Threads : call'[d].op = "begin" =>
              \A t \in call'[d].list : ProcOf[t] = ProcOf[d]
      BY <1>4, <1>o, <1>i, ListsKept, Zenon DEF BeginStopFailed
    <2> QED
      BY <2>7, <2>8, Zenon DEF Owned, OwnerThreads
  <1>5. CASE BeginStopCopyFailed(c) \/ \E tok \in Tokens : EndStop(c, tok)
    <2>1. ResumeSession(ss, thread) /\ ss.active
      BY <1>5, Zenon DEF BeginStopCopyFailed, EndStop, Matches
    <2>2. NoOrphanedStop' /\ \A t \in ss'.suspended : ProcOf[t] = ss'.pid
      BY <1>t, <1>o, <2>1, ResumeKeepsOwned, Zenon
    <2>3. \A d \in Threads : call'[d].op = "begin" =>
              \A t \in call'[d].list : ProcOf[t] = ProcOf[d]
      <3>1. CASE UNCHANGED call
        BY <3>1, <1>o, Zenon DEF OwnerThreads
      <3>2. CASE call' = [call EXCEPT ![c] = Idle]
        BY <3>2, <1>o, <1>i, ListsKept, Zenon
      <3> QED
        BY <1>5, <3>1, <3>2, Zenon DEF BeginStopCopyFailed, EndStop
    <2> QED
      BY <2>2, <2>3, Zenon DEF Owned, OwnerThreads
  <1>6. ASSUME NEW tok \in Tokens,
               RenewStopFailed(c, tok) \/ \E l \in StopLeases : RenewStop(c, tok, l)
        PROVE  Owned'
    <2>1. PICK R \in SUBSET Newcomers :
             /\ thread' = SuspendAll(thread, R)
             /\ ss'.suspended = Retained \cup R /\ ss'.active = ss.active /\ ss'.pid = ss.pid
      <3>1. CASE RenewStopFailed(c, tok)
        <4>1. PICK R \in SUBSET Newcomers :
                 /\ thread' = SuspendAll(thread, R)
                 /\ ss' = [ss EXCEPT !.suspended = Retained \cup R]
          BY <3>1, Zenon DEF RenewStopFailed
        <4> QED
          BY <4>1, <1>t, Zenon DEF StopSession
      <3>2. ASSUME NEW l \in StopLeases, RenewStop(c, tok, l)
            PROVE  /\ thread' = SuspendAll(thread, Newcomers)
                   /\ ss'.suspended = Retained \cup Newcomers
                   /\ ss'.active = ss.active /\ ss'.pid = ss.pid
        BY <3>2, <1>t, Zenon DEF RenewStop, StopSession
      <3> QED
        BY <1>6, <3>1, <3>2, Zenon
    <2>2. ss.active
      BY <1>6, Zenon DEF RenewStop, RenewStopFailed, Matches
    <2>3. \A t \in Threads : thread'[t] = "stop" => t \in R \/ thread[t] = "stop"
      BY <2>1, Zenon DEF SuspendAll
    <2>4. \A t \in Threads : thread[t] = "stop" => t \in Retained
      BY <1>o, Zenon DEF Retained, ThreadsOf, Suspended
    <2>5. \A t \in Retained \cup R : ProcOf[t] = ss.pid
      BY Zenon DEF Retained, Newcomers, ThreadsOf
    <2>6. UNCHANGED call
      BY <1>6, Zenon DEF RenewStop, RenewStopFailed
    <2> QED
      BY <1>o, <2>1, <2>2, <2>3, <2>4, <2>5, <2>6, Zenon DEF Owned, OwnerThreads, NoOrphanedStop
  <1> QED
    BY <1>1, <1>2, <1>3, <1>4, <1>5, <1>6, Zenon DEF StopCall

(* The steps that lower a gate end in resume_session_locked or in a session *)
(* that differs only in its flags.                                          *)
LEMMA LoweredOwned ==
    ASSUME TypeOK, Owned, NEW s \in StopSession,
           s.suspended = ss.suspended, s.pid = ss.pid, s.active = ss.active,
           ResumeBusy(s) => s.active,
           ResumeSession(s, thread) \/ (ss' = s /\ UNCHANGED thread),
           \A c \in Threads : call'[c] = call[c] \/ call'[c].op # "begin"
    PROVE  Owned'
  <1>1. \A d \in Threads : call'[d].op = "begin" =>
           \A t \in call'[d].list : ProcOf[t] = ProcOf[d]
    BY Zenon DEF Owned, OwnerThreads
  <1>2. thread \in [Threads -> States]
    BY Zenon DEF TypeOK
  <1>3. CASE ResumeSession(s, thread)
    <2>1. NoOrphanedStop' /\ \A t \in ss'.suspended : ProcOf[t] = ss'.pid
      BY <1>2, <1>3, ResumeKeepsOwned, Zenon DEF Owned, OwnerThreads, NoOrphanedStop
    <2> QED
      BY <1>1, <2>1, Zenon DEF Owned, OwnerThreads
  <1>4. CASE ss' = s /\ UNCHANGED thread
    BY <1>1, <1>4, Zenon DEF Owned, OwnerThreads, NoOrphanedStop
  <1> QED
    BY <1>3, <1>4, Zenon

LEMMA HwCallOwned ==
    ASSUME TypeOK, Owned, NEW c \in HwCallers, HwCall(c)
    PROVE  Owned'
  <1> c \in Threads
    BY Zenon
  <1> USE DEF stopVars
  <1>t. /\ thread \in [Threads -> States] /\ ss \in StopSession
        /\ call \in [Threads -> Calls]
    BY Zenon DEF TypeOK
  <1>i. Idle.op # "begin"
    BY Zenon DEF Idle
  <1>1. CASE \/ \E l \in HwLeases, o \in AcquireOutcomes, copied \in BOOLEAN :
                   AcquireHardware(c, l, o, copied)
             \/ \E ok \in BOOLEAN : AcquireUndone(c, ok)
             \/ \E k \in HwTokens, l \in HwLeases, ok \in BOOLEAN : RenewHardware(c, k, l, ok)
             \/ \E r \in {"ok", "other", "restore"}, a \in {"saved", "armed"} :
                   UpdateEngine(c, r, a)
             \/ \E k \in HwTokens, ok \in BOOLEAN : ReleaseHardware(c, k, ok)
    <2>1. UNCHANGED <<ss, thread>>
      BY <1>1, Zenon DEF AcquireHardware, AcquireUndone, RenewHardware, UpdateEngine, ReleaseHardware
    <2>2. call' = call \/ \E e : call' = [call EXCEPT ![c] = e] /\ e.op # "begin"
      <3>1. CASE \/ \E l \in HwLeases, o \in AcquireOutcomes, copied \in BOOLEAN :
                       AcquireHardware(c, l, o, copied)
                 \/ \E ok \in BOOLEAN : AcquireUndone(c, ok)
        BY <3>1, <1>i DEF AcquireHardware, AcquireUndone
      <3>2. CASE \/ \E k \in HwTokens, l \in HwLeases, ok \in BOOLEAN :
                       RenewHardware(c, k, l, ok)
                 \/ \E r \in {"ok", "other", "restore"}, a \in {"saved", "armed"} :
                       UpdateEngine(c, r, a)
                 \/ \E k \in HwTokens, ok \in BOOLEAN : ReleaseHardware(c, k, ok)
        BY <3>2, <1>i DEF RenewHardware, UpdateEngine, ReleaseHardware
      <3> QED
        BY <1>1, <3>1, <3>2, Zenon
    <2>3. \A d \in Threads : call'[d] = call[d] \/ call'[d].op # "begin"
      BY <1>t, <2>2, Zenon
    <2> QED
      BY <2>1, <2>3, OwnedKept, Zenon
  <1>2. ASSUME NEW tok \in Tokens, NEW k \in HwTokens, UpdateHardware(c, tok, k)
        PROVE  Owned'
    <2>1. /\ ss' \in StopSession /\ ss'.suspended = ss.suspended
          /\ ss'.pid = ss.pid /\ ss'.active = ss.active
      BY <1>2, <1>t, Zenon DEF UpdateHardware, StopSession
    <2>2. UNCHANGED thread /\ \A d \in Threads : call'[d] = call[d] \/ call'[d].op # "begin"
      BY <1>2, <1>t, Zenon DEF UpdateHardware
    <2> QED
      BY <2>1, <2>2, Zenon DEF Owned, OwnerThreads, NoOrphanedStop
  <1>3. CASE UpdateFinish(c)
    <2> DEFINE pending == call[c].result = "restore"
               lowered == [ss EXCEPT !.hwMutation = FALSE, !.hwPending = pending,
                                     !.hwToken = IF pending THEN @ ELSE 0]
    <2>1. /\ lowered \in StopSession /\ lowered.suspended = ss.suspended
          /\ lowered.pid = ss.pid /\ lowered.active = ss.active
      BY <1>t, ZenonT(60) DEF StopSession
    <2> HIDE DEF lowered
    <2>2. \A d \in Threads : call'[d] = call[d] \/ call'[d].op # "begin"
      BY <1>3, <1>t, <1>i, Zenon DEF UpdateFinish
    <2>3. CASE ~GateIs(c, call[c])
      BY <1>3, <2>2, <2>3, OwnedKept, Zenon DEF UpdateFinish
    <2>4. CASE GateIs(c, call[c])
      <3>1. ss.active
        BY <2>4, Zenon DEF GateIs, Matches
      <3>2. ResumeSession(lowered, thread) \/ (ss' = lowered /\ UNCHANGED thread)
        BY <1>3, <2>4, Zenon DEF UpdateFinish, lowered
      <3> QED
        BY <2>1, <2>2, <3>1, <3>2, LoweredOwned, Zenon
    <2> QED
      BY <2>3, <2>4, Zenon
  <1>4. CASE ReleaseFinish(c)
    <2> DEFINE lowered == [ss EXCEPT !.hwPending = FALSE, !.hwToken = 0]
               gate == ss.active /\ ss.pid = ProcOf[c] /\ ss.hwPending
                       /\ ss.hwToken = call[c].hw
    <2>1. /\ lowered \in StopSession /\ lowered.suspended = ss.suspended
          /\ lowered.pid = ss.pid /\ lowered.active = ss.active
      BY <1>t, Zenon DEF StopSession
    <2> HIDE DEF lowered
    <2>2. \A d \in Threads : call'[d] = call[d] \/ call'[d].op # "begin"
      BY <1>4, <1>t, <1>i, Zenon DEF ReleaseFinish
    <2>3. CASE ~gate
      BY <1>4, <2>2, <2>3, OwnedKept, Zenon DEF ReleaseFinish
    <2>4. CASE gate
      <3>2. ResumeSession(lowered, thread) \/ (ss' = lowered /\ UNCHANGED thread)
        BY <1>4, <2>4, Zenon DEF ReleaseFinish, lowered
      <3> QED
        BY <2>1, <2>2, <2>4, <3>2, LoweredOwned, Zenon
    <2> QED
      BY <2>3, <2>4, Zenon
  <1> QED
    BY <1>1, <1>2, <1>3, <1>4, Zenon DEF HwCall

LEMMA OthersOwned ==
    ASSUME TypeOK, Owned,
           \/ Kernel
           \/ \E c \in Probers : ProbeCall(c)
           \/ Watchdog
           \/ ModuleStop
           \/ Clock
           \/ UNCHANGED vars
    PROVE  Owned'
  <1> USE DEF stopVars
  <1>t. /\ thread \in [Threads -> States] /\ ss \in StopSession
        /\ call \in [Threads -> Calls]
    BY Zenon DEF TypeOK
  <1>i. Idle.op # "begin"
    BY Zenon DEF Idle
  <1>1. ASSUME NEW t \in Threads, CreateThread(t) \/ ExitThread(t)
        PROVE  Owned'
    BY <1>1, <1>t, OwnedKept, Zenon DEF CreateThread, ExitThread
  <1>2. ASSUME NEW c \in Probers, ProbeCall(c)
        PROVE  Owned'
    <2>1. UNCHANGED ss /\ \A t \in Threads : thread'[t] = "stop" => thread[t] = "stop"
      BY <1>2, <1>t, Zenon DEF ProbeCall, ProbeSuspend, ProbeResume, ResumeAll
    <2>2. \A d \in Threads : call'[d] = call[d] \/ call'[d].op # "begin"
      BY <1>2, <1>t, <1>i DEF ProbeCall, ProbeSuspend, ProbeResume
    <2> QED
      BY <2>1, <2>2, OwnedKept, Zenon
  <1>3. CASE \/ WatchdogRead \/ (\E ok \in BOOLEAN : WatchdogEngine(ok)) \/ WatchdogEngineBusy
             \/ WatchdogMiss \/ WatchdogExit
    BY <1>3, OwnedKept, Zenon
       DEF WatchdogRead, WatchdogEngine, WatchdogEngineBusy, WatchdogMiss, WatchdogExit
  <1>4. CASE WatchdogLease
    <2>1. /\ LowerRecovered \in StopSession /\ LowerRecovered.suspended = ss.suspended
          /\ LowerRecovered.pid = ss.pid /\ LowerRecovered.active = ss.active
      <3>1. /\ [ss EXCEPT !.hwPending = FALSE, !.hwToken = 0].suspended = ss.suspended
            /\ [ss EXCEPT !.hwPending = FALSE, !.hwToken = 0].pid = ss.pid
            /\ [ss EXCEPT !.hwPending = FALSE, !.hwToken = 0].active = ss.active
        BY <1>t, Zenon DEF StopSession
      <3> QED
        BY <1>t, <3>1, LowerRecoveredType, Zenon DEF LowerRecovered
    <2>2. \/ ss.active /\ ResumeSession(LowerRecovered, thread)
          \/ ss' = LowerRecovered /\ UNCHANGED thread
      BY <1>4, <2>1, Zenon DEF WatchdogLease, LowerRecovered
    <2>3. UNCHANGED call
      BY <1>4, Zenon DEF WatchdogLease
    <2>4. CASE ss.active
      BY <2>1, <2>2, <2>3, <2>4, LoweredOwned, Zenon
    <2>5. CASE ~ss.active
      BY <2>1, <2>2, <2>3, <2>5, Zenon DEF Owned, OwnerThreads, NoOrphanedStop
    <2> QED
      BY <2>4, <2>5, Zenon
  <1>5. CASE ModuleStop
    <2>1. CASE (\E restored, joined \in BOOLEAN : StopEngine(restored, joined))
               \/ StopRetire \/ StopJoin
      BY <2>1, OwnedKept, Zenon DEF StopEngine, StopRetire, StopJoin
    <2>2. CASE StopRelease
      <3>1. /\ Lowered \in StopSession /\ Lowered.suspended = ss.suspended
            /\ Lowered.pid = ss.pid /\ Lowered.active = ss.active
            /\ ~ResumeBusy(Lowered)
        BY <1>t, Zenon DEF StopSession, Lowered, ResumeBusy
      <3>2. UNCHANGED call
        BY <2>2, Zenon DEF StopRelease
      <3> QED
        BY <2>2, <3>1, <3>2, StopReleaseCases, LoweredOwned, Zenon
    <2> QED
      BY <1>5, <2>1, <2>2, Zenon DEF ModuleStop
  <1>6. CASE Clock \/ UNCHANGED vars
    BY <1>6, OwnedKept, Zenon DEF Clock, vars
  <1> QED
    BY <1>1, <1>2, <1>3, <1>4, <1>5, <1>6, Zenon DEF Kernel, Watchdog

LEMMA OwnedStep ==
    ASSUME TypeOK, Owned, [Next]_vars
    PROVE  Owned'
  BY StopCallOwned, HwCallOwned, OthersOwned, Zenon DEF Next

LEMMA OwnedInit == Init => Owned
  <1> SUFFICES ASSUME Init PROVE Owned
    BY Zenon
  <1>1. ss.suspended = {} /\ \A c \in Threads : call[c].op = "idle"
    BY Zenon DEF Init, NoSession, Idle
  <1>2. \A t \in Threads : thread[t] # "stop"
    BY Zenon DEF Init
  <1> QED
    BY <1>1, <1>2, Zenon DEF Owned, OwnerThreads, NoOrphanedStop

(* A thread the companion holds stopped is always on the list of an active  *)
(* session, for any number of processes and threads: no path of BeginStop,  *)
(* RenewStop, EndStop, the hardware gate, the watchdog or module_stop       *)
(* forgets a thread it has not resumed.                                     *)
THEOREM NoOrphans == Spec => []NoOrphanedStop
  <1>1. TypeOK /\ Owned /\ [Next]_vars => TypeOK' /\ Owned'
    BY TypeStep, OwnedStep, Zenon
  <1>2. TypeOK /\ Owned => NoOrphanedStop
    BY Zenon DEF Owned
  <1> QED
    BY <1>1, <1>2, TypeInit, OwnedInit, PTL DEF Spec

-----------------------------------------------------------------------------
(* The watchdog and the lease *)

(* The clock reading the watchdog decides with is never ahead of the clock. *)
WdBehind == wd.now <= clock

(* Only the watchdog moves its own state, and only the clock moves itself. *)
LEMMA OthersLeaveWatchdog ==
    ASSUME \/ Kernel \/ ModuleStop
           \/ \E c \in Stoppers : StopCall(c)
           \/ \E c \in HwCallers : HwCall(c)
           \/ \E c \in Probers : ProbeCall(c)
    PROVE  UNCHANGED <<wd, clock>>
  <1> USE DEF wdVars
  <1>1. CASE Kernel
    BY <1>1, Zenon DEF Kernel, CreateThread, ExitThread
  <1>2. CASE ModuleStop
    BY <1>2, Zenon DEF ModuleStop, StopEngine, StopRelease, StopRetire, StopJoin
  <1>3. ASSUME NEW c \in Stoppers, StopCall(c)
        PROVE  UNCHANGED <<wd, clock>>
    BY <1>3, Zenon DEF StopCall, BeginStopList, BeginStopRefused, BeginStopLocked, BeginStopFailed,
                BeginStopReturn, BeginStopCopyFailed, RenewStop, RenewStopFailed, EndStop
  <1>4. ASSUME NEW c \in HwCallers, HwCall(c)
        PROVE  UNCHANGED <<wd, clock>>
    BY <1>4, Zenon DEF HwCall, AcquireHardware, AcquireUndone, RenewHardware, UpdateHardware,
                UpdateEngine, UpdateFinish, ReleaseHardware, ReleaseFinish
  <1>5. ASSUME NEW c \in Probers, ProbeCall(c)
        PROVE  UNCHANGED <<wd, clock>>
    BY <1>5, Zenon DEF ProbeCall, ProbeSuspend, ProbeResume
  <1> QED
    BY <1>1, <1>2, <1>3, <1>4, <1>5, Zenon

LEMMA WdBehindStep ==
    ASSUME TypeOK, WdBehind, [Next]_vars
    PROVE  WdBehind'
  <1>t. clock \in Nat /\ wd \in WdType
    BY DEF TypeOK, EngineTypeOK, WdType
  <1>1. CASE Clock
    BY <1>1, <1>t DEF Clock, Tick, WdBehind, wdVars, WdType
  <1>2. CASE Watchdog
    <2>1. UNCHANGED clock
      BY <1>2, Zenon DEF Watchdog, WatchdogRead, WatchdogEngine, WatchdogEngineBusy, WatchdogLease,
                  WatchdogMiss, WatchdogExit
    <2>2. wd'.now \in {0, clock, wd.now}
      <3>1. CASE WatchdogRead
        BY <3>1, Zenon DEF WatchdogRead
      <3>2. CASE WatchdogLease \/ WatchdogMiss
        BY <3>2 DEF WatchdogLease, WatchdogMiss, WdTop
      <3>3. CASE WatchdogEngineBusy \/ WatchdogExit
        BY <3>3, <1>t, Zenon DEF WatchdogEngineBusy, WatchdogExit, WdType
      <3>4. ASSUME NEW ok \in BOOLEAN, WatchdogEngine(ok)
            PROVE  wd'.now = wd.now
        <4>1. \/ wd' = [wd EXCEPT !.pc = "lease", !.recovered = ok]
              \/ wd' = [wd EXCEPT !.pc = "lease"]
          BY <3>4, Zenon DEF WatchdogEngine
        <4> QED
          BY <4>1, <1>t, Zenon DEF WdType
      <3> QED
        BY <1>2, <3>1, <3>2, <3>3, <3>4, Zenon DEF Watchdog
    <2> QED
      BY <1>t, <2>1, <2>2 DEF WdBehind
  <1>3. CASE UNCHANGED <<wd, clock>>
    BY <1>3, Zenon DEF WdBehind
  <1>4. CASE UNCHANGED vars
    BY <1>3, <1>4, Zenon DEF vars, wdVars
  <1> QED
    BY <1>1, <1>2, <1>3, <1>4, OthersLeaveWatchdog, Zenon DEF Next

(* The step of WatchdogKeepsLease, for one thread. *)
LeaseKept(t) ==
    wd.pc = "lease" /\ wd'.pc = "top" /\ thread[t] = "stop" /\ thread'[t] = "running"
    => clock >= ss.deadline

LEMMA LeaseKeptStep ==
    ASSUME TypeOK, WdBehind, [Next]_vars, NEW t \in Threads
    PROVE  LeaseKept(t)
  <1>t. clock \in Nat /\ wd \in WdType /\ ss \in StopSession
    BY DEF TypeOK, EngineTypeOK, WdType
  <1>1. CASE UNCHANGED thread \/ UNCHANGED wd
    BY <1>1, <1>t, Zenon DEF LeaseKept
  <1>2. CASE WatchdogLease
    <2>1. LowerRecovered.deadline = ss.deadline
      BY <1>t, Zenon DEF LowerRecovered, StopSession
    <2>2. LeaseOver(LowerRecovered) \/ UNCHANGED thread
      BY <1>2, Zenon DEF WatchdogLease, LowerRecovered
    <2>3. CASE LeaseOver(LowerRecovered)
      <3>1. wd.now \in Nat /\ ss.deadline \in Nat
        BY <1>t, Zenon DEF WdType, StopSession
      <3> QED
        BY <1>t, <2>1, <2>3, <3>1 DEF LeaseOver, WdBehind, LeaseKept
    <2> QED
      BY <1>1, <2>2, <2>3, Zenon
  <1>3. CASE Watchdog /\ ~WatchdogLease
    BY <1>1, <1>3, Zenon DEF Watchdog, WatchdogRead, WatchdogEngine, WatchdogEngineBusy,
                      WatchdogMiss, WatchdogExit, stopVars
  <1>4. CASE Clock \/ UNCHANGED vars
    BY <1>1, <1>4, Zenon DEF Clock, vars, wdVars
  <1> QED
    BY <1>1, <1>2, <1>3, <1>4, OthersLeaveWatchdog, Zenon DEF Next

(* The watchdog never resumes a stopped thread before the lease has run out, *)
(* however old the clock reading it decides with and whatever session began *)
(* or was renewed since: the reading is at most the clock, so a deadline it *)
(* has passed is one the clock has passed.                                  *)
THEOREM LeaseRespected == Spec => WatchdogKeepsLease
  <1>1. TypeOK /\ WdBehind /\ [Next]_vars => (TypeOK /\ WdBehind)'
    BY TypeStep, WdBehindStep, Zenon
  <1>2. Init => TypeOK /\ WdBehind
    <2>1. Init => WdBehind
      BY DEF Init, EngineInit, WdTop, WdBehind
    <2> QED
      BY <2>1, TypeInit, Zenon
  <1>3. TypeOK /\ WdBehind /\ [Next]_vars =>
           [\A t \in Threads :
               wd.pc = "lease" /\ wd'.pc = "top" /\ thread[t] = "stop" /\ thread'[t] = "running"
               => clock >= ss.deadline]_vars
    BY LeaseKeptStep, Zenon DEF LeaseKept
  <1> QED
    BY <1>1, <1>2, <1>3, PTL DEF Spec, WatchdogKeepsLease

-----------------------------------------------------------------------------
(* Torn comparators keep their process stopped: the inductive invariant *)

(* Hardware and stop tokens are handed out in order, so that a new session   *)
(* never carries a token that somebody still remembers.                     *)
TokensOrdered ==
    /\ ss.token < nextToken /\ ss.hwToken < nextHw
    /\ hw.tok < nextHw /\ wd.hw < nextHw
    /\ \A k \in HwTokens : granted[k] # NoProc => k < nextHw
    /\ \A c \in Threads :
          /\ call[c].op \in {"update", "updated"} =>
                call[c].token < nextToken /\ call[c].hw < nextHw
          /\ call[c].op = "released" => call[c].hw < nextHw

(* Once module_stop has stopped the engine nobody acquires it again. *)
EngineDead == ~ready /\ ~hw.active

EngineStates ==
    /\ ~hw.active => hw = NoHw
    /\ module # "loaded" => EngineDead
    /\ ~(ss.hwMutation /\ ss.hwPending)
    /\ ResumeBusy(ss) => ss.active

(* Only the controller of a stop raises its gate, and the gate stays up     *)
(* until the engine has been called.                                        *)
GateOwner ==
    \A c \in Threads :
        /\ call[c].op \in {"update", "updated"} /\ ss.active /\ ss.token = call[c].token
              => ss.controller = c
        /\ call[c].op = "update" =>
              /\ hw.regs # "torn"
              /\ EngineDead \/ GateIs(c, call[c])
        /\ call[c].op = "updated" /\ call[c].result # "restore" /\ GateIs(c, call[c])
              => hw.regs # "torn"

(* Whoever is about to lower a gate after a restoration is right about it.  *)
RestorationKnown ==
    /\ wd.recovered => wd.pc = "lease" /\ ~Owns(wd.pid, wd.hw)
    /\ \A c \in Threads : call[c].op = "released" => ~Owns(ProcOf[c], call[c].hw)

-----------------------------------------------------------------------------
(* Torn hardware keeps its process stopped *)

Held ==
    /\ TornHardwareHeld
    /\ TokensOrdered
    /\ EngineStates
    /\ GateOwner
    /\ RestorationKnown

(* What the invariant reads of a session besides its gate. *)
SessionFits ==
    /\ ss'.token < nextToken' /\ ss'.hwToken < nextHw
    /\ ~(ss'.hwMutation /\ ss'.hwPending)
    /\ ResumeBusy(ss') => ss'.active
    /\ \A c \in Threads :
          call[c].op \in {"update", "updated"} /\ ss'.active /\ ss'.token = call[c].token
          => ss'.controller = c

(* The gate of the old session is up and so is the same gate of the new one,*)
(* or neither is up.                                                        *)
GateKept ==
    IF ResumeBusy(ss)
    THEN /\ ss'.active = ss.active /\ ss'.pid = ss.pid /\ ss'.token = ss.token
         /\ ss'.hwMutation = ss.hwMutation /\ ss'.hwPending = ss.hwPending
         /\ ss'.hwToken = ss.hwToken
    ELSE ~ResumeBusy(ss')

(* The calls in flight that the invariant speaks of stay as they are, or end.*)
CallsKept ==
    \A c \in Threads :
        call'[c] = call[c] \/ call'[c].op \notin {"update", "updated", "released"}

WdKept ==
    \/ UNCHANGED wd
    \/ ~wd'.recovered /\ wd'.hw \in {0, ss.hwToken, wd.hw}

(* A step that leaves the engine alone and keeps the gate keeps Held. *)
LEMMA SessionStep ==
    ASSUME TypeOK, Held, SessionFits, GateKept, CallsKept, WdKept,
           UNCHANGED <<hw, ready, nextHw, granted>>,
           nextToken' \in Nat, nextToken' >= nextToken,
           module' # "loaded" => module # "loaded"
    PROVE  Held'
  <1>t. /\ ss \in StopSession /\ hw \in HwSession /\ nextToken \in Nat /\ nextHw \in Nat
        /\ call \in [Threads -> Calls] /\ wd.hw \in Int
    BY DEF TypeOK, EngineTypeOK, HwTokens
  <1>1. TornHardwareHeld'
    BY Zenon DEF Held, TornHardwareHeld, GateKept, ResumeBusy
  <1>2. TokensOrdered'
    <2>1. \A c \in Threads :
            /\ call'[c].op \in {"update", "updated"} =>
                  call'[c].token < nextToken' /\ call'[c].hw < nextHw'
            /\ call'[c].op = "released" => call'[c].hw < nextHw'
      <3> SUFFICES ASSUME NEW c \in Threads
                   PROVE  /\ call'[c].op \in {"update", "updated"} =>
                                call'[c].token < nextToken' /\ call'[c].hw < nextHw'
                          /\ call'[c].op = "released" => call'[c].hw < nextHw'
        BY Zenon
      <3>1. CASE call'[c] = call[c]
        <4>1. call[c].op \in {"update", "updated"} => call[c].token \in Nat
          BY <1>t DEF Calls, Tokens
        <4> QED
          BY <3>1, <4>1, <1>t DEF Held, TokensOrdered
      <3>2. CASE call'[c].op \notin {"update", "updated", "released"}
        BY <3>2, Zenon
      <3> QED
        BY <3>1, <3>2, Zenon DEF CallsKept
    <2>2. wd'.hw < nextHw'
      BY <1>t DEF Held, TokensOrdered, WdKept, TypeOK, EngineTypeOK
    <2> QED
      BY <2>1, <2>2, Zenon DEF Held, TokensOrdered, SessionFits
  <1>3. EngineStates'
    BY Zenon DEF Held, EngineStates, SessionFits, EngineDead
  <1>4. GateOwner'
    <2> SUFFICES ASSUME NEW c \in Threads, call'[c] = call[c],
                        call[c].op \in {"update", "updated"}
                 PROVE  /\ ss'.active /\ ss'.token = call[c].token => ss'.controller = c
                        /\ call[c].op = "update" =>
                              /\ hw.regs # "torn"
                              /\ EngineDead \/ GateIs(c, call[c])'
                        /\ call[c].op = "updated" /\ call[c].result # "restore"
                           /\ GateIs(c, call[c])' => hw.regs # "torn"
      BY Zenon DEF CallsKept, GateOwner, EngineDead, GateIs, Matches
    <2>1. GateIs(c, call[c]) = GateIs(c, call[c])'
      BY Zenon DEF GateKept, GateIs, Matches, ResumeBusy
    <2> QED
      BY <2>1, Zenon DEF SessionFits, Held, GateOwner
  <1>5. RestorationKnown'
    BY Zenon DEF Held, RestorationKnown, WdKept, CallsKept, Owns
  <1> QED
    BY <1>1, <1>2, <1>3, <1>4, <1>5, Zenon DEF Held

(* What resume_session_locked does to the gate and the identity of s. *)
LEMMA ResumeOutcome ==
    ASSUME NEW s \in StopSession, NEW th, ResumeSession(s, th)
    PROVE  \/ ResumeBusy(s) /\ ss' = s
           \/ ~ResumeBusy(s) /\ ss' = NoSession
           \/ /\ ~ResumeBusy(s) /\ ~ResumeBusy(ss') /\ ss'.active
              /\ ss'.pid = s.pid /\ ss'.token = s.token /\ ss'.controller = s.controller
              /\ ss'.hwToken = s.hwToken
  <1>1. CASE ResumeBusy(s)
    BY <1>1, Zenon DEF ResumeSession
  <1>2. CASE ~ResumeBusy(s)
    <2>1. PICK stuck : ss' = AfterResume(s, stuck)
      BY <1>2, Zenon DEF ResumeSession
    <2>2. CASE stuck = {}
      BY <1>2, <2>1, <2>2, Zenon DEF AfterResume
    <2>3. CASE stuck # {}
      <3>1. ss' = [s EXCEPT !.suspended = stuck, !.active = TRUE, !.deadline = 0]
        BY <2>1, <2>3, Zenon DEF AfterResume
      <3>2. /\ ss'.active /\ ss'.pid = s.pid /\ ss'.token = s.token
            /\ ss'.controller = s.controller /\ ss'.hwToken = s.hwToken
            /\ ss'.hwMutation = s.hwMutation /\ ss'.hwPending = s.hwPending
        BY <3>1, Zenon DEF StopSession
      <3> QED
        BY <1>2, <3>2, Zenon DEF ResumeBusy
    <2> QED
      BY <2>2, <2>3, Zenon
  <1> QED
    BY <1>1, <1>2, Zenon

LEMMA NoSessionFields ==
    /\ ~NoSession.active /\ ~ResumeBusy(NoSession) /\ NoSession.token = 0
    /\ NoSession.hwToken = 0 /\ ~NoSession.hwMutation /\ ~NoSession.hwPending
  BY Zenon DEF NoSession, ResumeBusy

(* Resuming the current session, or a session that differs from it only in  *)
(* its flags, leaves a session that fits.                                   *)
LEMMA ResumeFits ==
    ASSUME TypeOK, Held, NEW s \in StopSession,
           ss.active, s.active, s.token = ss.token, s.controller = ss.controller,
           s.hwToken \in {0, ss.hwToken}, ~(s.hwMutation /\ s.hwPending),
           ResumeSession(s, thread) \/ ss' = s,
           UNCHANGED <<nextToken, nextHw>>
    PROVE  SessionFits
  <1>t. nextToken \in 1 .. MaxToken + 1 /\ nextHw \in 1 .. MaxHwToken + 1
    BY Zenon DEF TypeOK, EngineTypeOK
  <1>o. /\ ss.token < nextToken /\ ss.hwToken < nextHw
        /\ \A c \in Threads :
              call[c].op \in {"update", "updated"} /\ ss.token = call[c].token
              => ss.controller = c
    BY Zenon DEF Held, TokensOrdered, GateOwner
  <1>1. CASE ss' = s
    BY <1>1, <1>t, <1>o DEF SessionFits
  <1>2. CASE ss' = NoSession
    BY <1>2, <1>t, NoSessionFields DEF SessionFits
  <1>3. CASE /\ ~ResumeBusy(ss') /\ ss'.active
             /\ ss'.token = s.token /\ ss'.controller = s.controller
             /\ ss'.hwToken = s.hwToken
    <2>1. ~(ss'.hwMutation /\ ss'.hwPending)
      BY <1>3, Zenon DEF ResumeBusy
    <2> QED
      BY <1>3, <1>t, <1>o, <2>1 DEF SessionFits
  <1> QED
    BY <1>1, <1>2, <1>3, ResumeOutcome, Zenon

LEMMA ResumeKeepsGate ==
    ASSUME TypeOK, ResumeSession(ss, thread)
    PROVE  GateKept
  <1>1. ss \in StopSession
    BY Zenon DEF TypeOK
  <1> QED
    BY <1>1, ResumeOutcome, NoSessionFields, Zenon DEF GateKept

LEMMA StopCallHeld ==
    ASSUME TypeOK, Held, NEW c \in Stoppers, StopCall(c)
    PROVE  Held'
  <1> c \in Threads
    BY Zenon
  <1> USE DEF stopVars, wdVars, engineVars
  <1>t. /\ ss \in StopSession /\ call \in [Threads -> Calls]
        /\ nextToken \in 1 .. MaxToken + 1 /\ nextHw \in 1 .. MaxHwToken + 1
    BY Zenon DEF TypeOK, EngineTypeOK
  <1>n. nextToken \in Nat
    BY <1>t
  <1>i. Idle.op = "idle"
    BY Zenon DEF Idle
  <1>h. /\ ss.token < nextToken /\ ss.hwToken < nextHw
        /\ ~(ss.hwMutation /\ ss.hwPending) /\ (ResumeBusy(ss) => ss.active)
        /\ \A d \in Threads :
              call[d].op \in {"update", "updated"} /\ ss.active /\ ss.token = call[d].token
              => ss.controller = d
    BY Zenon DEF Held, TokensOrdered, EngineStates, GateOwner
  <1>k. ASSUME UNCHANGED ss, UNCHANGED <<nextToken, nextHw>>
        PROVE  SessionFits /\ GateKept
    BY <1>k, <1>h, Zenon DEF SessionFits, GateKept
  <1>1. CASE \/ \E e \in Exempt \cup {NoThread}, l \in StopLeases : BeginStopList(c, e, l)
             \/ BeginStopRefused(c) \/ BeginStopReturn(c)
    <2>1. CallsKept
      BY <1>1, <1>t, <1>i DEF BeginStopList, BeginStopRefused, BeginStopReturn, CallsKept
    <2>2. UNCHANGED <<ss, nextToken, hw, ready, nextHw, granted, wd, module>>
      BY <1>1, Zenon DEF BeginStopList, BeginStopRefused, BeginStopReturn
    <2> QED
      BY <1>n, <1>k, <2>1, <2>2, SessionStep DEF WdKept
  <1>2. CASE BeginStopLocked(c)
    <2>1. CallsKept
      BY <1>2, <1>t, Zenon DEF BeginStopLocked, CallsKept
    <2>2. UNCHANGED <<hw, ready, nextHw, granted, wd, module>> /\ nextToken' = nextToken + 1
      BY <1>2, Zenon DEF BeginStopLocked
    <2>3. ~ss.active /\ ~ResumeBusy(ss)
      BY <1>2, <1>h, Zenon DEF BeginStopLocked
    <2>4. NewSession(c, ToSuspend(c)) \in StopSession
      <3>1. ToSuspend(c) \in SUBSET Threads
        BY <1>2, <1>t, Zenon DEF BeginStopLocked, ToSuspend, Calls
      <3> QED
        BY <1>2, <3>1, NewSessionType, Zenon DEF BeginStopLocked
    <2>5. /\ NewSession(c, ToSuspend(c)).hwToken = 0
          /\ ~NewSession(c, ToSuspend(c)).hwMutation
          /\ ~NewSession(c, ToSuspend(c)).hwPending
      BY NoSessionType, Zenon DEF NewSession, StopSession, NoSession
    <2>6. ss'.token = nextToken /\ ss'.hwToken = 0 /\ ~ss'.hwMutation /\ ~ss'.hwPending
      BY <1>2, <2>4, <2>5, Zenon DEF BeginStopLocked, StopSession
    <2>7. \A d \in Threads :
             call[d].op \in {"update", "updated"} => call[d].token # ss'.token
      <3> SUFFICES ASSUME NEW d \in Threads, call[d].op \in {"update", "updated"}
                   PROVE  call[d].token # nextToken
        BY <2>6, Zenon
      <3>1. call[d].token \in Nat
        BY <1>t DEF Calls, Tokens
      <3>2. call[d].token < nextToken
        BY Zenon DEF Held, TokensOrdered
      <3> QED
        BY <1>n, <3>1, <3>2
    <2>8. SessionFits
      BY <1>t, <2>2, <2>6, <2>7 DEF SessionFits, ResumeBusy
    <2>9. GateKept
      BY <2>3, <2>6, Zenon DEF GateKept, ResumeBusy
    <2> QED
      BY <1>n, <2>1, <2>2, <2>8, <2>9, SessionStep DEF WdKept
  <1>3. CASE BeginStopFailed(c)
    <2>1. CallsKept
      BY <1>3, <1>t, <1>i, Zenon DEF BeginStopFailed, CallsKept
    <2>2. UNCHANGED <<hw, ready, nextHw, granted, wd, module, nextToken>>
      BY <1>3, Zenon DEF BeginStopFailed
    <2>3. ~ss.active /\ ~ResumeBusy(ss)
      BY <1>3, <1>h, Zenon DEF BeginStopFailed
    <2>4. PICK S \in SUBSET {t \in ToSuspend(c) : thread[t] = "running"} :
             ResumeSession(NewSession(c, S), SuspendAll(thread, S))
      BY <1>3, Zenon DEF BeginStopFailed
    <2>5. NewSession(c, S) \in StopSession
      <3>1. S \in SUBSET Threads
        BY <1>3, <1>t, Zenon DEF BeginStopFailed, ToSuspend, Calls
      <3> QED
        BY <1>3, <3>1, NewSessionType, Zenon DEF BeginStopFailed
    <2>6. /\ NewSession(c, S).hwToken = 0 /\ NewSession(c, S).token = 0
          /\ ~ResumeBusy(NewSession(c, S))
      BY NoSessionType, Zenon DEF NewSession, StopSession, NoSession, ResumeBusy
    <2>7. ss'.token = 0 /\ ss'.hwToken = 0 /\ ~ResumeBusy(ss')
      BY <2>4, <2>5, <2>6, ResumeOutcome, NoSessionFields, Zenon
    <2>8. \A d \in Threads :
             call[d].op \in {"update", "updated"} => call[d].token # ss'.token
      BY <1>t, <2>7 DEF Calls, Tokens
    <2>9. SessionFits /\ GateKept
      BY <1>t, <2>2, <2>3, <2>7, <2>8 DEF SessionFits, ResumeBusy, GateKept
    <2> QED
      BY <1>n, <2>1, <2>2, <2>9, SessionStep DEF WdKept
  <1>4. CASE BeginStopCopyFailed(c) \/ \E tok \in Tokens : EndStop(c, tok)
    <2>1. ResumeSession(ss, thread) /\ ss.active
      BY <1>4, Zenon DEF BeginStopCopyFailed, EndStop, Matches
    <2>2. CallsKept
      BY <1>4, <1>t, <1>i, Zenon DEF BeginStopCopyFailed, EndStop, CallsKept
    <2>3. UNCHANGED <<hw, ready, nextHw, granted, wd, module, nextToken>>
      BY <1>4, Zenon DEF BeginStopCopyFailed, EndStop
    <2>4. SessionFits
      BY <1>t, <1>h, <2>1, <2>3, ResumeFits, Zenon
    <2>5. GateKept
      BY <2>1, ResumeKeepsGate, Zenon
    <2> QED
      BY <1>n, <2>2, <2>3, <2>4, <2>5, SessionStep DEF WdKept
  <1>5. ASSUME NEW tok \in Tokens,
               RenewStopFailed(c, tok) \/ \E l \in StopLeases : RenewStop(c, tok, l)
        PROVE  Held'
    <2>1. /\ ss'.active = ss.active /\ ss'.pid = ss.pid /\ ss'.token = ss.token
          /\ ss'.controller = ss.controller /\ ss'.hwMutation = ss.hwMutation
          /\ ss'.hwPending = ss.hwPending /\ ss'.hwToken = ss.hwToken
      <3>1. CASE RenewStopFailed(c, tok)
        <4>1. PICK R : ss' = [ss EXCEPT !.suspended = R]
          BY <3>1, Zenon DEF RenewStopFailed
        <4> QED
          BY <4>1, <1>t, Zenon DEF StopSession
      <3>2. ASSUME NEW l \in StopLeases, RenewStop(c, tok, l)
            PROVE  /\ ss'.active = ss.active /\ ss'.pid = ss.pid /\ ss'.token = ss.token
                   /\ ss'.controller = ss.controller /\ ss'.hwMutation = ss.hwMutation
                   /\ ss'.hwPending = ss.hwPending /\ ss'.hwToken = ss.hwToken
        BY <3>2, <1>t, Zenon DEF RenewStop, StopSession
      <3> QED
        BY <1>5, <3>1, <3>2, Zenon
    <2>2. UNCHANGED <<hw, ready, nextHw, granted, wd, module, nextToken, call>>
      BY <1>5, Zenon DEF RenewStop, RenewStopFailed
    <2>3. SessionFits /\ GateKept
      BY <1>h, <2>1, <2>2, Zenon DEF SessionFits, GateKept, ResumeBusy
    <2> QED
      BY <1>n, <2>2, <2>3, SessionStep DEF WdKept, CallsKept
  <1> QED
    BY <1>1, <1>2, <1>3, <1>4, <1>5, Zenon DEF StopCall

(* A step of the engine that tears nothing and gives no session away. *)
EngineKept ==
    /\ nextHw' \in Nat /\ nextHw' >= nextHw
    /\ ~hw'.active => hw' = NoHw
    /\ EngineDead => EngineDead'
    /\ hw'.regs = "torn" => hw.regs = "torn"
    /\ \/ ~hw'.active
       \/ hw.active /\ hw'.pid = hw.pid /\ hw'.tok = hw.tok
       \/ hw'.tok = nextHw /\ nextHw' = nextHw + 1 /\ hw'.regs # "torn"
    /\ \A k \in HwTokens : granted'[k] # NoProc => k < nextHw'

EngineCalls ==
    \A c \in Threads :
        \/ call'[c] = call[c]
        \/ call'[c].op \notin {"update", "updated", "released"}
        \/ /\ call'[c].op = "released" /\ call'[c].hw < nextHw'
           /\ ~(hw'.active /\ hw'.pid = ProcOf[c] /\ hw'.tok = call'[c].hw)

EngineWd ==
    \/ UNCHANGED wd
    \/ /\ wd'.hw = wd.hw /\ wd'.pid = wd.pid
       /\ wd'.recovered =>
             wd'.pc = "lease" /\ ~(hw'.active /\ hw'.pid = wd.pid /\ hw'.tok = wd.hw)

LEMMA EngineStep ==
    ASSUME TypeOK, Held, EngineKept, EngineCalls, EngineWd,
           UNCHANGED <<ss, nextToken>>,
           module' = module \/ (module' # "loaded" => EngineDead')
    PROVE  Held'
  <1>t. /\ ss \in StopSession /\ hw \in HwSession /\ nextToken \in Nat /\ nextHw \in Nat
        /\ call \in [Threads -> Calls] /\ wd.hw \in Int
    BY DEF TypeOK, EngineTypeOK, HwTokens
  <1>n. NoHw.tok = 0 /\ NoHw.regs = "saved" /\ ~NoHw.active
    BY Zenon DEF NoHw
  <1>c. \A c \in Threads :
          /\ call[c].op \in {"update", "updated", "released"} => call[c].hw \in Nat
          /\ call[c].op \in {"update", "updated"} => call[c].token \in Nat
    BY <1>t DEF Calls, HwTokens, Tokens
  <1>h. /\ ss.token < nextToken /\ ss.hwToken < nextHw /\ hw.tok < nextHw /\ wd.hw < nextHw
        /\ \A c \in Threads :
             /\ call[c].op \in {"update", "updated"} =>
                   call[c].token < nextToken /\ call[c].hw < nextHw
             /\ call[c].op = "released" => call[c].hw < nextHw
    BY Zenon DEF Held, TokensOrdered
  <1>i. ss.hwToken \in Int /\ hw.tok \in Int /\ nextHw > 0
    BY <1>t DEF StopSession, HwSession, HwTokens, TypeOK, EngineTypeOK
  <1>1. TornHardwareHeld'
    BY <1>n, Zenon DEF Held, TornHardwareHeld, EngineKept
  <1>2. TokensOrdered'
    <2>1. \A c \in Threads :
            /\ call'[c].op \in {"update", "updated"} =>
                  call'[c].token < nextToken' /\ call'[c].hw < nextHw'
            /\ call'[c].op = "released" => call'[c].hw < nextHw'
      BY <1>t, <1>c, <1>h DEF EngineCalls, EngineKept
    <2>2. hw'.tok < nextHw'
      BY <1>t, <1>n, <1>h, <1>i DEF EngineKept
    <2>3. wd'.hw < nextHw' /\ ss'.hwToken < nextHw'
      BY <1>t, <1>h, <1>i DEF EngineKept, EngineWd
    <2> QED
      BY <1>h, <2>1, <2>2, <2>3, Zenon DEF TokensOrdered, EngineKept
  <1>3. EngineStates'
    BY Zenon DEF Held, EngineStates, EngineKept
  <1>4. GateOwner'
    BY DEF Held, GateOwner, EngineKept, EngineCalls, GateIs, Matches
  <1>5. RestorationKnown'
    <2>1. wd'.recovered =>
             wd'.pc = "lease" /\ ~(hw'.active /\ hw'.pid = wd'.pid /\ hw'.tok = wd'.hw)
      <3>1. CASE UNCHANGED wd
        BY <3>1, <1>t, <1>h DEF Held, RestorationKnown, Owns, EngineKept
      <3> QED
        BY <3>1, Zenon DEF EngineWd
    <2>2. ASSUME NEW c \in Threads, call'[c].op = "released"
          PROVE  ~(hw'.active /\ hw'.pid = ProcOf[c] /\ hw'.tok = call'[c].hw)
      <3>1. CASE call'[c] = call[c]
        <4>1. /\ ~(hw.active /\ hw.pid = ProcOf[c] /\ hw.tok = call[c].hw)
              /\ call[c].hw \in Nat /\ call[c].hw < nextHw
          BY <2>2, <3>1, <1>c, <1>h, Zenon DEF Held, RestorationKnown, Owns
        <4> QED
          BY <3>1, <4>1, <1>t DEF EngineKept
      <3> QED
        BY <2>2, <3>1, Zenon DEF EngineCalls
    <2> QED
      BY <2>1, <2>2, Zenon DEF RestorationKnown, Owns
  <1> QED
    BY <1>1, <1>2, <1>3, <1>4, <1>5, Zenon DEF Held

(* A step that lowers the gate: the hardware is not torn, or the gate stays  *)
(* up for the watchdog, and no update is on its way to a live engine.       *)
LEMMA LowerStep ==
    ASSUME TypeOK, Held, SessionFits, CallsKept, WdKept,
           UNCHANGED <<hw, ready, nextHw, granted, nextToken>>,
           module' # "loaded" => EngineDead,
           hw.regs # "torn" \/ (~ss'.hwMutation /\ TornHardwareHeld'),
           \A d \in Threads : call'[d].op = "update" => EngineDead /\ hw.regs # "torn"
    PROVE  Held'
  <1>t. /\ ss \in StopSession /\ hw \in HwSession /\ nextToken \in Nat /\ nextHw \in Nat
        /\ call \in [Threads -> Calls] /\ wd.hw \in Int
    BY DEF TypeOK, EngineTypeOK, HwTokens
  <1>1. TornHardwareHeld'
    BY Zenon DEF TornHardwareHeld
  <1>2. TokensOrdered'
    <2>1. \A c \in Threads :
            /\ call'[c].op \in {"update", "updated"} =>
                  call'[c].token < nextToken' /\ call'[c].hw < nextHw'
            /\ call'[c].op = "released" => call'[c].hw < nextHw'
      BY Zenon DEF Held, TokensOrdered, CallsKept
    <2>2. wd'.hw < nextHw'
      BY <1>t DEF Held, TokensOrdered, WdKept, TypeOK, EngineTypeOK
    <2> QED
      BY <2>1, <2>2, Zenon DEF Held, TokensOrdered, SessionFits
  <1>3. EngineStates'
    BY Zenon DEF Held, EngineStates, SessionFits, EngineDead
  <1>4. GateOwner'
    <2> SUFFICES ASSUME NEW c \in Threads, call'[c] = call[c],
                        call[c].op \in {"update", "updated"}
                 PROVE  /\ ss'.active /\ ss'.token = call[c].token => ss'.controller = c
                        /\ call[c].op = "update" =>
                              /\ hw.regs # "torn"
                              /\ EngineDead \/ GateIs(c, call[c])'
                        /\ call[c].op = "updated" /\ call[c].result # "restore"
                           /\ GateIs(c, call[c])' => hw.regs # "torn"
      BY Zenon DEF CallsKept, GateOwner, EngineDead, GateIs, Matches
    <2> QED
      BY Zenon DEF SessionFits, GateIs
  <1>5. RestorationKnown'
    BY Zenon DEF Held, RestorationKnown, WdKept, CallsKept, Owns
  <1> QED
    BY <1>1, <1>2, <1>3, <1>4, <1>5, Zenon DEF Held

(* The gate of an update in flight belongs to one thread. *)
LEMMA OneUpdate ==
    ASSUME Held, NEW c \in Threads, NEW d \in Threads, c # d,
           call[c].op \in {"update", "updated"}, GateIs(c, call[c]),
           call[d].op \in {"update", "updated"}
    PROVE  ~GateIs(d, call[d]) /\ (call[d].op = "update" => EngineDead)
  BY Zenon DEF Held, GateOwner, GateIs, Matches

LEMMA TornActive ==
    ASSUME Held, hw.regs = "torn"
    PROVE  hw.active
  BY DEF Held, EngineStates, NoHw

LEMMA UpdateHeld ==
    ASSUME TypeOK, Held, NEW c \in HwCallers,
           \/ \E tok \in Tokens, k \in HwTokens : UpdateHardware(c, tok, k)
           \/ \E r \in {"ok", "other", "restore"}, a \in {"saved", "armed"} : UpdateEngine(c, r, a)
           \/ UpdateFinish(c)
    PROVE  Held'
  <1> c \in Threads /\ ProcOf[c] \in Procs
    BY Zenon
  <1> USE DEF stopVars, wdVars
  <1>t. /\ ss \in StopSession /\ call \in [Threads -> Calls] /\ hw \in HwSession
        /\ nextToken \in 1 .. MaxToken + 1 /\ nextHw \in 1 .. MaxHwToken + 1
    BY Zenon DEF TypeOK, EngineTypeOK
  <1>1. ASSUME NEW tok \in Tokens, NEW k \in HwTokens, UpdateHardware(c, tok, k)
        PROVE  Held'
    <2>1. /\ ss'.active /\ ss'.pid = ss.pid /\ ss'.token = ss.token
          /\ ss'.controller = ss.controller /\ ss'.hwMutation /\ ~ss'.hwPending
          /\ ss'.hwToken = k
      BY <1>1, <1>t, Zenon DEF UpdateHardware, StopIsCurrent, Matches, StopSession
    <2>2. /\ ss.active /\ ss.pid = ProcOf[c] /\ ss.token = tok /\ ss.controller = c
          /\ ~ss.hwMutation /\ ~ss.hwPending
      BY <1>1, Zenon DEF UpdateHardware, StopIsCurrent, Matches
    <2>3. /\ call'[c] = [op |-> "update", token |-> tok, hw |-> k]
          /\ \A d \in Threads : d # c => call'[d] = call[d]
      BY <1>1, <1>t, Zenon DEF UpdateHardware
    <2>4. UNCHANGED <<hw, ready, nextHw, nextToken, granted, wd, module>>
      BY <1>1, Zenon DEF UpdateHardware, engineVars
    <2>5. hw.regs # "torn"
      BY <2>2, Zenon DEF Held, TornHardwareHeld
    <2>6. k < nextHw /\ tok < nextToken
      BY <1>1, <2>2, Zenon DEF UpdateHardware, HwTokensOf, Held, TokensOrdered
    <2>7. TornHardwareHeld'
      BY <2>4, <2>5, Zenon DEF TornHardwareHeld
    <2>8. TokensOrdered'
      <3>1. ASSUME NEW d \in Threads
            PROVE  /\ call'[d].op \in {"update", "updated"} =>
                         call'[d].token < nextToken' /\ call'[d].hw < nextHw'
                   /\ call'[d].op = "released" => call'[d].hw < nextHw'
        <4>1. CASE d = c
          <5>1. call'[d].op = "update" /\ call'[d].token = tok /\ call'[d].hw = k
            BY <2>3, <4>1
          <5>2. tok < nextToken' /\ k < nextHw'
            BY <2>4, <2>6, Zenon
          <5> QED
            BY <5>1, <5>2, Zenon
        <4>2. CASE d # c
          <5>1. /\ call[d].op \in {"update", "updated"} =>
                      call[d].token < nextToken /\ call[d].hw < nextHw
                /\ call[d].op = "released" => call[d].hw < nextHw
            BY Zenon DEF Held, TokensOrdered
          <5> QED
            BY <2>3, <2>4, <4>2, <5>1, Zenon
        <4> QED
          BY <4>1, <4>2, Zenon
      <3>2. ss'.token < nextToken' /\ ss'.hwToken < nextHw'
        BY <2>1, <2>2, <2>4, <2>6, Zenon DEF Held, TokensOrdered
      <3> QED
        BY <2>4, <3>1, <3>2, Zenon DEF Held, TokensOrdered
    <2>9. EngineStates'
      BY <2>1, <2>4, Zenon DEF Held, EngineStates, EngineDead, ResumeBusy
    <2>10. GateOwner'
      <3> SUFFICES ASSUME NEW d \in Threads, call'[d].op \in {"update", "updated"}
                   PROVE  /\ ss'.active /\ ss'.token = call'[d].token => ss'.controller = d
                          /\ call'[d].op = "update" => EngineDead \/ GateIs(d, call[d])'
        BY <2>4, <2>5, Zenon DEF GateOwner, EngineDead, GateIs, Matches
      <3>1. CASE d = c
        <4>1. ss'.active /\ ss'.controller = c /\ GateIs(c, call[c])'
          BY <2>1, <2>2, <2>3 DEF GateIs, Matches
        <4> QED
          BY <3>1, <4>1, Zenon
      <3>2. CASE d # c
        BY <3>2, <2>1, <2>2, <2>3, Zenon DEF Held, GateOwner, GateIs, Matches
      <3> QED
        BY <3>1, <3>2, Zenon
    <2>11. RestorationKnown'
      <3>1. wd'.recovered => wd'.pc = "lease" /\ ~Owns(wd.pid, wd.hw)'
        BY <2>4, Zenon DEF Held, RestorationKnown, Owns
      <3>2. ASSUME NEW d \in Threads, call'[d].op = "released"
            PROVE  ~Owns(ProcOf[d], call[d].hw)'
        <4>1. d # c /\ call'[d] = call[d]
          BY <2>3, <3>2
        <4> QED
          BY <2>4, <3>2, <4>1, Zenon DEF Held, RestorationKnown, Owns
      <3> QED
        BY <3>1, <3>2, Zenon DEF RestorationKnown
    <2> QED
      BY <2>7, <2>8, <2>9, <2>10, <2>11, Zenon DEF Held
  <1>2. ASSUME NEW r \in {"ok", "other", "restore"}, NEW a \in {"saved", "armed"},
               UpdateEngine(c, r, a)
        PROVE  Held'
    <2>1. UNCHANGED <<ss, nextToken, nextHw, granted, wd, module>> /\ call[c].op = "update"
      BY <1>2, Zenon DEF UpdateEngine, Update
    <2>2. /\ call'[c].op = "updated" /\ call'[c].token = call[c].token
          /\ call'[c].hw = call[c].hw /\ call'[c].result = r
          /\ \A d \in Threads : d # c => call'[d] = call[d]
      BY <1>2, <1>t, Zenon DEF UpdateEngine
    <2>3. hw.regs # "torn" /\ (EngineDead \/ GateIs(c, call[c]))
      BY <2>1, Zenon DEF Held, GateOwner
    <2>4. /\ ~hw'.active => hw' = NoHw
          /\ hw'.active => hw.active /\ hw'.pid = hw.pid /\ hw'.tok = hw.tok
          /\ EngineDead => EngineDead'
          /\ hw'.regs = "torn" => Owns(ProcOf[c], call[c].hw) /\ r = "restore"
          /\ hw'.tok \in {0, hw.tok}
      <3>1. Update(ProcOf[c], call[c].hw, clock, r, a)
        BY <1>2, Zenon DEF UpdateEngine
      <3>2. \/ hw' = [hw EXCEPT !.regs = a] /\ ready' = ready /\ Owns(ProcOf[c], call[c].hw)
            \/ hw' = NoHw /\ (ready' => ready)
            \/ /\ hw' = [hw EXCEPT !.regs = "torn"] /\ ready' = FALSE
               /\ Owns(ProcOf[c], call[c].hw) /\ r = "restore"
            \/ hw' = hw /\ (ready' => ready)
        BY <3>1, Zenon DEF Update, RestoreOk, RestoreFailed
      <3>3. (~hw.active => hw = NoHw) /\ NoHw.regs = "saved" /\ NoHw.tok = 0 /\ ~NoHw.active
        BY Zenon DEF Held, EngineStates, NoHw
      <3>4. ASSUME NEW r2 \in {"saved", "armed", "torn"}, hw' = [hw EXCEPT !.regs = r2]
            PROVE  /\ hw'.active = hw.active /\ hw'.pid = hw.pid
                   /\ hw'.tok = hw.tok /\ hw'.regs = r2
        BY <3>4, <1>t, Zenon DEF HwSession
      <3>5. CASE hw' = [hw EXCEPT !.regs = a] /\ ready' = ready /\ Owns(ProcOf[c], call[c].hw)
        BY <3>3, <3>4, <3>5, Zenon DEF Owns, EngineDead
      <3>6. CASE hw' = NoHw /\ (ready' => ready)
        BY <3>3, <3>6, Zenon DEF EngineDead
      <3>7. CASE /\ hw' = [hw EXCEPT !.regs = "torn"] /\ ready' = FALSE
                 /\ Owns(ProcOf[c], call[c].hw) /\ r = "restore"
        BY <3>3, <3>4, <3>7, Zenon DEF Owns, EngineDead
      <3>8. CASE hw' = hw /\ (ready' => ready)
        BY <3>3, <3>8, <2>3, Zenon DEF EngineDead
      <3> QED
        BY <3>2, <3>5, <3>6, <3>7, <3>8, Zenon
    <2>5. ASSUME hw'.regs = "torn"
          PROVE  /\ hw.active /\ GateIs(c, call[c]) /\ r = "restore"
                 /\ ss.active /\ ss.pid = hw'.pid /\ ss.hwToken = hw'.tok /\ ss.hwMutation
      <3>1. Owns(ProcOf[c], call[c].hw) /\ r = "restore"
        BY <2>4, <2>5, Zenon
      <3> QED
        <4>1. hw.active /\ hw'.pid = hw.pid /\ hw'.tok = hw.tok
          <5>1. hw.active
            BY <3>1, Zenon DEF Owns
          <5>2. hw' # NoHw
            BY <2>5 DEF NoHw
          <5> QED
            BY <5>1, <5>2, <2>4, Zenon
        <4>2. GateIs(c, call[c])
          BY <2>3, <4>1, Zenon DEF EngineDead
        <4> QED
          BY <3>1, <4>1, <4>2, Zenon DEF Owns, GateIs, Matches
    <2>6. TornHardwareHeld'
      BY <2>1, <2>5, Zenon DEF TornHardwareHeld
    <2>7. TokensOrdered'
      <3>1. hw'.tok < nextHw'
        <4>1. hw.tok < nextHw
          BY Zenon DEF Held, TokensOrdered
        <4>2. nextHw' = nextHw /\ 0 < nextHw
          BY <1>t, <2>1
        <4>3. hw'.tok = 0 \/ hw'.tok = hw.tok
          BY <2>4, Zenon
        <4> QED
          BY <4>1, <4>2, <4>3, Zenon
      <3> QED
        BY <2>1, <2>2, <3>1, Zenon DEF Held, TokensOrdered
    <2>8. EngineStates'
      BY <2>1, <2>4, Zenon DEF Held, EngineStates
    <2>9. GateOwner'
      <3> SUFFICES ASSUME NEW d \in Threads
                   PROVE  /\ call'[d].op \in {"update", "updated"} /\ ss.active /\ ss.token = call'[d].token
                             => ss.controller = d
                          /\ call'[d].op = "update" =>
                                /\ hw'.regs # "torn"
                                /\ EngineDead' \/ GateIs(d, call[d])'
                          /\ call'[d].op = "updated" /\ call'[d].result # "restore"
                             /\ GateIs(d, call[d])' => hw'.regs # "torn"
        BY <2>1, Zenon DEF GateOwner
      <3>1. CASE d = c
        BY <3>1, <2>1, <2>2, <2>5, Zenon DEF Held, GateOwner
      <3>2. CASE d # c
        <4>1. GateIs(d, call[d])' = GateIs(d, call[d])
          BY <3>2, <2>1, <2>2, Zenon DEF GateIs, Matches
        <4>2. call'[d] = call[d]
          BY <3>2, <2>2, Zenon
        <4>3. ASSUME hw'.regs = "torn", call[d].op \in {"update", "updated"}
              PROVE  ~GateIs(d, call[d]) /\ call[d].op # "update"
          BY <4>3, <3>2, <2>1, <2>5, OneUpdate, Zenon DEF EngineDead
        <4>4. call[d].op = "update" => EngineDead \/ GateIs(d, call[d])
          BY Zenon DEF Held, GateOwner
        <4>5. call[d].op \in {"update", "updated"} /\ ss.active /\ ss.token = call[d].token
                 => ss.controller = d
          BY Zenon DEF Held, GateOwner
        <4> QED
          BY <4>1, <4>2, <4>3, <4>4, <4>5, <2>4, Zenon
      <3> QED
        BY <3>1, <3>2, Zenon
    <2>10. RestorationKnown'
      <3>1. \A d \in Threads : call'[d].op = "released" => call'[d] = call[d]
        BY <2>2, Zenon
      <3> QED
        BY <3>1, <2>1, <2>4, Zenon DEF Held, RestorationKnown, Owns
    <2> QED
      BY <2>6, <2>7, <2>8, <2>9, <2>10, Zenon DEF Held
  <1>3. CASE UpdateFinish(c)
    <2> DEFINE pending == call[c].result = "restore"
               lowered == [ss EXCEPT !.hwMutation = FALSE, !.hwPending = pending,
                                     !.hwToken = IF pending THEN @ ELSE 0]
    <2>1. UNCHANGED <<hw, ready, nextHw, nextToken, granted, wd, module>>
      BY <1>3, Zenon DEF UpdateFinish, engineVars
    <2>2. call'[c].op = "idle" /\ (\A d \in Threads : d # c => call'[d] = call[d])
      BY <1>3, <1>t, Zenon DEF UpdateFinish, Idle
    <2>3. CallsKept /\ WdKept
      BY <2>1, <2>2, Zenon DEF CallsKept, WdKept
    <2>4. CASE ~GateIs(c, call[c])
      <3>1. UNCHANGED ss
        BY <1>3, <2>4, Zenon DEF UpdateFinish
      <3>2. SessionFits /\ GateKept
        BY <3>1, <2>1, Zenon DEF SessionFits, GateKept, Held, TokensOrdered, EngineStates, GateOwner
      <3> QED
        BY <1>t, <2>1, <2>3, <3>2, SessionStep
    <2>5. CASE GateIs(c, call[c])
      <3>1. lowered \in StopSession
        BY <1>t, ZenonT(60) DEF StopSession
      <3>2. /\ lowered.active = ss.active /\ lowered.pid = ss.pid /\ lowered.token = ss.token
            /\ lowered.controller = ss.controller /\ ~lowered.hwMutation
            /\ lowered.hwPending = pending
            /\ lowered.hwToken = (IF pending THEN ss.hwToken ELSE 0)
        BY <1>t, Zenon DEF StopSession
      <3>3. /\ ResumeSession(lowered, thread) \/ ss' = lowered
            /\ pending => ss' = lowered
        BY <1>3, <2>5, Zenon DEF UpdateFinish
      <3> HIDE DEF lowered
      <3>4. ss.active
        BY <2>5, Zenon DEF GateIs, Matches
      <3>5. SessionFits
        BY <3>1, <3>2, <3>3, <3>4, <2>1, ResumeFits, Zenon
      <3>6. call[c].op = "updated"
        BY <1>3, Zenon DEF UpdateFinish
      <3>7. \A d \in Threads : call'[d].op = "update" => EngineDead /\ hw.regs # "torn"
        BY <2>2, <2>5, <3>6, OneUpdate, Zenon DEF Held, GateOwner
      <3>8. hw.regs # "torn" \/ (~ss'.hwMutation /\ TornHardwareHeld')
        <4>1. CASE pending
          BY <4>1, <2>1, <3>2, <3>3, Zenon DEF Held, TornHardwareHeld
        <4>2. CASE ~pending
          BY <4>2, <2>5, <3>6, Zenon DEF Held, GateOwner
        <4> QED
          BY <4>1, <4>2, Zenon
      <3>9. module' # "loaded" => EngineDead
        BY <2>1, Zenon DEF Held, EngineStates
      <3> QED
        BY <2>1, <2>3, <3>5, <3>7, <3>8, <3>9, LowerStep, Zenon
    <2> QED
      BY <2>4, <2>5, Zenon
  <1> QED
    BY <1>1, <1>2, <1>3, Zenon

(* RESTORE, whoever asks for it. *)
LEMMA RestoreKept ==
    ASSUME TypeOK, Held, NEW ok, Restore(ok), UNCHANGED <<nextHw, granted>>
    PROVE  /\ EngineKept
           /\ ok => ~hw'.active
  <1>1. nextHw \in Nat
    BY DEF TypeOK, EngineTypeOK
  <1>2. /\ ~hw.active => hw = NoHw
        /\ \A k \in HwTokens : granted[k] # NoProc => k < nextHw
    BY Zenon DEF Held, EngineStates, TokensOrdered
  <1>3. ~NoHw.active /\ NoHw.regs = "saved"
    BY Zenon DEF NoHw
  <1>4. CASE RestoreOk
    BY <1>1, <1>2, <1>3, <1>4 DEF RestoreOk, EngineKept, EngineDead
  <1>5. CASE ~ok /\ RestoreFailed
    BY <1>1, <1>2, <1>5 DEF RestoreFailed, EngineKept, EngineDead
  <1>6. ok => RestoreOk /\ ~hw'.active
    BY <1>3, Zenon DEF Restore, RestoreOk
  <1> QED
    BY <1>4, <1>5, <1>6, Zenon DEF Restore

LEMMA EngineSame ==
    ASSUME TypeOK, Held, UNCHANGED <<hw, ready, nextHw, granted>>
    PROVE  EngineKept
  <1>1. nextHw \in Nat
    BY DEF TypeOK, EngineTypeOK
  <1>2. /\ ~hw.active => hw = NoHw
        /\ \A k \in HwTokens : granted[k] # NoProc => k < nextHw
    BY Zenon DEF Held, EngineStates, TokensOrdered
  <1> QED
    BY <1>1, <1>2 DEF EngineKept, EngineDead

LEMMA HwCallHeld ==
    ASSUME TypeOK, Held, NEW c \in HwCallers, HwCall(c)
    PROVE  Held'
  <1> c \in Threads /\ ProcOf[c] \in Procs
    BY Zenon
  <1> USE DEF stopVars, wdVars
  <1>t. /\ ss \in StopSession /\ call \in [Threads -> Calls] /\ hw \in HwSession
        /\ nextToken \in 1 .. MaxToken + 1 /\ nextHw \in 1 .. MaxHwToken + 1
        /\ granted \in [HwTokens -> Procs \cup {NoProc}]
    BY Zenon DEF TypeOK, EngineTypeOK
  <1>i. Idle.op = "idle"
    BY Zenon DEF Idle
  <1>1. ASSUME NEW l \in HwLeases, NEW o \in AcquireOutcomes, NEW copied \in BOOLEAN,
               AcquireHardware(c, l, o, copied)
        PROVE  Held'
    <2>1. UNCHANGED <<ss, nextToken, wd, module>>
      BY <1>1, Zenon DEF AcquireHardware
    <2>2. EngineCalls
      BY <1>1, <1>t, <1>i, Zenon DEF AcquireHardware, EngineCalls
    <2>3. ready /\ ~hw.active /\ nextHw' = nextHw + 1
      BY <1>1, Zenon DEF AcquireHardware, Acquire
    <2>4. \/ hw' = hw
          \/ hw'.active /\ hw'.tok = nextHw /\ hw'.regs = "saved"
      BY <1>1 DEF AcquireHardware, Acquire
    <2>5. \A k \in HwTokens : granted'[k] # NoProc => k < nextHw'
      <3>1. \A k \in HwTokens : granted[k] # NoProc => k < nextHw
        BY Zenon DEF Held, TokensOrdered
      <3>2. \A k \in HwTokens : granted'[k] = granted[k] \/ k = nextHw
        BY <1>1, <1>t, Zenon DEF AcquireHardware
      <3> QED
        BY <1>t, <2>3, <3>1, <3>2 DEF HwTokens
    <2>6. EngineKept
      <3>1. ~hw.active => hw = NoHw
        BY Zenon DEF Held, EngineStates
      <3>2. /\ nextHw' \in Nat /\ nextHw' >= nextHw
            /\ EngineDead => EngineDead'
        BY <1>t, <2>3 DEF EngineDead
      <3> QED
        BY <2>3, <2>4, <2>5, <3>1, <3>2, Zenon DEF EngineKept
    <2> QED
      BY <2>1, <2>2, <2>6, EngineStep, Zenon DEF EngineWd
  <1>2. ASSUME NEW ok \in BOOLEAN, AcquireUndone(c, ok)
        PROVE  Held'
    <2>1. UNCHANGED <<ss, nextToken, wd, module, granted, nextHw>>
      BY <1>2, Zenon DEF AcquireUndone, Release, engineVars
    <2>2. EngineCalls
      BY <1>2, <1>t, <1>i, Zenon DEF AcquireUndone, EngineCalls
    <2>3. EngineKept
      BY <1>2, <2>1, RestoreKept, EngineSame, Zenon DEF AcquireUndone, Release, engineVars
    <2> QED
      BY <2>1, <2>2, <2>3, EngineStep, Zenon DEF EngineWd
  <1>3. ASSUME NEW k \in HwTokens, NEW l \in HwLeases, NEW ok \in BOOLEAN,
               RenewHardware(c, k, l, ok)
        PROVE  Held'
    <2>1. UNCHANGED <<ss, nextToken, wd, module, granted, nextHw, call>>
      BY <1>3, Zenon DEF RenewHardware, Renew
    <2>2. EngineKept
      <3>1. CASE Restore(ok)
        BY <3>1, <2>1, RestoreKept, Zenon
      <3>2. CASE hw.active /\ hw' = [hw EXCEPT !.deadline = LeaseEnd(clock, l)] /\ UNCHANGED ready
        <4>1. /\ hw'.active = hw.active /\ hw'.pid = hw.pid /\ hw'.tok = hw.tok
              /\ hw'.regs = hw.regs
          BY <3>2, <1>t, Zenon DEF HwSession
        <4> QED
          BY <4>1, <3>2, <2>1, <1>t DEF EngineKept, EngineDead, Held, TokensOrdered
      <3> QED
        BY <1>3, <3>1, <3>2, Zenon DEF RenewHardware, Renew, Owns
    <2> QED
      BY <2>1, <2>2, EngineStep, Zenon DEF EngineWd, EngineCalls
  <1>4. ASSUME NEW k \in HwTokens, NEW ok \in BOOLEAN, ReleaseHardware(c, k, ok)
        PROVE  Held'
    <2>1. UNCHANGED <<ss, nextToken, wd, module, granted, nextHw>>
      BY <1>4, Zenon DEF ReleaseHardware, Release
    <2>2. EngineKept /\ (ok => ~hw'.active)
      BY <1>4, <2>1, RestoreKept, Zenon DEF ReleaseHardware, Release
    <2>3. k < nextHw'
      BY <1>4, <2>1, Zenon DEF ReleaseHardware, HwTokensOf, Held, TokensOrdered
    <2>4. EngineCalls
      BY <1>4, <1>t, <1>i, <2>2, <2>3, Zenon DEF ReleaseHardware, EngineCalls
    <2> QED
      BY <2>1, <2>2, <2>4, EngineStep, Zenon DEF EngineWd
  <1>5. CASE ReleaseFinish(c)
    <2> DEFINE lowered == [ss EXCEPT !.hwPending = FALSE, !.hwToken = 0]
               gate == ss.active /\ ss.pid = ProcOf[c] /\ ss.hwPending
                       /\ ss.hwToken = call[c].hw
    <2>1. UNCHANGED <<hw, ready, nextHw, nextToken, granted, wd, module>>
      BY <1>5, Zenon DEF ReleaseFinish, engineVars
    <2>2. CallsKept /\ WdKept
      BY <1>5, <1>t, <1>i, <2>1, Zenon DEF ReleaseFinish, CallsKept, WdKept
    <2>3. CASE ~gate
      <3>1. UNCHANGED ss
        BY <1>5, <2>3, Zenon DEF ReleaseFinish
      <3>2. SessionFits /\ GateKept
        BY <3>1, <2>1, Zenon DEF SessionFits, GateKept, Held, TokensOrdered, EngineStates, GateOwner
      <3> QED
        BY <1>t, <2>1, <2>2, <3>2, SessionStep
    <2>4. CASE gate
      <3>1. lowered \in StopSession
        BY <1>t, Zenon DEF StopSession
      <3>2. /\ lowered.active = ss.active /\ lowered.token = ss.token
            /\ lowered.controller = ss.controller /\ ~lowered.hwPending
            /\ lowered.hwToken = 0
        BY <1>t, Zenon DEF StopSession
      <3>3. ResumeSession(lowered, thread) \/ ss' = lowered
        BY <1>5, <2>4, Zenon DEF ReleaseFinish
      <3> HIDE DEF lowered
      <3>4. SessionFits
        BY <2>1, <2>4, <3>1, <3>2, <3>3, ResumeFits, Zenon
      <3>5. ~ss.hwMutation
        BY <2>4, Zenon DEF Held, EngineStates
      <3>6. call[c].op = "released"
        BY <1>5, Zenon DEF ReleaseFinish
      <3>7. hw.regs # "torn"
        BY <2>4, <3>6, TornActive, Zenon DEF Held, TornHardwareHeld, RestorationKnown, Owns
      <3>8. \A d \in Threads : call'[d].op = "update" => EngineDead
        BY <2>2, <3>5, Zenon DEF CallsKept, Held, GateOwner, GateIs
      <3>9. module' # "loaded" => EngineDead
        BY <2>1, Zenon DEF Held, EngineStates
      <3> QED
        BY <2>1, <2>2, <3>4, <3>7, <3>8, <3>9, LowerStep, Zenon
    <2> QED
      BY <2>3, <2>4, Zenon
  <1> QED
    BY <1>1, <1>2, <1>3, <1>4, <1>5, UpdateHeld, Zenon DEF HwCall

LEMMA WatchdogHeld ==
    ASSUME TypeOK, Held, Watchdog
    PROVE  Held'
  <1> USE DEF stopVars
  <1>t. /\ ss \in StopSession /\ call \in [Threads -> Calls] /\ hw \in HwSession
        /\ nextToken \in 1 .. MaxToken + 1 /\ nextHw \in 1 .. MaxHwToken + 1
        /\ wd \in WdType
    BY Zenon DEF TypeOK, EngineTypeOK, WdType
  <1>w. WdTop.pc = "top" /\ WdTop.hw = 0 /\ ~WdTop.recovered
    BY Zenon DEF WdTop
  <1>f. ASSUME UNCHANGED <<ss, nextToken, nextHw>>
        PROVE  SessionFits /\ GateKept
    BY <1>f, Zenon DEF SessionFits, GateKept, Held, TokensOrdered, EngineStates, GateOwner
  <1>p. ASSUME NEW pc, wd' = [wd EXCEPT !.pc = pc]
        PROVE  /\ wd'.pc = pc /\ wd'.hw = wd.hw /\ wd'.pid = wd.pid
               /\ wd'.recovered = wd.recovered
    BY <1>t, <1>p, Zenon DEF WdType
  <1>1. CASE WatchdogRead \/ WatchdogEngineBusy \/ WatchdogMiss \/ WatchdogExit
    <2>1. UNCHANGED <<ss, hw, ready, nextHw, nextToken, granted, call, module>>
      BY <1>1, Zenon DEF WatchdogRead, WatchdogEngineBusy, WatchdogMiss, WatchdogExit, engineVars
    <2>2. ~wd'.recovered /\ wd'.hw \in {0, ss.hwToken, wd.hw}
      <3>1. CASE WatchdogRead \/ WatchdogMiss
        BY <3>1, <1>w DEF WatchdogRead, WatchdogMiss
      <3>2. CASE WatchdogEngineBusy \/ WatchdogExit
        BY <3>2, <1>p, Zenon DEF WatchdogEngineBusy, WatchdogExit, Held, RestorationKnown
      <3> QED
        BY <1>1, <3>1, <3>2, Zenon
    <2> QED
      BY <1>t, <1>f, <2>1, <2>2, SessionStep DEF WdKept, CallsKept
  <1>2. ASSUME NEW ok \in BOOLEAN, WatchdogEngine(ok)
        PROVE  Held'
    <2>1. UNCHANGED <<ss, nextToken, granted, call, module, nextHw>> /\ wd.pc = "hw"
      BY <1>2, Zenon DEF WatchdogEngine, Recover, HwWatchdog, engineVars
    <2>2. CASE RecoveryNeeded /\ Recover(wd.pid, wd.hw, ok)
               /\ wd' = [wd EXCEPT !.pc = "lease", !.recovered = ok]
      <3>1. /\ wd'.pc = "lease" /\ wd'.hw = wd.hw /\ wd'.pid = wd.pid
            /\ wd'.recovered = ok
        BY <2>2, <1>t, Zenon DEF WdType
      <3>2. EngineKept /\ (ok => ~hw'.active)
        <4>1. CASE Restore(ok)
          BY <4>1, <2>1, RestoreKept, Zenon
        <4>2. CASE UNCHANGED <<hw, ready>> /\ (ok => ~hw.active)
          BY <4>2, <2>1, EngineSame, Zenon
        <4> QED
          BY <2>2, <4>1, <4>2, Zenon DEF Recover
      <3> QED
        BY <2>1, <3>1, <3>2, EngineStep, Zenon DEF EngineWd, EngineCalls
    <2>3. CASE /\ wd' = [wd EXCEPT !.pc = "lease"]
               /\ HwWatchdog(wd.now, ok) \/ UNCHANGED engineVars
      <3>1. /\ wd'.pc = "lease" /\ wd'.hw = wd.hw /\ wd'.pid = wd.pid
            /\ ~wd'.recovered
        BY <1>p, <2>1, <2>3, Zenon DEF Held, RestorationKnown
      <3>2. EngineKept
        BY <2>1, <2>3, RestoreKept, EngineSame, Zenon DEF HwWatchdog, engineVars
      <3> QED
        BY <2>1, <3>1, <3>2, EngineStep, Zenon DEF EngineWd, EngineCalls
    <2> QED
      BY <1>2, <2>2, <2>3, Zenon DEF WatchdogEngine
  <1>3. CASE WatchdogLease
    <2>1. /\ UNCHANGED <<hw, ready, nextHw, nextToken, granted, call, module>>
          /\ wd' = WdTop /\ wd.pc = "lease"
      BY <1>3, Zenon DEF WatchdogLease, engineVars
    <2>2. CallsKept /\ WdKept
      BY <2>1, <1>w, Zenon DEF CallsKept, WdKept
    <2>3. ResumeSession(LowerRecovered, thread) \/ ss' = LowerRecovered
      BY <1>3, WatchdogLeaseCases, Zenon
    <2>4. CASE LowerRecovered = ss
      <3>1. CASE ss' = ss
        BY <3>1, <1>f, <1>t, <2>1, <2>2, SessionStep
      <3>2. CASE ResumeSession(ss, thread) /\ ss.active
        <4>1. SessionFits
          <5>1. ~(ss.hwMutation /\ ss.hwPending)
            BY Zenon DEF Held, EngineStates
          <5> QED
            BY <1>t, <2>1, <3>2, <5>1, ResumeFits, Zenon
        <4>2. GateKept
          BY <3>2, ResumeKeepsGate, Zenon
        <4> QED
          BY <1>t, <2>1, <2>2, <4>1, <4>2, SessionStep
      <3>3. ss.active \/ ss' = ss
        BY <1>3, <2>4, Zenon DEF WatchdogLease, LowerRecovered
      <3> QED
        BY <2>3, <2>4, <3>1, <3>2, <3>3, Zenon
    <2>5. CASE LowerRecovered # ss
      <3> DEFINE lowered == [ss EXCEPT !.hwPending = FALSE, !.hwToken = 0]
      <3>1. /\ wd.recovered /\ ss.active /\ ss.hwPending /\ ss.pid = wd.pid
            /\ ss.hwToken = wd.hw /\ LowerRecovered = lowered
        BY <2>5, Zenon DEF LowerRecovered
      <3>2. lowered \in StopSession
        BY <1>t, Zenon DEF StopSession
      <3>3. /\ lowered.active = ss.active /\ lowered.token = ss.token
            /\ lowered.controller = ss.controller /\ ~lowered.hwPending
            /\ lowered.hwToken = 0
        BY <1>t, Zenon DEF StopSession
      <3>4. ResumeSession(lowered, thread) \/ ss' = lowered
        BY <2>3, <3>1, Zenon
      <3> HIDE DEF lowered
      <3>5. SessionFits
        BY <2>1, <3>1, <3>2, <3>3, <3>4, ResumeFits, Zenon
      <3>6. hw.regs # "torn"
        BY <3>1, TornActive, Zenon DEF Held, TornHardwareHeld, RestorationKnown, Owns
      <3>7. \A d \in Threads : call'[d].op = "update" => EngineDead
        BY <2>1, <3>1, Zenon DEF Held, GateOwner, GateIs, EngineStates
      <3>8. module' # "loaded" => EngineDead
        BY <2>1, Zenon DEF Held, EngineStates
      <3> QED
        BY <2>1, <2>2, <3>5, <3>6, <3>7, <3>8, LowerStep, Zenon
    <2> QED
      BY <2>4, <2>5, Zenon
  <1> QED
    BY <1>1, <1>2, <1>3, Zenon DEF Watchdog

LEMMA ModuleStopHeld ==
    ASSUME TypeOK, Held, ModuleStop
    PROVE  Held'
  <1> USE DEF stopVars, wdVars
  <1>t. /\ ss \in StopSession /\ hw \in HwSession
        /\ nextToken \in 1 .. MaxToken + 1 /\ nextHw \in 1 .. MaxHwToken + 1
    BY Zenon DEF TypeOK, EngineTypeOK
  <1>1. ASSUME NEW restored \in BOOLEAN, NEW joined \in BOOLEAN, StopEngine(restored, joined)
        PROVE  Held'
    <2>1. UNCHANGED <<ss, nextToken, wd, call, granted, nextHw>>
      BY <1>1, Zenon DEF StopEngine, EngineStop
    <2>2. ~ready' /\ (hw' = NoHw \/ hw' = hw) /\ (restored => hw' = NoHw)
      BY <1>1, Zenon DEF StopEngine, EngineStop
    <2>3. EngineKept
      <3>1. /\ ~hw.active => hw = NoHw
            /\ \A k \in HwTokens : granted[k] # NoProc => k < nextHw
        BY Zenon DEF Held, EngineStates, TokensOrdered
      <3>2. ~NoHw.active /\ NoHw.regs = "saved"
        BY Zenon DEF NoHw
      <3>3. CASE hw' = NoHw
        BY <1>t, <2>1, <2>2, <3>1, <3>2, <3>3 DEF EngineKept, EngineDead
      <3>4. CASE hw' = hw
        BY <1>t, <2>1, <2>2, <3>1, <3>4 DEF EngineKept, EngineDead
      <3> QED
        BY <2>2, <3>3, <3>4, Zenon
    <2>4. module' # "loaded" => EngineDead'
      BY <1>1, <2>2 DEF StopEngine, EngineDead, NoHw
    <2> QED
      BY <2>1, <2>3, <2>4, EngineStep, Zenon DEF EngineWd, EngineCalls
  <1>2. CASE StopRelease
    <2>1. UNCHANGED <<hw, ready, nextHw, nextToken, granted, call, wd>>
      BY <1>2, Zenon DEF StopRelease, engineVars
    <2>2. EngineDead /\ hw.regs # "torn"
      BY <1>2 DEF StopRelease, Held, EngineStates, EngineDead, NoHw
    <2>3. Lowered \in StopSession
      BY <1>t, LoweredType, Zenon
    <2>4. /\ Lowered.active = ss.active /\ Lowered.token = ss.token
          /\ Lowered.controller = ss.controller /\ ~Lowered.hwPending
          /\ ~Lowered.hwMutation /\ Lowered.hwToken = 0
      BY <1>t, Zenon DEF StopSession, Lowered
    <2>5. SessionFits
      <3>1. CASE ss.active
        BY <1>2, <2>1, <2>3, <2>4, <3>1, StopReleaseCases, ResumeFits, Zenon
      <3>2. CASE ~ss.active
        <4>1. ss' = Lowered
          BY <1>2, <3>2, StopReleaseCases, Zenon
        <4> QED
          <5>1. /\ ss'.token < nextToken' /\ ss'.hwToken < nextHw
                /\ ~ss'.hwMutation /\ ~ss'.hwPending
            <6>1. ss.token < nextToken /\ 0 < nextHw
              BY <1>t DEF Held, TokensOrdered
            <6> QED
              BY <6>1, <4>1, <2>1, <2>4, Zenon
          <5>2. ~ss'.active
            BY <4>1, <3>2, <2>4, Zenon
          <5> QED
            BY <5>1, <5>2, Zenon DEF SessionFits, ResumeBusy
      <3> QED
        BY <3>1, <3>2, Zenon
    <2> QED
      BY <2>1, <2>2, <2>5, LowerStep, Zenon DEF CallsKept, WdKept
  <1>3. CASE StopRetire \/ StopJoin
    <2>1. /\ UNCHANGED <<ss, hw, ready, nextHw, nextToken, granted, call, wd>>
          /\ module # "loaded"
      BY <1>3, Zenon DEF StopRetire, StopJoin, engineVars
    <2>2. SessionFits /\ GateKept
      BY <2>1, Zenon DEF SessionFits, GateKept, Held, TokensOrdered, EngineStates, GateOwner
    <2> QED
      BY <1>t, <2>1, <2>2, SessionStep DEF CallsKept, WdKept
  <1> QED
    BY <1>1, <1>2, <1>3, Zenon DEF ModuleStop

LEMMA OthersHeld ==
    ASSUME TypeOK, Held,
           Clock \/ Kernel \/ (\E c \in Probers : ProbeCall(c)) \/ UNCHANGED vars
    PROVE  Held'
  <1> USE DEF stopVars, wdVars, engineVars
  <1>t. /\ call \in [Threads -> Calls]
        /\ nextToken \in 1 .. MaxToken + 1 /\ nextHw \in 1 .. MaxHwToken + 1
    BY Zenon DEF TypeOK, EngineTypeOK
  <1>1. UNCHANGED <<ss, hw, ready, nextHw, nextToken, granted, wd, module>>
    BY Zenon DEF Clock, Kernel, CreateThread, ExitThread, ProbeCall, ProbeSuspend, ProbeResume, vars
  <1>2. CallsKept
    <2>1. CASE Clock \/ Kernel \/ UNCHANGED vars
      BY <2>1, Zenon DEF Clock, Kernel, CreateThread, ExitThread, vars, CallsKept
    <2>2. ASSUME NEW c \in Probers, NEW t \in Threads, ProbeSuspend(c, t) \/ ProbeResume(c)
          PROVE  CallsKept
      <3>1. Idle.op = "idle"
        BY Zenon DEF Idle
      <3>2. PICK e : call' = [call EXCEPT ![c] = e] /\ e.op \in {"idle", "probing"}
        BY <2>2, <3>1 DEF ProbeSuspend, ProbeResume
      <3> QED
        BY <1>t, <3>2, Zenon DEF CallsKept
    <2> QED
      BY <2>1, <2>2, Zenon DEF ProbeCall
  <1>3. SessionFits /\ GateKept
    BY <1>1, Zenon DEF SessionFits, GateKept, Held, TokensOrdered, EngineStates, GateOwner
  <1> QED
    BY <1>t, <1>1, <1>2, <1>3, SessionStep DEF WdKept

LEMMA HeldStep ==
    ASSUME TypeOK, Held, [Next]_vars
    PROVE  Held'
  BY StopCallHeld, HwCallHeld, WatchdogHeld, ModuleStopHeld, OthersHeld, Zenon DEF Next

LEMMA HeldInit == Init => Held
  <1> SUFFICES ASSUME Init PROVE Held
    BY Zenon
  <1>1. /\ hw.regs = "saved" /\ ~hw.active /\ hw.tok = 0 /\ hw = NoHw /\ nextHw = 1
        /\ nextToken = 1 /\ module = "loaded" /\ wd.hw = 0 /\ ~wd.recovered
        /\ \A k \in HwTokens : granted[k] = NoProc
        /\ \A c \in Threads : call[c].op = "idle"
    BY Zenon DEF Init, EngineInit, NoHw, WdTop, Idle
  <1>2. ss = NoSession
    BY Zenon DEF Init
  <1>3. TornHardwareHeld /\ RestorationKnown /\ GateOwner
    BY <1>1, Zenon DEF TornHardwareHeld, RestorationKnown, GateOwner
  <1>4. TokensOrdered /\ EngineStates
    BY <1>1, <1>2, NoSessionFields DEF TokensOrdered, EngineStates
  <1> QED
    BY <1>3, <1>4, Zenon DEF Held

(* Comparators in an unknown state keep their process stopped, for every    *)
(* number of processes, threads, sessions and leases: the session of the    *)
(* owner stands with its gate up until the engine has restored them.        *)
THEOREM TornHeld == Spec => []TornHardwareHeld
  <1>1. TypeOK /\ Held /\ [Next]_vars => (TypeOK /\ Held)'
    BY TypeStep, HeldStep, Zenon
  <1>2. Init => TypeOK /\ Held
    BY TypeInit, HeldInit, Zenon
  <1>3. Held => TornHardwareHeld
    BY Zenon DEF Held
  <1> QED
    BY <1>1, <1>2, <1>3, PTL DEF Spec

-----------------------------------------------------------------------------
(* The cores are programmed on a stopped target *)

(* No probe is made from a process that programs comparators: a probe that   *)
(* began before the stop resumes its target whenever it ends.               *)
ProbersApart == \A p \in Probers, c \in HwCallers : ProcOf[p] # ProcOf[c]

(* Thread c exists and no other thread of its process runs. *)
Alone(th, c) ==
    /\ th[c] # "gone"
    /\ \A t \in Threads \ {c} : ProcOf[t] = ProcOf[c] => th[t] # "running"

(* From the check of the stop until the engine has been called, the caller  *)
(* is alone, or the engine is off for good.                                 *)
TargetStopped ==
    /\ \A c \in Threads :
          call[c].op = "update" => c \in HwCallers /\ (EngineDead \/ Alone(thread, c))
    /\ \A p \in Threads :
          call[p].op = "probing" => p \in Probers /\ ProcOf[call[p].target] = ProcOf[p]

LEMMA RestoreDead ==
    ASSUME EngineDead, NEW ok, Restore(ok)
    PROVE  EngineDead'
  BY DEF EngineDead, Restore, RestoreOk, RestoreFailed, NoHw

LEMMA EngineDeadKept ==
    ASSUME EngineDead, [Next]_vars
    PROVE  EngineDead'
  <1> USE DEF engineVars
  <1>k. ASSUME UNCHANGED <<hw, ready>> PROVE EngineDead'
    BY <1>k, Zenon DEF EngineDead
  <1>1. CASE Clock \/ Kernel \/ UNCHANGED vars
    BY <1>1, <1>k, Zenon DEF Clock, Kernel, CreateThread, ExitThread, vars
  <1>2. ASSUME NEW c \in Stoppers, StopCall(c) PROVE EngineDead'
    BY <1>2, <1>k, Zenon DEF StopCall, BeginStopList, BeginStopRefused, BeginStopLocked,
         BeginStopFailed, BeginStopReturn, BeginStopCopyFailed, RenewStop, RenewStopFailed,
         EndStop
  <1>3. ASSUME NEW c \in HwCallers, HwCall(c) PROVE EngineDead'
    <2>1. CASE \/ \E tok \in Tokens, k \in HwTokens : UpdateHardware(c, tok, k)
               \/ UpdateFinish(c) \/ ReleaseFinish(c)
      BY <1>k, <2>1, Zenon DEF UpdateHardware, UpdateFinish, ReleaseFinish
    <2>2. ASSUME NEW l \in HwLeases, NEW o \in AcquireOutcomes, NEW copied \in BOOLEAN,
                 AcquireHardware(c, l, o, copied)
          PROVE  FALSE
      BY <2>2, Zenon DEF AcquireHardware, Acquire, EngineDead
    <2>3. ASSUME NEW ok \in BOOLEAN, AcquireUndone(c, ok) PROVE EngineDead'
      BY <2>3, <1>k, Zenon DEF AcquireUndone, Release, Owns, EngineDead
    <2>4. ASSUME NEW k \in HwTokens, NEW l \in HwLeases, NEW ok \in BOOLEAN,
                 RenewHardware(c, k, l, ok)
          PROVE  EngineDead'
      BY <2>4, Zenon DEF RenewHardware, Renew, Owns, Expired, EngineDead
    <2>5. ASSUME NEW r \in {"ok", "other", "restore"}, NEW a \in {"saved", "armed"},
                 UpdateEngine(c, r, a)
          PROVE  EngineDead'
      BY <2>5, <1>k, Zenon DEF UpdateEngine, Update, Owns, Expired, EngineDead
    <2>6. ASSUME NEW k \in HwTokens, NEW ok \in BOOLEAN, ReleaseHardware(c, k, ok)
          PROVE  EngineDead'
      BY <2>6, Zenon DEF ReleaseHardware, Release, Owns, EngineDead
    <2> QED
      BY <1>3, <2>1, <2>2, <2>3, <2>4, <2>5, <2>6, Zenon DEF HwCall
  <1>4. ASSUME NEW c \in Probers, ProbeCall(c) PROVE EngineDead'
    BY <1>4, <1>k, Zenon DEF ProbeCall, ProbeSuspend, ProbeResume
  <1>5. CASE Watchdog
    <2>1. ASSUME NEW ok \in BOOLEAN, WatchdogEngine(ok) PROVE EngineDead'
      BY <2>1, <1>k, RestoreDead, Zenon DEF WatchdogEngine, Recover, HwWatchdog
    <2> QED
      BY <1>5, <1>k, <2>1, Zenon DEF Watchdog, WatchdogRead, WatchdogEngineBusy, WatchdogLease,
                              WatchdogMiss, WatchdogExit
  <1>6. CASE ModuleStop
    <2>1. ASSUME NEW restored \in BOOLEAN, NEW joined \in BOOLEAN,
                 StopEngine(restored, joined)
          PROVE  EngineDead'
      BY <2>1 DEF StopEngine, EngineStop, EngineDead, NoHw
    <2> QED
      BY <1>6, <1>k, <2>1, Zenon DEF ModuleStop, StopRelease, StopRetire, StopJoin
  <1> QED
    BY <1>1, <1>2, <1>3, <1>4, <1>5, <1>6, Zenon DEF Next

(* A call stays as it is, or becomes one the invariant does not speak of,   *)
(* except where an update or a probe begins.                                *)
LEMMA CallStep ==
    ASSUME TypeOK, [Next]_vars, NEW c \in Threads
    PROVE  \/ call'[c] = call[c]
           \/ call'[c].op \notin {"update", "probing"}
           \/ c \in HwCallers /\ \E tok \in Tokens, k \in HwTokens : UpdateHardware(c, tok, k)
           \/ c \in Probers /\ \E t \in Threads : ProbeSuspend(c, t)
  <1> DEFINE Goal ==
           \/ call'[c] = call[c]
           \/ call'[c].op \notin {"update", "probing"}
           \/ c \in HwCallers /\ \E tok \in Tokens, k \in HwTokens : UpdateHardware(c, tok, k)
           \/ c \in Probers /\ \E t \in Threads : ProbeSuspend(c, t)
  <1>t. call \in [Threads -> Calls]
    BY Zenon DEF TypeOK
  <1>i. Idle.op = "idle"
    BY Zenon DEF Idle
  <1>e. ASSUME NEW d \in Threads, NEW e, call' = [call EXCEPT ![d] = e],
               e.op \notin {"update", "probing"}
        PROVE  Goal
    BY <1>e, <1>t, Zenon
  <1>1. CASE Clock \/ Kernel \/ Watchdog \/ ModuleStop \/ UNCHANGED vars
    <2>1. UNCHANGED call
      BY <1>1, Zenon DEF Clock, Kernel, CreateThread, ExitThread, Watchdog, WatchdogRead,
           WatchdogEngine, WatchdogEngineBusy, WatchdogLease, WatchdogMiss, WatchdogExit,
           ModuleStop, StopEngine, StopRelease, StopRetire, StopJoin, vars
    <2> QED
      BY <2>1, Zenon
  <1>2. ASSUME NEW d \in Stoppers, StopCall(d) PROVE Goal
    <2>1. CASE \E e \in Exempt \cup {NoThread}, l \in StopLeases : BeginStopList(d, e, l)
      BY <1>e, <2>1, Zenon DEF BeginStopList
    <2>2. CASE BeginStopLocked(d)
      BY <1>e, <2>2, Zenon DEF BeginStopLocked
    <2>3. CASE \/ BeginStopRefused(d) \/ BeginStopFailed(d) \/ BeginStopReturn(d)
               \/ BeginStopCopyFailed(d)
      <3>1. call' = [call EXCEPT ![d] = Idle]
        BY <2>3, Zenon DEF BeginStopRefused, BeginStopFailed, BeginStopReturn, BeginStopCopyFailed
      <3> QED
        BY <1>e, <1>i, <3>1, Zenon
    <2>4. CASE \E tok \in Tokens : \/ \E l \in StopLeases : RenewStop(d, tok, l)
                                   \/ RenewStopFailed(d, tok) \/ EndStop(d, tok)
      BY <2>4, Zenon DEF RenewStop, RenewStopFailed, EndStop
    <2> QED
      BY <1>2, <2>1, <2>2, <2>3, <2>4, Zenon DEF StopCall
  <1>3. ASSUME NEW d \in HwCallers, HwCall(d) PROVE Goal
    <2>1. CASE \E tok \in Tokens, k \in HwTokens : UpdateHardware(d, tok, k)
      <3>1. CASE c = d
        BY <2>1, <3>1, Zenon
      <3>2. CASE c # d
        BY <2>1, <3>2, <1>t, Zenon DEF UpdateHardware
      <3> QED
        BY <3>1, <3>2, Zenon
    <2>2. ASSUME NEW l \in HwLeases, NEW o \in AcquireOutcomes, NEW copied \in BOOLEAN,
                 AcquireHardware(d, l, o, copied)
          PROVE  Goal
      <3>1. \/ call' = [call EXCEPT ![d] = Idle]
            \/ call' = [call EXCEPT ![d] = [op |-> "uncopied", hw |-> nextHw]]
        BY <2>2, Zenon DEF AcquireHardware
      <3> QED
        BY <1>e, <1>i, <3>1, Zenon
    <2>3. ASSUME NEW k \in HwTokens, NEW ok \in BOOLEAN, ReleaseHardware(d, k, ok)
          PROVE  Goal
      <3>1. \/ call' = [call EXCEPT ![d] = Idle]
            \/ call' = [call EXCEPT ![d] = [op |-> "released", hw |-> k, now |-> clock]]
        BY <2>3, Zenon DEF ReleaseHardware
      <3> QED
        BY <1>e, <1>i, <3>1, Zenon
    <2>4. ASSUME NEW r \in {"ok", "other", "restore"}, NEW a \in {"saved", "armed"},
                 UpdateEngine(d, r, a)
          PROVE  Goal
      BY <2>4, <1>e, Zenon DEF UpdateEngine
    <2>5. CASE \/ \E ok \in BOOLEAN : AcquireUndone(d, ok)
               \/ \E k \in HwTokens, l \in HwLeases, ok \in BOOLEAN : RenewHardware(d, k, l, ok)
               \/ UpdateFinish(d) \/ ReleaseFinish(d)
      <3>1. UNCHANGED call \/ call' = [call EXCEPT ![d] = Idle]
        BY <2>5, Zenon DEF AcquireUndone, RenewHardware, UpdateFinish, ReleaseFinish
      <3> QED
        BY <1>e, <1>i, <3>1, Zenon
    <2> QED
      BY <1>3, <2>1, <2>2, <2>3, <2>4, <2>5, Zenon DEF HwCall
  <1>4. ASSUME NEW d \in Probers, ProbeCall(d) PROVE Goal
    <2>1. ASSUME NEW t \in Threads, ProbeSuspend(d, t) PROVE Goal
      <3>1. CASE c = d
        BY <2>1, <3>1, Zenon
      <3>2. CASE c # d
        BY <2>1, <3>2, <1>t, Zenon DEF ProbeSuspend
      <3> QED
        BY <3>1, <3>2, Zenon
    <2>2. CASE ProbeResume(d)
      BY <2>2, <1>e, <1>i, Zenon DEF ProbeResume
    <2> QED
      BY <1>4, <2>1, <2>2, Zenon DEF ProbeCall
  <1> QED
    BY <1>1, <1>2, <1>3, <1>4, Zenon DEF Next

(* Nothing resumes the target of an update in flight. *)
LEMMA AloneStep ==
    ASSUME TypeOK, Held, TargetStopped, ProbersApart, [Next]_vars,
           NEW c \in Threads, call[c].op = "update", ~EngineDead
    PROVE  Alone(thread, c)'
  <1> USE DEF stopVars
  <1>t. /\ thread \in [Threads -> States] /\ ss \in StopSession
        /\ call \in [Threads -> Calls]
    BY Zenon DEF TypeOK
  <1>i. Idle.op = "idle"
    BY Zenon DEF Idle
  <1>a. Alone(thread, c) /\ c \in HwCallers
    BY Zenon DEF TargetStopped
  <1>g. /\ GateIs(c, call[c]) /\ ss.active /\ ss.hwMutation /\ ~ss.hwPending
        /\ ss.pid = ProcOf[c] /\ ResumeBusy(ss) /\ module = "loaded"
    BY Zenon DEF Held, GateOwner, EngineStates, GateIs, Matches, ResumeBusy
  <1>k. ASSUME UNCHANGED thread PROVE Alone(thread, c)'
    BY <1>k, <1>a, Zenon DEF Alone
  <1>s. ASSUME NEW S, S \subseteq {t \in Threads : thread[t] # "gone"},
               thread' = SuspendAll(thread, S)
        PROVE  Alone(thread, c)'
    BY <1>s, <1>a, <1>t, Zenon DEF Alone, SuspendAll
  <1>1. ASSUME NEW t \in Threads, CreateThread(t) PROVE Alone(thread, c)'
    <2>1. ProcOf[t] # ProcOf[c]
      BY <1>1, <1>a, <1>i, Zenon DEF CreateThread, Alone, ThreadsOf
    <2> QED
      BY <1>1, <1>a, <1>t, <2>1, Zenon DEF CreateThread, Alone
  <1>2. ASSUME NEW t \in Threads, ExitThread(t) PROVE Alone(thread, c)'
    BY <1>2, <1>a, <1>t, <1>i, Zenon DEF ExitThread, Alone
  <1>3. ASSUME NEW d \in Stoppers, StopCall(d) PROVE Alone(thread, c)'
    <2>1. CASE BeginStopCopyFailed(d) \/ \E tok \in Tokens : EndStop(d, tok)
      BY <1>g, <1>k, <2>1, Zenon DEF BeginStopCopyFailed, EndStop, ResumeSession
    <2>2. CASE \/ \E e \in Exempt \cup {NoThread}, l \in StopLeases : BeginStopList(d, e, l)
               \/ BeginStopRefused(d) \/ BeginStopReturn(d)
      BY <1>k, <2>2, Zenon DEF BeginStopList, BeginStopRefused, BeginStopReturn
    <2>3. CASE BeginStopLocked(d) \/ BeginStopFailed(d)
      BY <1>g, <2>3, Zenon DEF BeginStopLocked, BeginStopFailed
    <2>4. Newcomers \subseteq {t \in Threads : thread[t] # "gone"}
      BY Zenon DEF Newcomers, ThreadsOf
    <2>5. ASSUME NEW tok \in Tokens, NEW l \in StopLeases, RenewStop(d, tok, l)
          PROVE  Alone(thread, c)'
      BY <1>s, <2>4, <2>5, Zenon DEF RenewStop
    <2>6. ASSUME NEW tok \in Tokens, RenewStopFailed(d, tok)
          PROVE  Alone(thread, c)'
      <3>1. PICK refused \in SUBSET Newcomers : thread' = SuspendAll(thread, refused)
        BY <2>6, Zenon DEF RenewStopFailed
      <3> QED
        BY <1>s, <2>4, <3>1, Zenon
    <2> QED
      BY <1>3, <2>1, <2>2, <2>3, <2>5, <2>6, Zenon DEF StopCall
  <1>4. ASSUME NEW d \in HwCallers, HwCall(d) PROVE Alone(thread, c)'
    <2>1. CASE UpdateFinish(d)
      <3>1. d # c /\ call[d].op = "updated"
        BY <2>1, Zenon DEF UpdateFinish
      <3>2. ~GateIs(d, call[d])
        BY <1>g, <3>1, OneUpdate, Zenon
      <3> QED
        BY <1>k, <2>1, <3>2, Zenon DEF UpdateFinish
    <2>2. CASE ReleaseFinish(d)
      BY <1>g, <1>k, <2>2, Zenon DEF ReleaseFinish
    <2>3. CASE ~UpdateFinish(d) /\ ~ReleaseFinish(d)
      BY <1>4, <1>k, <2>3, Zenon DEF HwCall, AcquireHardware, AcquireUndone, RenewHardware,
           UpdateHardware, UpdateEngine, ReleaseHardware
    <2> QED
      BY <2>1, <2>2, <2>3, Zenon
  <1>5. ASSUME NEW d \in Probers, ProbeCall(d) PROVE Alone(thread, c)'
    <2>1. ASSUME NEW t \in Threads, ProbeSuspend(d, t) PROVE Alone(thread, c)'
      BY <2>1, <1>a, <1>t, Zenon DEF ProbeSuspend, Alone
    <2>2. CASE ProbeResume(d)
      <3>1. ProcOf[call[d].target] # ProcOf[c]
        BY <1>a, <2>2, Zenon DEF ProbeResume, TargetStopped, ProbersApart
      <3> QED
        BY <1>a, <1>t, <2>2, <3>1, Zenon DEF ProbeResume, ResumeAll, Alone
    <2> QED
      BY <1>5, <2>1, <2>2, Zenon DEF ProbeCall
  <1>6. CASE Watchdog
    <2>1. CASE WatchdogLease
      <3>1. LowerRecovered = ss
        BY <1>g, Zenon DEF LowerRecovered
      <3> QED
        BY <1>g, <1>k, <2>1, <3>1, WatchdogLeaseCases, Zenon DEF ResumeSession
    <2> QED
      BY <1>6, <1>k, <2>1, Zenon DEF Watchdog, WatchdogRead, WatchdogEngine, WatchdogEngineBusy,
                              WatchdogMiss, WatchdogExit
  <1>7. CASE ModuleStop
    BY <1>7, <1>g, <1>k, Zenon DEF ModuleStop, StopEngine, StopRelease, StopRetire, StopJoin
  <1>8. CASE Clock \/ UNCHANGED vars
    BY <1>8, <1>k, Zenon DEF Clock, vars
  <1> QED
    BY <1>1, <1>2, <1>3, <1>4, <1>5, <1>6, <1>7, <1>8, Zenon DEF Next, Kernel

LEMMA TargetStoppedStep ==
    ASSUME TypeOK, Held, TargetStopped, ProbersApart, [Next]_vars
    PROVE  TargetStopped'
  <1>t. thread \in [Threads -> States] /\ call \in [Threads -> Calls]
    BY Zenon DEF TypeOK
  <1>1. ASSUME NEW c \in Threads, call'[c].op = "update"
        PROVE  c \in HwCallers /\ (EngineDead' \/ Alone(thread, c)')
    <2>1. CASE call'[c] = call[c]
      <3>1. call[c].op = "update" /\ c \in HwCallers
        BY <1>1, <2>1, Zenon DEF TargetStopped
      <3> QED
        BY <3>1, AloneStep, EngineDeadKept, Zenon
    <2>2. ASSUME c \in HwCallers, NEW tok \in Tokens, NEW k \in HwTokens,
                 UpdateHardware(c, tok, k)
          PROVE  c \in HwCallers /\ (EngineDead' \/ Alone(thread, c)')
      <3>1. Alone(thread, c)
        BY <1>t, <2>2, Zenon DEF UpdateHardware, Free, StopIsCurrent, ThreadsOf, Suspended, Alone
      <3> QED
        BY <2>2, <3>1, Zenon DEF UpdateHardware, Alone
    <2>3. ASSUME NEW t \in Threads, ProbeSuspend(c, t) PROVE FALSE
      BY <1>1, <1>t, <2>3, Zenon DEF ProbeSuspend
    <2> QED
      BY <1>1, <2>1, <2>2, <2>3, CallStep, Zenon
  <1>2. ASSUME NEW p \in Threads, call'[p].op = "probing"
        PROVE  p \in Probers /\ ProcOf[call'[p].target] = ProcOf[p]
    <2>1. CASE call'[p] = call[p]
      BY <1>2, <2>1, Zenon DEF TargetStopped
    <2>2. ASSUME p \in Probers, NEW t \in Threads, ProbeSuspend(p, t)
          PROVE  p \in Probers /\ ProcOf[call'[p].target] = ProcOf[p]
      BY <1>t, <2>2, Zenon DEF ProbeSuspend, ThreadsOf
    <2>3. ASSUME NEW tok \in Tokens, NEW k \in HwTokens, UpdateHardware(p, tok, k)
          PROVE  FALSE
      BY <1>2, <1>t, <2>3, Zenon DEF UpdateHardware
    <2> QED
      BY <1>2, <2>1, <2>2, <2>3, CallStep, Zenon
  <1> QED
    BY <1>1, <1>2, Zenon DEF TargetStopped

(* The cores are programmed only while every other thread of the caller's    *)
(* process is stopped, for any number of processes and threads, provided no  *)
(* thread of such a process probes: the raised gate alone keeps EndStop, the *)
(* watchdog, a second update and module_stop from resuming the target while *)
(* session_lock is not held, and a stopped process creates no thread.       *)
THEOREM TargetHeld == ASSUME ProbersApart PROVE Spec => ProgramsStoppedTarget
  <1> DEFINE I == TypeOK /\ Held /\ TargetStopped
  <1>1. I /\ [Next]_vars => I'
    BY TypeStep, HeldStep, TargetStoppedStep, Zenon
  <1>2. Init => I
    <2>1. Init => TargetStopped
      <3>1. Init => \A c \in Threads : call[c].op = "idle"
        BY DEF Init, Idle
      <3> QED
        BY <3>1, Zenon DEF TargetStopped
    <2> QED
      BY <2>1, TypeInit, HeldInit, Zenon
  <1>3. I => \A c \in HwCallers :
                call[c].op = "update" /\ hw.pid = ProcOf[c]
                => \A t \in ThreadsOf(ProcOf[c]) \ {c} : Suspended(thread, t)
    <2> SUFFICES ASSUME I, NEW c \in HwCallers, call[c].op = "update", hw.pid = ProcOf[c],
                        NEW t \in ThreadsOf(ProcOf[c]) \ {c}
                 PROVE  Suspended(thread, t)
      BY Zenon
    <2>1. ~EngineDead
      <3>1. NoHw.pid = NoProc /\ ProcOf[c] \in Procs
        BY Zenon DEF NoHw
      <3> QED
        BY <3>1, Zenon DEF EngineDead, Held, EngineStates
    <2>2. Alone(thread, c)
      BY <2>1, Zenon DEF TargetStopped
    <2> QED
      BY <2>2, Zenon DEF Alone, Suspended, ThreadsOf, TypeOK, States
  <1>4. I => [\A c \in HwCallers :
                call[c].op = "update" /\ call'[c].op = "updated" /\ hw' # hw
                /\ hw.pid = ProcOf[c] /\ hw.tok = call[c].hw /\ hw'.regs # "saved"
                => \A t \in ThreadsOf(ProcOf[c]) \ {c} : Suspended(thread, t)]_vars
    BY <1>3, Zenon
  <1> QED
    BY <1>1, <1>2, <1>4, PTL DEF Spec, ProgramsStoppedTarget

=============================================================================
