----------------------------- MODULE KernelStop -----------------------------
(***************************************************************************)
(* The all-stop session of the kernel companion (kernel/src/main.c): one    *)
(* global stop_session, leased to a process, that suspends every other      *)
(* thread of that process; the watchdog thread that resumes them when the   *)
(* lease runs out; the gate that keeps them stopped while the hardware      *)
(* comparators are being programmed; and module_stop, which retires it all. *)
(*                                                                         *)
(* A critical section of session_lock is one step.  What a syscall does     *)
(* before it takes the lock, between two critical sections and after the    *)
(* last one are steps of their own, so that they interleave with the other  *)
(* callers, with the watchdog and with module_stop.                         *)
(*                                                                         *)
(* thread[t] is "gone" (the UID names nothing), "running", "stop" (debug-   *)
(* suspended by the stop session) or "probe" (debug-suspended by            *)
(* vdKernelProbeSuspendThread).  The kernel does not tell the two kinds of  *)
(* suspension apart, so no guard below does.                                *)
(*                                                                         *)
(* thread_mutation_backend is empty in this build, so no thread-mutation    *)
(* session is ever active (its engine is module ThreadMutation).            *)
(***************************************************************************)
EXTENDS HwEngine

CONSTANTS
    Threads,        \* thread UIDs
    NoThread,       \* UID -1
    ProcOf,         \* the process each UID belongs to
    StopLeases,     \* lease lengths of BeginStop and RenewStop, in clock units
    MaxToken,       \* bound: number of stop sessions
    Stoppers,       \* the threads that issue stop syscalls
    HwCallers,      \* the threads that issue hardware syscalls
    Probers,        \* the threads that issue vdKernelProbeSuspendThread
    Exempt,         \* the threads a BeginStop may exempt
    Unload          \* whether module_stop is ever called

ASSUME NoThreadAssumption == NoThread \notin Threads
ASSUME ProcOfAssumption == ProcOf \in [Threads -> Procs]
ASSUME StopLeasesAssumption == StopLeases \subseteq Nat \ {0}
ASSUME MaxTokenAssumption == MaxToken \in Nat
ASSUME CallersAssumption ==
    /\ Stoppers \subseteq Threads
    /\ HwCallers \subseteq Threads
    /\ Probers \subseteq Threads
    /\ Exempt \subseteq Threads
ASSUME UnloadAssumption == Unload \in BOOLEAN

VARIABLES
    thread,         \* what each UID names and whether it runs
    ss,             \* stop_session
    nextToken,      \* next_token
    call,           \* the syscall each thread is in
    granted,        \* granted[k]: the process that was handed hardware token k
    wd,             \* the locals of watchdog_main
    wdStop,         \* watchdog_stop
    module          \* how far module_stop got

stopVars == <<thread, ss, nextToken>>
wdVars == <<wd, wdStop>>
vars == <<clock, engineVars, stopVars, call, granted, wdVars, module>>

Tokens == 1 .. MaxToken
States == {"gone", "running", "stop", "probe"}

StopSession ==
    [active : BOOLEAN, pid : Procs \cup {NoProc}, token : Tokens \cup {0},
     controller : Threads \cup {NoThread}, exempt : Threads \cup {NoThread},
     suspended : SUBSET Threads, deadline : Nat,
     hwMutation : BOOLEAN, hwPending : BOOLEAN, hwToken : HwTokens \cup {0}]

NoSession ==
    [active |-> FALSE, pid |-> NoProc, token |-> 0, controller |-> NoThread,
     exempt |-> NoThread, suspended |-> {}, deadline |-> 0,
     hwMutation |-> FALSE, hwPending |-> FALSE, hwToken |-> 0]

Idle == [op |-> "idle"]

Calls ==
    [op : {"idle"}]
    \cup [op : {"begin"}, list : SUBSET Threads, exempt : Threads \cup {NoThread},
          lease : StopLeases]
    \cup [op : {"begun"}, token : Tokens]
    \cup [op : {"update"}, token : Tokens, hw : HwTokens]
    \cup [op : {"updated"}, token : Tokens, hw : HwTokens, now : Nat,
          result : {"ok", "other", "restore"}]
    \cup [op : {"released"}, hw : HwTokens, now : Nat]
    \cup [op : {"uncopied"}, hw : HwTokens]
    \cup [op : {"probing"}, target : Threads]

TypeOK ==
    /\ EngineTypeOK
    /\ thread \in [Threads -> States]
    /\ ss \in StopSession
    /\ nextToken \in 1 .. MaxToken + 1
    /\ call \in [Threads -> Calls]
    /\ granted \in [HwTokens -> Procs \cup {NoProc}]
    /\ wd \in [pc : {"top", "hw", "lease", "exited"}, now : Nat,
               pid : Procs \cup {NoProc}, token : Tokens \cup {0},
               hw : HwTokens \cup {0}, recovered : BOOLEAN]
    /\ wdStop \in BOOLEAN
    /\ module \in {"loaded", "quiesced", "released", "retired", "unloaded"}

WdTop == [pc |-> "top", now |-> 0, pid |-> NoProc, token |-> 0, hw |-> 0,
          recovered |-> FALSE]

(* module_start has returned: the engine and the watchdog are up. *)
Init ==
    /\ EngineInit
    /\ thread \in [Threads -> {"gone", "running"}]
    /\ ss = NoSession
    /\ nextToken = 1
    /\ call = [t \in Threads |-> Idle]
    /\ granted = [k \in HwTokens |-> NoProc]
    /\ wd = WdTop
    /\ wdStop = FALSE
    /\ module = "loaded"

-----------------------------------------------------------------------------
(* The kernel's threads *)

ThreadsOf(p) == {t \in Threads : ProcOf[t] = p /\ thread[t] # "gone"}
Suspended(th, t) == th[t] \in {"stop", "probe"}
Free(t) == thread[t] = "running" /\ call[t] = Idle /\ module # "unloaded"

(* A thread starts another one of its process, possibly under a recycled    *)
(* UID; the first thread of a process is started from outside.              *)
CreateThread(t) ==
    /\ thread[t] = "gone"
    /\ \/ \E u \in Threads : ProcOf[u] = ProcOf[t] /\ thread[u] = "running" /\ call[u] = Idle
       \/ ThreadsOf(ProcOf[t]) = {}
    /\ thread' = [thread EXCEPT ![t] = "running"]
    /\ UNCHANGED <<clock, engineVars, ss, nextToken, call, granted, wdVars, module>>

(* A thread ends, or is deleted (also while it is suspended). *)
ExitThread(t) ==
    /\ thread[t] # "gone" /\ call[t] = Idle
    /\ thread' = [thread EXCEPT ![t] = "gone"]
    /\ UNCHANGED <<clock, engineVars, ss, nextToken, call, granted, wdVars, module>>

SuspendAll(th, S) == [t \in Threads |-> IF t \in S THEN "stop" ELSE th[t]]
ResumeAll(th, S) ==
    [t \in Threads |-> IF t \in S /\ Suspended(th, t) THEN "running" ELSE th[t]]

(* resume_session_locked on session s with the threads in state th.  `stuck`*)
(* are the threads that cannot be resumed and still look suspended: those   *)
(* the kernel refuses to resume, and, when the thread list of the process   *)
(* could not be read, those that are gone.                                  *)
ResumeBusyInCall(s) == s.hwMutation
ResumeBusy(s) == s.hwMutation \/ s.hwPending

AfterResumeForgets(s, stuck) == NoSession

AfterResume(s, stuck) ==
    IF stuck = {} THEN NoSession
    ELSE [s EXCEPT !.suspended = stuck, !.active = TRUE, !.deadline = 0]

Stuck(s, th, refused, listed) ==
    refused \cup (IF listed THEN {} ELSE {t \in s.suspended : th[t] = "gone"})

ResumeSession(s, th) ==
    IF ResumeBusy(s)
    THEN ss' = s /\ thread' = th
    ELSE \E refused \in SUBSET {t \in s.suspended : Suspended(th, t)}, listed \in BOOLEAN :
           LET stuck == Stuck(s, th, refused, listed)
           IN  /\ ss' = AfterResume(s, stuck)
               /\ thread' = ResumeAll(th, s.suspended \ stuck)

-----------------------------------------------------------------------------
(* vdKernelBeginStop: the exempt thread and the thread list are resolved     *)
(* before the lock is taken.                                                *)
BeginStopList(c, e, l) ==
    /\ Free(c)
    /\ e \in {NoThread} \cup (Exempt \cap ThreadsOf(ProcOf[c]))
    /\ nextToken <= MaxToken /\ LeaseEnd(clock, l) <= MaxTime \* bounds
    /\ call' = [call EXCEPT ![c] = [op |-> "begin", list |-> ThreadsOf(ProcOf[c]),
                                    exempt |-> e, lease |-> l]]
    /\ UNCHANGED <<clock, engineVars, stopVars, granted, wdVars, module>>

(* The threads of the list that are not debug-suspended already; one of them*)
(* may have gone since the list was taken.                                  *)
ToSuspend(c) ==
    {t \in call[c].list \ {c, call[c].exempt} : ~Suspended(thread, t)}

NewSession(c, S) ==
    [NoSession EXCEPT !.pid = ProcOf[c], !.controller = c,
                      !.exempt = call[c].exempt, !.suspended = S]

BeginStopRefused(c) ==
    /\ call[c].op = "begin"
    /\ ss.active
    /\ call' = [call EXCEPT ![c] = Idle]
    /\ UNCHANGED <<clock, engineVars, stopVars, granted, wdVars, module>>

BeginStopLocked(c) ==
    /\ call[c].op = "begin"
    /\ ~ss.active
    /\ nextToken <= MaxToken /\ LeaseEnd(clock, call[c].lease) <= MaxTime  \* bounds
    /\ \A t \in ToSuspend(c) : thread[t] = "running"
    /\ thread' = SuspendAll(thread, ToSuspend(c))
    /\ ss' = [NewSession(c, ToSuspend(c)) EXCEPT
                !.active = TRUE, !.token = nextToken,
                !.deadline = LeaseEnd(clock, call[c].lease)]
    /\ nextToken' = nextToken + 1
    /\ call' = [call EXCEPT ![c] = [op |-> "begun", token |-> nextToken]]
    /\ UNCHANGED <<clock, engineVars, granted, wdVars, module>>

(* One thread cannot be suspended: those that already are get resumed. *)
BeginStopFailed(c) ==
    /\ call[c].op = "begin"
    /\ ~ss.active
    /\ \E S \in SUBSET {t \in ToSuspend(c) : thread[t] = "running"} :
          /\ S # ToSuspend(c)
          /\ ResumeSession(NewSession(c, S), SuspendAll(thread, S))
    /\ call' = [call EXCEPT ![c] = Idle]
    /\ UNCHANGED <<clock, engineVars, nextToken, granted, wdVars, module>>

Matches(c, tok) == ss.active /\ ss.pid = ProcOf[c] /\ ss.token = tok

(* The copy of the result to user memory. *)
BeginStopReturn(c) ==
    /\ call[c].op = "begun"
    /\ call' = [call EXCEPT ![c] = Idle]
    /\ UNCHANGED <<clock, engineVars, stopVars, granted, wdVars, module>>

BeginStopCopyFailed(c) ==
    /\ call[c].op = "begun"
    /\ Matches(c, call[c].token)
    /\ ResumeSession(ss, thread)
    /\ call' = [call EXCEPT ![c] = Idle]
    /\ UNCHANGED <<clock, engineVars, nextToken, granted, wdVars, module>>

-----------------------------------------------------------------------------
(* vdKernelRenewStop: forget the threads that are gone or no longer         *)
(* suspended, suspend the new ones, extend the lease.                       *)
Retained == {t \in ss.suspended : t \in ThreadsOf(ss.pid) /\ Suspended(thread, t)}
Newcomers == {t \in ThreadsOf(ss.pid) \ {ss.controller, ss.exempt} :
                 ~Suspended(thread, t)}

RenewStop(c, tok, l) ==
    /\ Free(c) /\ Matches(c, tok)
    /\ LeaseEnd(clock, l) <= MaxTime                          \* bound
    /\ thread' = SuspendAll(thread, Newcomers)
    /\ ss' = [ss EXCEPT !.suspended = Retained \cup Newcomers,
                        !.deadline = LeaseEnd(clock, l)]
    /\ UNCHANGED <<clock, engineVars, nextToken, call, granted, wdVars, module>>

(* A newcomer cannot be suspended: those suspended before it are resumed,   *)
(* the ones the kernel refuses to resume are kept, the deadline stays.      *)
RenewStopFailed(c, tok) ==
    /\ Free(c) /\ Matches(c, tok)
    /\ \E S \in SUBSET Newcomers : \E refused \in SUBSET S :
          /\ S # Newcomers
          /\ thread' = SuspendAll(thread, refused)
          /\ ss' = [ss EXCEPT !.suspended = Retained \cup refused]
    /\ UNCHANGED <<clock, engineVars, nextToken, call, granted, wdVars, module>>

(* vdKernelEndStop *)
EndStop(c, tok) ==
    /\ Free(c) /\ Matches(c, tok)
    /\ ResumeSession(ss, thread)
    /\ UNCHANGED <<clock, engineVars, nextToken, call, granted, wdVars, module>>

-----------------------------------------------------------------------------
(* Hardware syscalls, made with a token that was granted to the process     *)
(* (perhaps long ago).                                                      *)
HwTokensOf(c) == {k \in HwTokens : granted[k] = ProcOf[c]}

(* vdKernelAcquireHardwareDebug; when the result cannot be copied out, the   *)
(* session is released again in a second engine call.                       *)
AcquireHardware(c, l, o, copied) ==
    /\ Free(c)
    /\ Acquire(ProcOf[c], l, clock, o)
    /\ call' = [call EXCEPT ![c] =
                  IF copied \/ o \in {"busy", "failed"} THEN Idle
                  ELSE [op |-> "uncopied", hw |-> nextHw]]
    /\ granted' = IF copied /\ o \notin {"busy", "failed"}
                  THEN [granted EXCEPT ![nextHw] = ProcOf[c]] ELSE granted
    /\ UNCHANGED <<clock, stopVars, wdVars, module>>

AcquireUndone(c, ok) ==
    /\ call[c].op = "uncopied"
    /\ \/ Release(ProcOf[c], call[c].hw, ok)
       \/ ~Owns(ProcOf[c], call[c].hw) /\ UNCHANGED engineVars
    /\ call' = [call EXCEPT ![c] = Idle]
    /\ UNCHANGED <<clock, stopVars, granted, wdVars, module>>

(* vdKernelRenewHardwareDebug *)
RenewHardware(c, k, l, ok) ==
    /\ Free(c) /\ k \in HwTokensOf(c)
    /\ Renew(ProcOf[c], k, l, clock, ok)
    /\ UNCHANGED <<clock, stopVars, call, granted, wdVars, module>>

(* stop_session_is_current_locked: the caller controls an unexpired stop    *)
(* with no exemption, and every other thread of its process is suspended    *)
(* at this moment.                                                          *)
StopIsCurrentUnscanned(c, tok) ==
    /\ Matches(c, tok)
    /\ clock < ss.deadline
    /\ ~ss.hwMutation /\ ~ss.hwPending
    /\ ss.exempt = NoThread /\ ss.controller = c

StopIsCurrent(c, tok) ==
    /\ Matches(c, tok)
    /\ clock < ss.deadline
    /\ ~ss.hwMutation /\ ~ss.hwPending
    /\ ss.exempt = NoThread /\ ss.controller = c
    /\ \A t \in ThreadsOf(ProcOf[c]) \ {c} : Suspended(thread, t)

(* vdKernelUpdateHardwarePoint: raise the gate ...                          *)
UpdateHardware(c, tok, k) ==
    /\ Free(c) /\ k \in HwTokensOf(c)
    /\ StopIsCurrent(c, tok)
    /\ ss' = [ss EXCEPT !.hwMutation = TRUE, !.hwPending = FALSE, !.hwToken = k]
    /\ call' = [call EXCEPT ![c] = [op |-> "update", token |-> tok, hw |-> k]]
    /\ UNCHANGED <<clock, engineVars, thread, nextToken, granted, wdVars, module>>

(* ... program the cores with no session lock held, read the clock ...      *)
UpdateEngine(c, r, a) ==
    /\ call[c].op = "update"
    /\ Update(ProcOf[c], call[c].hw, clock, r, a)
    /\ call' = [call EXCEPT ![c] = [op |-> "updated", token |-> call[c].token,
                                    hw |-> call[c].hw, now |-> clock, result |-> r]]
    /\ UNCHANGED <<clock, stopVars, granted, wdVars, module>>

(* ... and lower the gate, or leave it to the watchdog when the engine could*)
(* not restore the cores.                                                   *)
GateIs(c, s) ==
    /\ Matches(c, s.token)
    /\ ss.hwMutation /\ ss.hwToken = s.hw

UpdateFinish(c) ==
    /\ call[c].op = "updated"
    /\ LET pending == call[c].result = "restore"
           lowered == [ss EXCEPT !.hwMutation = FALSE, !.hwPending = pending,
                                 !.hwToken = IF pending THEN @ ELSE 0]
       IN  IF ~GateIs(c, call[c]) THEN UNCHANGED <<ss, thread>>
           ELSE IF ~pending /\ call[c].now >= ss.deadline
           THEN ResumeSession(lowered, thread)
           ELSE ss' = lowered /\ UNCHANGED thread
    /\ call' = [call EXCEPT ![c] = Idle]
    /\ UNCHANGED <<clock, engineVars, nextToken, granted, wdVars, module>>

(* vdKernelReleaseHardwareDebug: the engine first, then a matching gate. *)
ReleaseHardware(c, k, ok) ==
    /\ Free(c) /\ k \in HwTokensOf(c)
    /\ Release(ProcOf[c], k, ok)
    /\ call' = [call EXCEPT ![c] = IF ok THEN [op |-> "released", hw |-> k, now |-> clock]
                                   ELSE Idle]
    /\ UNCHANGED <<clock, stopVars, granted, wdVars, module>>

ReleaseFinish(c) ==
    /\ call[c].op = "released"
    /\ LET lowered == [ss EXCEPT !.hwPending = FALSE, !.hwToken = 0]
       IN  IF ~(ss.active /\ ss.pid = ProcOf[c] /\ ss.hwPending
                /\ ss.hwToken = call[c].hw)
           THEN UNCHANGED <<ss, thread>>
           ELSE IF call[c].now >= ss.deadline
           THEN ResumeSession(lowered, thread)
           ELSE ss' = lowered /\ UNCHANGED thread
    /\ call' = [call EXCEPT ![c] = Idle]
    /\ UNCHANGED <<clock, engineVars, nextToken, granted, wdVars, module>>

-----------------------------------------------------------------------------
(* vdKernelProbeSuspendThread: suspend a thread of the process for a while, *)
(* with no session lock.  Suspending a suspended thread may succeed.        *)
ProbeSuspend(c, t) ==
    /\ Free(c) /\ t # c /\ t \in ThreadsOf(ProcOf[c])
    /\ thread' = [thread EXCEPT ![t] = IF @ = "running" THEN "probe" ELSE @]
    /\ call' = [call EXCEPT ![c] = [op |-> "probing", target |-> t]]
    /\ UNCHANGED <<clock, engineVars, ss, nextToken, granted, wdVars, module>>

ProbeResume(c) ==
    /\ call[c].op = "probing"
    /\ thread' = ResumeAll(thread, {call[c].target})
    /\ call' = [call EXCEPT ![c] = Idle]
    /\ UNCHANGED <<clock, engineVars, ss, nextToken, granted, wdVars, module>>

-----------------------------------------------------------------------------
(* watchdog_main: read the clock and whether a gate waits for the engine,   *)
WatchdogRead ==
    /\ wd.pc = "top" /\ ~wdStop
    /\ LET waiting == ss.active /\ ss.hwPending
       IN  wd' = [pc |-> "hw", now |-> clock,
                  pid |-> IF waiting THEN ss.pid ELSE NoProc,
                  token |-> IF waiting THEN ss.token ELSE 0,
                  hw |-> IF waiting THEN ss.hwToken ELSE 0,
                  recovered |-> FALSE]
    /\ UNCHANGED <<clock, engineVars, stopVars, call, granted, wdStop, module>>

(* then let the engine recover that session, or look after its own lease    *)
(* (the engine lock is only tried),                                         *)
RecoveryNeeded == wd.pid # NoProc /\ wd.token # 0 /\ wd.hw # 0

WatchdogEngine(ok) ==
    /\ wd.pc = "hw"
    /\ \/ RecoveryNeeded /\ Recover(wd.pid, wd.hw, ok) /\ wd' = [wd EXCEPT !.pc = "lease", !.recovered = ok]
       \/ ~RecoveryNeeded /\ HwWatchdog(wd.now, ok) /\ wd' = [wd EXCEPT !.pc = "lease"]
       \/ ~RecoveryNeeded /\ ~Expired(wd.now) /\ UNCHANGED engineVars /\ wd' = [wd EXCEPT !.pc = "lease"]
    /\ UNCHANGED <<clock, stopVars, call, granted, wdStop, module>>

WatchdogEngineBusy ==
    /\ wd.pc = "hw"
    /\ wd' = [wd EXCEPT !.pc = "lease"]
    /\ UNCHANGED <<clock, engineVars, stopVars, call, granted, wdStop, module>>

(* then lower a gate that was recovered and is still the same, and resume a *)
(* session whose lease has run out by the clock read at the top,            *)
LeaseOverEarly(s) == wd.now + 1 >= s.deadline
LeaseOver(s) == wd.now >= s.deadline

WatchdogLease ==
    /\ wd.pc = "lease"
    /\ LET same == /\ RecoveryNeeded /\ wd.recovered
                   /\ ss.active /\ ss.hwPending /\ ss.pid = wd.pid
                   /\ ss.token = wd.token /\ ss.hwToken = wd.hw
           s == IF same THEN [ss EXCEPT !.hwPending = FALSE, !.hwToken = 0] ELSE ss
       IN  IF s.active /\ ~s.hwMutation /\ ~s.hwPending /\ LeaseOver(s)
           THEN ResumeSession(s, thread)
           ELSE ss' = s /\ UNCHANGED thread
    /\ wd' = WdTop
    /\ UNCHANGED <<clock, engineVars, nextToken, call, granted, wdStop, module>>

(* or find session_lock taken and go round again.                           *)
WatchdogMiss ==
    /\ wd.pc = "lease"
    /\ wd' = WdTop
    /\ UNCHANGED <<clock, engineVars, stopVars, call, granted, wdStop, module>>

WatchdogExit ==
    /\ wd.pc = "top" /\ wdStop
    /\ wd' = [wd EXCEPT !.pc = "exited"]
    /\ UNCHANGED <<clock, engineVars, stopVars, call, granted, wdStop, module>>

-----------------------------------------------------------------------------
(* module_stop: stop the engine, release the session, retire the watchdog,  *)
(* wait for it.  Each step can fail and leave the module resident.          *)
StopEngine(restored, joined) ==
    /\ Unload /\ module = "loaded"
    /\ EngineStop(restored)
    /\ module' = IF restored /\ joined THEN "quiesced" ELSE "loaded"
    /\ UNCHANGED <<clock, stopVars, call, granted, wdVars>>

StopRelease ==
    /\ module = "quiesced"
    /\ LET s == [ss EXCEPT !.hwMutation = FALSE, !.hwPending = FALSE, !.hwToken = 0]
       IN  IF ss.active THEN ResumeSession(s, thread) ELSE ss' = s /\ UNCHANGED thread
    /\ module' = IF ss'.active THEN "loaded" ELSE "released"
    /\ UNCHANGED <<clock, engineVars, nextToken, call, granted, wdVars>>

StopRetire ==
    /\ module = "released"
    /\ wdStop' = TRUE
    /\ module' = "retired"
    /\ UNCHANGED <<clock, engineVars, stopVars, call, granted, wd>>

(* ksceKernelWaitThreadEnd returns, or times out. *)
StopJoin ==
    /\ module = "retired"
    /\ module' = IF wd.pc = "exited" THEN "unloaded" ELSE "loaded"
    /\ UNCHANGED <<clock, engineVars, stopVars, call, granted, wdVars>>

-----------------------------------------------------------------------------
Kernel == \E t \in Threads : CreateThread(t) \/ ExitThread(t)

StopCall(c) ==
    \/ \E e \in Exempt \cup {NoThread}, l \in StopLeases : BeginStopList(c, e, l)
    \/ BeginStopRefused(c)
    \/ BeginStopLocked(c)
    \/ BeginStopFailed(c)
    \/ BeginStopReturn(c)
    \/ BeginStopCopyFailed(c)
    \/ \E tok \in Tokens, l \in StopLeases : RenewStop(c, tok, l)
    \/ \E tok \in Tokens : RenewStopFailed(c, tok)
    \/ \E tok \in Tokens : EndStop(c, tok)

HwCall(c) ==
    \/ \E l \in HwLeases, o \in AcquireOutcomes, copied \in BOOLEAN :
          AcquireHardware(c, l, o, copied)
    \/ \E ok \in BOOLEAN : AcquireUndone(c, ok)
    \/ \E k \in HwTokens, l \in HwLeases, ok \in BOOLEAN : RenewHardware(c, k, l, ok)
    \/ \E tok \in Tokens, k \in HwTokens : UpdateHardware(c, tok, k)
    \/ \E r \in {"ok", "other", "restore"}, a \in {"saved", "armed"} : UpdateEngine(c, r, a)
    \/ UpdateFinish(c)
    \/ \E k \in HwTokens, ok \in BOOLEAN : ReleaseHardware(c, k, ok)
    \/ ReleaseFinish(c)

ProbeCall(c) ==
    \/ \E t \in Threads : ProbeSuspend(c, t)
    \/ ProbeResume(c)

Watchdog ==
    \/ WatchdogRead
    \/ \E ok \in BOOLEAN : WatchdogEngine(ok)
    \/ WatchdogEngineBusy
    \/ WatchdogLease
    \/ WatchdogMiss
    \/ WatchdogExit

ModuleStop ==
    \/ \E restored, joined \in BOOLEAN : StopEngine(restored, joined)
    \/ StopRelease
    \/ StopRetire
    \/ StopJoin

Clock == Tick /\ UNCHANGED <<engineVars, stopVars, call, granted, wdVars, module>>

Next ==
    \/ Clock
    \/ Kernel
    \/ \E c \in Stoppers : StopCall(c)
    \/ \E c \in HwCallers : HwCall(c)
    \/ \E c \in Probers : ProbeCall(c)
    \/ Watchdog
    \/ ModuleStop

Spec == Init /\ [][Next]_vars

(* The watchdog runs every 20 ms: it keeps taking steps, a lock that it     *)
(* tries is not taken every time, and neither the engine nor the kernel     *)
(* refuses it forever.  A hardware update that has raised the gate ends:    *)
(* its caller is in the kernel and is never suspended by its own session.   *)
(* No client is assumed to make another call.                               *)
LeaseServed ==
    WatchdogLease /\ (LeaseOver(ss) => ~ss'.active \/ ss'.hwMutation \/ ss'.hwPending)

Fairness ==
    /\ WF_vars(Clock)
    /\ WF_vars(WatchdogRead)
    /\ SF_vars(WatchdogEngine(TRUE))
    /\ WF_vars(\E ok \in BOOLEAN : WatchdogEngine(ok))
    /\ SF_vars(LeaseServed)
    /\ SF_vars(wd.recovered /\ LeaseServed)
    /\ \A c \in HwCallers :
          /\ WF_vars(\E r \in {"ok", "other", "restore"}, a \in {"saved", "armed"} :
                        UpdateEngine(c, r, a))
          /\ WF_vars(UpdateFinish(c))

FairSpec == Spec /\ Fairness

-----------------------------------------------------------------------------
(* Properties *)

(* A thread that the companion holds stopped is always on the list of an    *)
(* active session, where EndStop and the watchdog will find it: no failed   *)
(* BeginStop, rolled-back RenewStop, refused resume, recycled UID or unload *)
(* drops a thread that is still suspended (main.c:260-340, 853-872,         *)
(* 926-983).                                                                *)
NoOrphanedStop ==
    \A t \in Threads : thread[t] = "stop" => ss.active /\ t \in ss.suspended

(* Comparators that an APPLY left in an unknown state keep their process     *)
(* stopped: from the failed programming until the engine has restored them, *)
(* the stop session of the same process stands with its gate up, through    *)
(* EndStop, RenewStop, an expired lease and module_stop                     *)
(* (main.c:262-264, 380-393, 1855-1870).                                    *)
TornHardwareHeld ==
    hw.regs = "torn" =>
        /\ ss.active /\ ss.pid = hw.pid /\ ss.hwToken = hw.tok
        /\ ss.hwMutation \/ ss.hwPending

(* The cores are programmed only while every other thread of the process is *)
(* stopped, although the session lock is not held then: nothing resumes the *)
(* target between the check and the programming (main.c:1832-1849).         *)
ProgramsStoppedTarget ==
    [][\A c \in HwCallers :
          call[c].op = "update" /\ call'[c].op = "updated" /\ hw' # hw
          /\ hw.pid = ProcOf[c] /\ hw.tok = call[c].hw /\ hw'.regs # "saved"
          => \A t \in ThreadsOf(ProcOf[c]) \ {c} : Suspended(thread, t)]_vars

(* The watchdog, whose clock reading may be old and may predate the session, *)
(* never resumes a stopped thread whose lease has not run out               *)
(* (main.c:348, 390-393).                                                   *)
WatchdogKeepsLease ==
    [][\A t \in Threads :
          wd.pc = "lease" /\ wd'.pc = "top" /\ thread[t] = "stop" /\ thread'[t] = "running"
          => clock >= ss.deadline]_vars

(* A gate left to the watchdog, while the engine holds the session of      *)
(* somebody else, which vdHwDebugRecover does not touch.                    *)
GateOnForeignSession == ss.hwPending /\ hw.active /\ ~Owns(ss.pid, ss.hwToken)

(* Every stop ends, with no help from any client: when the client never     *)
(* calls again the watchdog resumes the threads (vitadebug_kernel.h:316-319).*)
(* The one exception is a gate that waits for the engine while the engine   *)
(* belongs to a session of somebody else.                                   *)
StopStands == ss.active /\ ~GateOnForeignSession
StopEnds == []<>~StopStands

(* vitadebug_kernel.h:318: "expiration automatically resumes every thread   *)
(* owned by this session".                                                  *)
ExpirationResumes ==
    (\E t \in Threads : thread[t] = "stop") ~> (\A t \in Threads : thread[t] # "stop")

(* main.c:574: "Do not retire the lease watchdog until every stopped         *)
(* application thread has been released."                                   *)
WatchdogOutlivesStops == wdStop => ~ss.active

=============================================================================
