----------------------------- MODULE PmuProfiler -----------------------------
(***************************************************************************)
(* The PMU profiler of the kernel companion, from its system calls down to  *)
(* the registers: the transport (pmu_profiler_transport.c) that binds a     *)
(* lease to one thread, the bridge (pmu_profiler_bridge.c) that holds the   *)
(* provider lease, the session (pmu_session.c) that owes the restoration,   *)
(* and the engine of module PmuBackend.                                     *)
(*                                                                         *)
(* Every call into the transport holds pmu_profiler_lock from end to end, so*)
(* a system call, a watchdog pass and module_stop's shutdown are one step   *)
(* each.  Between the steps the worker finishes late commands, leases run   *)
(* out, threads exit and another PMU user comes and goes.                   *)
(*                                                                         *)
(* A session is created afresh by every Open, with next_lease_token = 1:    *)
(* lease tokens are 1 (held) or 0, and TRUE and FALSE here.                 *)
(***************************************************************************)
EXTENDS PmuBackend

CONSTANTS
    Threads,        \* threads that profile
    NoThread,       \* owner_thread -1
    Builds,         \* values of VD_PMU_PROFILER_SAFE_REARM_COMPILED looked at
    RealEvents,     \* which events are opened: {FALSE} is software increment only
    Unload,         \* may module_stop be called?
    MaxGeneration,  \* bound: number of opens
    MaxFaults       \* bound: faults of hardware, kernel calls and copies

PmuConstants ==
    /\ MaxFaults \in Nat /\ MaxGeneration \in Nat
    /\ Builds \subseteq BOOLEAN /\ RealEvents \subseteq BOOLEAN

VARIABLES
    safeRearm,      \* VD_PMU_PROFILER_SAFE_REARM_COMPILED, fixed by the build
    g_pmu,          \* the engine and the registers
    session,        \* bridge.session
    bridge,         \* the bridge, and the global provider lease
    transport,
    refs,           \* references the companion really holds on its owner thread
    life,           \* of each thread: "alive", "dormant", or "deleted" (no such UID)
    module,         \* "loaded", "stopping" (the transport is shut down), "unloaded"
    seen,           \* the watchdog has tested the flags and goes for the lock
    last            \* the call that returned last: its name, thread, and result

vars == <<safeRearm, g_pmu, session, bridge, transport, refs, life, module, seen, last>>

Generations == 1 .. MaxGeneration
Session == [st : {"empty", "active", "pending"}, expired : BOOLEAN]
Bridge == [init : BOOLEAN, held : BOOLEAN, active : BOOLEAN, auto : BOOLEAN,
           orphan : BOOLEAN, lease : BOOLEAN]      \* lease: g_bridge_provider_lease
Transport == [st : {"idle", "active", "cleanup", "awaiting"},
              owner : Threads \cup {NoThread}, gen : Generations \cup {0},
              next : 1 .. MaxGeneration + 1, real : BOOLEAN, token : BOOLEAN,
              attempted : BOOLEAN, proven : BOOLEAN, idValid : BOOLEAN,
              uncertain : BOOLEAN]

EmptySession == [st |-> "empty", expired |-> FALSE]
NoBridge(lease) == [init |-> FALSE, held |-> FALSE, active |-> FALSE, auto |-> FALSE,
                    orphan |-> FALSE, lease |-> lease]

(* What one call works on; an operation yields a set of [w, r]. *)
World == [g |-> g_pmu, s |-> session, b |-> bridge, t |-> transport, n |-> refs]
Returns(w, r) == {[w |-> w, r |-> r]}
On(w, S) == {[w |-> [w EXCEPT !.g = o.g], r |-> o.r] : o \in S}
Bind(S, F(_)) == UNION {F(o) : o \in S}

-----------------------------------------------------------------------------
(* pmu_session.c *)

(* restore_exact: the lease ends only with a restoration whose snapshot     *)
(* equals the original one.                                                 *)
RestoreExact(w) ==
    LET p == [w EXCEPT !.s.st = "pending"]
    IN  Bind(On(p, CallbackRestore(w.g)), LAMBDA o :
            IF o.r # "ok" THEN Returns(o.w, "err")
            ELSE Bind(On(o.w, CallbackSnapshot(o.w.g)), LAMBDA v :
                     IF v.r # "ok" \/ ~Exact(v.w.g) THEN Returns(v.w, "err")
                     ELSE Returns([v.w EXCEPT !.s = EmptySession], "ok")))

(* Whatever the restoration gave, the caller's operation has failed. *)
RestoreAndFail(w) == {[o EXCEPT !.r = "err"] : o \in RestoreExact(w)}

(* vdPmuSessionAcquire: the obligation to restore is published before the   *)
(* lane is configured.  The lease may run out while that happens.           *)
SessionAcquire(w) ==
    IF w.s.st # "empty" THEN Returns(w, "err")
    ELSE Bind(On(w, CallbackSnapshot(w.g)), LAMBDA o :
             IF o.r # "ok" THEN Returns(o.w, "err")
             ELSE Returns(o.w, "err")
                  \cup Bind(On([o.w EXCEPT !.s.st = "pending"],
                               CallbackConfigure(o.w.g)), LAMBDA c :
                           RestoreAndFail(c.w)
                           \cup IF c.r = "ok"
                                THEN Returns([c.w EXCEPT !.s.st = "active"], "ok")
                                ELSE {}))

(* vdPmuSessionRead: any failure, and an expiry before or after the counter *)
(* was read, ends the session.                                              *)
SessionRead(w) ==
    IF w.s.st # "active" THEN Returns(w, "err")
    ELSE IF w.s.expired THEN RestoreAndFail(w)
    ELSE Bind(On(w, CallbackRead(w.g)), LAMBDA o :
             RestoreAndFail(o.w) \cup IF o.r = "ok" THEN Returns(o.w, "ok") ELSE {})

SessionRestore(w) == IF w.s.st = "empty" THEN Returns(w, "err") ELSE RestoreExact(w)

(* vdPmuSessionWatchdog; "restored" is VD_PMU_SESSION_WATCHDOG_RESTORED.    *)
SessionWatchdog(w) ==
    IF w.s.st = "empty" \/ (w.s.st = "active" /\ ~w.s.expired) THEN Returns(w, "ok")
    ELSE {[o EXCEPT !.r = IF @ = "ok" THEN "restored" ELSE @] : o \in RestoreExact(w)}

-----------------------------------------------------------------------------
(* pmu_profiler_bridge.c *)

Unleased(b) == IF b.held THEN [b EXCEPT !.held = FALSE, !.lease = FALSE] ELSE b

BridgeInit(w) == [w EXCEPT !.b = [NoBridge(w.b.lease) EXCEPT !.init = TRUE],
                           !.s = EmptySession]

(* remember_automatic_restore *)
Remember(w) ==
    [w EXCEPT !.b = IF w.b.orphan
                    THEN Unleased([@ EXCEPT !.active = FALSE, !.orphan = FALSE,
                                            !.auto = FALSE])
                    ELSE [@ EXCEPT !.active = FALSE, !.auto = TRUE]]

BridgeAcquireKeeps(w) ==
    IF w.s.st # "empty" \/ w.b.auto \/ w.b.lease THEN Returns(w, "err")
    ELSE Bind(SessionAcquire([w EXCEPT !.b.held = TRUE, !.b.lease = TRUE]), LAMBDA o :
             Returns([o.w EXCEPT !.b.active = o.r = "ok" \/ o.w.s.st # "empty",
                                 !.b.orphan = o.r # "ok" /\ o.w.s.st # "empty",
                                 !.b.held = o.r = "ok" \/ o.w.s.st # "empty"], o.r))

BridgeAcquire(w) ==
    IF w.s.st # "empty" \/ w.b.auto \/ w.b.lease THEN Returns(w, "err")
    ELSE Bind(SessionAcquire([w EXCEPT !.b.held = TRUE, !.b.lease = TRUE]), LAMBDA o :
             Returns([o.w EXCEPT !.b = IF o.r = "ok" THEN [@ EXCEPT !.active = TRUE]
                                       ELSE IF o.w.s.st # "empty"
                                       THEN [@ EXCEPT !.active = TRUE, !.orphan = TRUE]
                                       ELSE Unleased(@)], o.r))

BridgeRead(w) ==
    IF w.b.auto \/ ~w.b.active \/ w.b.orphan THEN Returns(w, "err")
    ELSE Bind(SessionRead(w), LAMBDA o :
             Returns(IF o.r # "ok" /\ o.w.s.st = "empty" THEN Remember(o.w) ELSE o.w, o.r))

(* bridge_release, with the token the transport holds. *)
BridgeRelease(w) ==
    IF ~w.t.token THEN Returns(w, "err")
    ELSE IF w.b.auto /\ ~w.b.active
    THEN Returns([w EXCEPT !.b = Unleased([@ EXCEPT !.auto = FALSE])], "ok")
    ELSE IF ~w.b.active \/ w.b.orphan THEN Returns(w, "err")
    ELSE Bind(SessionRestore(w), LAMBDA o :
             Returns(IF o.r = "ok"
                     THEN [o.w EXCEPT !.b = Unleased([@ EXCEPT !.active = FALSE])]
                     ELSE o.w, o.r))

BridgeWatchdog(w) ==
    Bind(SessionWatchdog(w), LAMBDA o :
         Returns(IF o.r = "restored" THEN Remember(o.w) ELSE o.w, o.r))

RetryOrphanRestore(w) ==
    Bind(SessionRestore(w), LAMBDA o :
         Returns(IF o.r = "ok"
                 THEN [o.w EXCEPT !.b = Unleased([@ EXCEPT !.active = FALSE,
                                                           !.orphan = FALSE])]
                 ELSE o.w, o.r))

-----------------------------------------------------------------------------
(* pmu_profiler_transport.c.  Results are "ok" (zero), "done" (positive) or *)
(* "err" (negative).                                                        *)

Clear(w) ==
    [w EXCEPT !.t = [@ EXCEPT !.st = "idle", !.owner = NoThread, !.gen = 0, !.real = FALSE,
                              !.token = FALSE, !.proven = FALSE, !.idValid = FALSE,
                              !.uncertain = FALSE],
              !.b = NoBridge(w.b.lease), !.s = EmptySession]

(* query_owner_status over query_pmu_owner_identity.  A probe that loses    *)
(* count of references, or meets another object under the UID, quarantines. *)
QueryOwner(w) ==
    IF ~w.t.idValid \/ w.t.uncertain THEN Returns(w, "unknown")
    ELSE Returns(w, IF life[w.t.owner] = "alive" THEN "alive" ELSE "gone")
         \cup Maybe(w.g, Returns([w EXCEPT !.g = Faulty(@)], "unknown")
                         \cup Returns([w EXCEPT !.g = Faulty(@), !.t.uncertain = TRUE],
                                      "unknown"))

(* release_owner_identity over release_pmu_owner_identity: the UID is looked*)
(* up again, which fails once the thread is deleted.  After a failed release*)
(* nobody knows whether the reference is still held.                        *)
Quarantine(w) == [w EXCEPT !.t.uncertain = TRUE, !.t.st = "awaiting"]

ReleaseIdentity(w) ==
    IF ~w.t.idValid THEN Returns(w, "ok")
    ELSE IF w.t.uncertain THEN Returns(Quarantine(w), "err")
    ELSE IF life[w.t.owner] = "deleted" THEN Returns(Quarantine(w), "err")
    ELSE Returns([w EXCEPT !.n = @ - 1, !.t.idValid = FALSE], "ok")
         \cup Maybe(w.g, {[w |-> Quarantine([w EXCEPT !.g = Faulty(@), !.n = n]), r |-> "err"] :
                             n \in {w.n, w.n - 1}})

ReleaseAndClear(w) ==
    Bind(ReleaseIdentity(w), LAMBDA o :
         IF o.r = "ok" THEN Returns(Clear(o.w), "done") ELSE {o})

(* Re-arming: the reference is given back, then another real event may open.*)
Rearm(w) ==
    Bind(ReleaseIdentity(w), LAMBDA o :
         IF o.r = "ok" THEN Returns(Clear([o.w EXCEPT !.t.attempted = FALSE]), "done")
         ELSE {o})

(* exact_restoration_is_independently_proven *)
Proven(w) ==
    /\ w.b.init /\ w.s.st = "empty"
    /\ ~w.b.orphan /\ ~w.b.auto /\ ~w.b.held
    /\ Ready(w.g) /\ ~RecoveryPending(w.g) /\ ~HasRestoreObligation(w.g)

Authorises(w, proof) == proof = "close" \/ (proof = "gone" /\ w.t.idValid)

(* finish_exact_restoration, with the terminal proof at hand: "close",      *)
(* "gone" or "none".                                                        *)
Finish(w, proof) ==
    IF ~Proven(w) THEN Returns([w EXCEPT !.t.st = "cleanup"], "err")
    ELSE LET p == [w EXCEPT !.t.proven = TRUE]
         IN  IF ~(safeRearm /\ w.t.real) THEN ReleaseAndClear(p)
             ELSE IF Authorises(p, proof) THEN Rearm(p)
             ELSE Returns([p EXCEPT !.t.st = "awaiting", !.b = NoBridge(w.b.lease),
                                    !.s = EmptySession], "done")

(* acknowledge_restored_owner *)
Acknowledge(w, proof) ==
    IF /\ safeRearm /\ w.t.st = "awaiting" /\ w.t.proven /\ ~w.t.uncertain /\ w.t.real
       /\ Ready(w.g) /\ ~RecoveryPending(w.g) /\ ~HasRestoreObligation(w.g)
       /\ Authorises(w, proof)
    THEN Rearm(w)
    ELSE Returns(w, "err")

(* Give the lane back now, and finish or leave it to the cleanup. *)
ReleaseNow(w, proof) ==
    Bind(BridgeRelease(w), LAMBDA o :
         IF o.r = "ok" THEN Finish(o.w, proof)
         ELSE Returns([o.w EXCEPT !.t.st = "cleanup"], "err"))

(* cleanup_once: the lease watchdog, or another try for an acquisition that *)
(* failed half way; an automatic restoration is acknowledged on the spot.   *)
CleanupOnce(w, proof) ==
    Bind(IF w.b.orphan THEN RetryOrphanRestore(w) ELSE BridgeWatchdog(w), LAMBDA o :
         Bind(IF o.w.b.auto THEN BridgeRelease(o.w) ELSE {o}, LAMBDA p :
              IF p.r = "ok" /\ p.w.t.st = "active" /\ p.w.s.st = "active"
              THEN Returns(p.w, "ok")
              ELSE IF /\ p.r \in {"ok", "restored"}
                      /\ p.w.s.st = "empty" /\ ~p.w.b.orphan /\ ~p.w.b.auto /\ ~p.w.b.held
              THEN Finish(p.w, proof)
              ELSE Returns([p.w EXCEPT !.t.st = "cleanup"], "err")))

(* restore_for_owner_reference_quarantine *)
RestoreQuarantinedClears(w) ==
    {[w |-> Clear(q.w), r |-> "err"] : q \in
        Bind(IF w.t.st = "active" THEN ReleaseNow(w, "none") ELSE Returns(w, "ok"), LAMBDA o :
             IF o.w.t.st = "cleanup" THEN CleanupOnce(o.w, "none") ELSE {o})}

RestoreQuarantined(w) ==
    {[q EXCEPT !.r = "err"] : q \in
        Bind(IF w.t.st = "active" THEN ReleaseNow(w, "none") ELSE Returns(w, "ok"), LAMBDA o :
             IF o.w.t.st = "cleanup" THEN CleanupOnce(o.w, "none") ELSE {o})}

(* vdPmuProfilerTransportWatchdog: one bounded pass. *)
TransportWatchdog(w) ==
    IF w.t.uncertain THEN RestoreQuarantined(w)
    ELSE IF w.t.st = "idle"
    THEN IF ~RecoveryPending(w.g) THEN Returns(w, "ok")
         ELSE {[o EXCEPT !.r = IF @ # "ok" \/ RecoveryPending(o.w.g) \/ ~Ready(o.w.g)
                               THEN "err" ELSE "done"] : o \in On(w, BackendRecover(w.g))}
    ELSE Bind(QueryOwner(w), LAMBDA o :
             IF o.w.t.uncertain THEN RestoreQuarantined(o.w)
             ELSE IF o.w.t.st = "awaiting"
             THEN IF o.r = "gone" THEN Acknowledge(o.w, "gone") ELSE Returns(o.w, "ok")
             ELSE IF o.r = "gone" /\ o.w.t.st = "active" THEN ReleaseNow(o.w, "gone")
             ELSE CleanupOnce(o.w, IF o.r = "gone" THEN "gone" ELSE "none"))

(* vdPmuProfilerTransportOpen by thread c, once the transport is idle. *)
OpenAcquire(w, c, real, captured) ==
    LET t == [w.t EXCEPT !.owner = c, !.gen = w.t.next, !.next = @ + 1, !.real = real,
                         !.proven = FALSE, !.idValid = captured,
                         !.attempted = @ \/ real]
        i == BridgeInit([w EXCEPT !.t = t, !.n = IF captured THEN @ + 1 ELSE @])
    IN  IF ~Ready(w.g) THEN {[o EXCEPT !.r = "err"] : o \in ReleaseAndClear([i EXCEPT !.b = w.b])}
        ELSE Bind(BridgeAcquire(i), LAMBDA o :
                 IF o.r = "ok"
                 THEN Returns([o.w EXCEPT !.t.st = "active", !.t.token = TRUE], "ok")
                 ELSE IF o.w.b.orphan \/ o.w.b.held
                 THEN Returns([o.w EXCEPT !.t.st = "cleanup"], "err")
                 ELSE {[e EXCEPT !.r = "err"] : e \in ReleaseAndClear(o.w)})

OpenIdle(w, c, real) ==
    IF real /\ w.t.attempted THEN Returns(w, "err")             \* REBOOT_REQUIRED
    ELSE IF ~(safeRearm /\ real) THEN OpenAcquire(w, c, real, FALSE)
    ELSE OpenAcquire(w, c, real, TRUE)
         \cup Maybe(w.g, Returns([w EXCEPT !.g = Faulty(@)], "err"))

TransportOpen(w, c, real) ==
    IF ~Ready(w.g) THEN Returns(w, "err")
    ELSE IF w.t.st = "idle" THEN OpenIdle(w, c, real)
    ELSE Bind(TransportWatchdog(w), LAMBDA o :
             IF o.r = "err" \/ o.w.t.st # "idle" THEN Returns(o.w, "err")
             ELSE OpenIdle(o.w, c, real))

HandleValid(w, c, k) ==
    /\ w.t.st # "idle" /\ w.t.token
    /\ w.t.owner = c /\ w.t.gen = k

TransportRead(w, c, k) ==
    IF ~Ready(w.g) \/ ~HandleValid(w, c, k) \/ w.t.st # "active" THEN Returns(w, "err")
    ELSE Bind(BridgeRead(w), LAMBDA o :
             IF o.r = "ok" THEN {o}
             ELSE {[e EXCEPT !.r = "err"] : e \in
                      IF o.w.b.auto THEN ReleaseNow(o.w, "none")
                      ELSE IF o.w.s.st = "pending" \/ o.w.b.orphan
                      THEN Returns([o.w EXCEPT !.t.st = "cleanup"], "err")
                      ELSE {o}})

TransportClose(w, c, k) ==
    IF ~HandleValid(w, c, k) THEN Returns(w, "err")
    ELSE IF w.t.st = "awaiting" THEN Acknowledge(w, "close")
    ELSE IF ~w.b.init THEN Returns(w, "err")
    ELSE ReleaseNow(w, "close")

(* vdPmuProfilerTransportShutdown: an attempted real event keeps the module *)
(* resident.                                                                *)
ShutdownResult(w) == IF w.t.attempted THEN "err" ELSE "ok"

TransportShutdown(w) ==
    IF w.t.uncertain THEN RestoreQuarantined(w)
    ELSE IF w.t.st = "idle" THEN Returns(w, ShutdownResult(w))
    ELSE IF w.t.st = "awaiting"
    THEN Bind(QueryOwner(w), LAMBDA o :
             IF o.w.t.uncertain THEN RestoreQuarantined(o.w)
             ELSE IF o.r # "gone" THEN Returns(o.w, "err")
             ELSE {[a EXCEPT !.r = IF @ = "done" THEN "ok" ELSE "err"] :
                      a \in Acknowledge(o.w, "gone")})
    ELSE Bind(IF w.t.st # "active" THEN CleanupOnce(w, "none")
              ELSE Bind(BridgeRelease(w), LAMBDA o :
                       IF o.r = "ok" THEN Finish(o.w, "none")
                       ELSE CleanupOnce([o.w EXCEPT !.t.st = "cleanup"], "none")), LAMBDA f :
             Returns(f.w, IF f.r = "done" THEN ShutdownResult(f.w) ELSE "err"))

-----------------------------------------------------------------------------
(* main.c: the system calls, the watchdog thread and module_stop. *)

Install(w) ==
    /\ g_pmu' = w.g /\ session' = w.s /\ bridge' = w.b /\ transport' = w.t
    /\ refs' = w.n

Return(op, c, ok) == last' = [op |-> op, th |-> c, ok |-> ok]

(* vdKernelPmuProfilerOpen.  A handle that cannot be copied out is closed   *)
(* before the lock is given up.                                             *)
Open(c, real) ==
    /\ module = "loaded" /\ life[c] = "alive"
    /\ transport.next <= MaxGeneration                                  \* bound
    /\ \E o \in TransportOpen(World, c, real) :
          \/ Install(o.w) /\ Return("open", c, o.r = "ok")
          \/ /\ o.r = "ok" /\ o.w.g.faults > 0
             /\ \E z \in TransportClose([o.w EXCEPT !.g = Faulty(@)], c, o.w.t.gen) :
                    Install(z.w)
             /\ Return("open", c, FALSE)
    /\ UNCHANGED <<safeRearm, life, module, seen>>

(* vdKernelPmuProfilerRead and vdKernelPmuProfilerClose, with any handle    *)
(* that was ever published.                                                 *)
Read(c, k) ==
    /\ module = "loaded" /\ life[c] = "alive" /\ k < transport.next
    /\ \E o \in TransportRead(World, c, k) : Install(o.w) /\ Return("read", c, o.r = "ok")
    /\ UNCHANGED <<safeRearm, life, module, seen>>

CloseSwallows(c, k) ==
    /\ module = "loaded" /\ life[c] = "alive" /\ k < transport.next
    /\ \E o \in TransportClose(World, c, k) : Install(o.w) /\ Return("close", c, TRUE)
    /\ UNCHANGED <<safeRearm, life, module, seen>>

Close(c, k) ==
    /\ module = "loaded" /\ life[c] = "alive" /\ k < transport.next
    /\ \E o \in TransportClose(World, c, k) :
          Install(o.w) /\ Return("close", c, o.r \in {"ok", "done"})
    /\ UNCHANGED <<safeRearm, life, module, seen>>

(* watchdog_main tests pmu_profiler_stopping before it goes for the lock,   *)
(* and not again.                                                           *)
WatchdogLook ==
    /\ module = "loaded" /\ ~seen
    /\ seen' = TRUE
    /\ UNCHANGED <<safeRearm, g_pmu, session, bridge, transport, refs, life, module, last>>

WatchdogPass ==
    /\ seen /\ seen' = FALSE
    /\ \E o \in TransportWatchdog(World) : Install(o.w)
    /\ Return("watchdog", NoThread, TRUE)
    /\ UNCHANGED <<safeRearm, life, module>>

(* module_stop: the transport is shut down, then the backend. *)
ModuleStop ==
    /\ Unload /\ module = "loaded"
    /\ \E o \in TransportShutdown(World) :
          /\ Install(o.w)
          /\ module' = IF o.r = "ok" THEN "stopping" ELSE module
    /\ Return("stop", NoThread, TRUE)
    /\ UNCHANGED <<safeRearm, life, seen>>

ModuleStopBackend ==
    /\ module = "stopping"
    /\ \E o \in BackendStop(g_pmu) :
          g_pmu' = o.g /\ module' = IF o.r = "ok" THEN "unloaded" ELSE module
    /\ Return("stop", NoThread, TRUE)
    /\ UNCHANGED <<safeRearm, session, bridge, transport, refs, life, seen>>

-----------------------------------------------------------------------------
(* The rest of the machine. *)

Engine1(g) ==
    /\ g_pmu' = g
    /\ UNCHANGED <<safeRearm, session, bridge, transport, refs, life, module, seen, last>>

LateWorker ==
    /\ g_pmu.infl # "none" /\ ~g_pmu.done
    /\ \E c \in Completed(g_pmu) : Engine1(c)

LeaseRunsOut ==
    /\ session.st = "active" /\ ~session.expired
    /\ session' = [session EXCEPT !.expired = TRUE]
    /\ UNCHANGED <<safeRearm, g_pmu, bridge, transport, refs, life, module, seen, last>>

ForeignArrives ==
    /\ ~g_pmu.foreign /\ g_pmu.faults > 0
    /\ Engine1([Faulty(g_pmu) EXCEPT !.foreign = TRUE])

ForeignLeaves == g_pmu.foreign /\ Engine1([g_pmu EXCEPT !.foreign = FALSE])

ThreadEnds(c) ==
    /\ life[c] = "alive" \/ life[c] = "dormant"
    /\ \E l \in {"dormant", "deleted"} \ {life[c]} : life' = [life EXCEPT ![c] = l]
    /\ UNCHANGED <<safeRearm, g_pmu, session, bridge, transport, refs, module, seen, last>>

Init ==
    /\ safeRearm \in Builds
    /\ g_pmu = EngineStarted(MaxFaults)
    /\ session = EmptySession
    /\ bridge = NoBridge(FALSE)
    /\ transport = [st |-> "idle", owner |-> NoThread, gen |-> 0, next |-> 1, real |-> FALSE,
                    token |-> FALSE, attempted |-> FALSE, proven |-> FALSE,
                    idValid |-> FALSE, uncertain |-> FALSE]
    /\ refs = 0
    /\ life = [c \in Threads |-> "alive"]
    /\ module = "loaded" /\ seen = FALSE
    /\ last = [op |-> "none", th |-> NoThread, ok |-> TRUE]

Next ==
    \/ \E c \in Threads, real \in RealEvents : Open(c, real)
    \/ \E c \in Threads, k \in Generations : Read(c, k) \/ Close(c, k)
    \/ WatchdogLook \/ WatchdogPass
    \/ ModuleStop \/ ModuleStopBackend
    \/ LateWorker \/ LeaseRunsOut
    \/ ForeignArrives \/ ForeignLeaves
    \/ \E c \in Threads : ThreadEnds(c)

Spec == Init /\ [][Next]_vars

(* The watchdog thread runs every 20 ms, the worker is pinned and above the *)
(* application's priority, and time passes.                                 *)
FairSpec ==
    /\ Spec
    /\ WF_vars(WatchdogLook) /\ WF_vars(WatchdogPass)
    /\ WF_vars(LateWorker) /\ WF_vars(LeaseRunsOut)

-----------------------------------------------------------------------------
(* Properties *)

TypeOK ==
    /\ safeRearm \in Builds
    /\ g_pmu \in Engine /\ session \in Session
    /\ bridge \in Bridge /\ transport \in Transport
    /\ refs \in Nat /\ life \in [Threads -> {"alive", "dormant", "deleted"}]
    /\ module \in {"loaded", "stopping", "unloaded"} /\ seen \in BOOLEAN

(* A register that is not as the snapshot found it has somebody who owes it:*)
(* a restore record or a command in flight in the engine and, for anything  *)
(* but the selector of a first snapshot, a session that is not empty, a     *)
(* bridge that holds the global provider lease and a transport that is      *)
(* active or in cleanup (pmu_session.c:299, pmu_profiler_bridge.c:251,      *)
(* pmu_profiler_transport.c:633).                                           *)
RestorationOwed ==
    /\ ~Exact(g_pmu) => HasRestoreObligation(g_pmu)
    /\ g_pmu.need \/ g_pmu.infl \in {"configure", "read", "restore"} =>
          /\ session.st # "empty"
          /\ bridge.held /\ bridge.lease /\ bridge.active
          /\ transport.st \in {"active", "cleanup"}

(* The provider lease is never lost: whoever holds it is the bridge of the  *)
(* transport's current session, so that a later Open can succeed            *)
(* (pmu_profiler_transport.c:52 zeroes the bridge with its held flag).      *)
LeaseNotLeaked ==
    bridge.lease => bridge.held /\ transport.st \in {"active", "cleanup"}

(* vdKernelPmuProfilerClose: "A zero return proves the owned lane and       *)
(* persistent controls were restored and verified".                         *)
CloseProves ==
    last.op = "close" /\ last.ok => transport.st = "idle" /\ Exact(g_pmu)

(* While the reference on the owner is certain, exactly one is held for a   *)
(* transport with a captured identity and none otherwise: a release is      *)
(* neither forgotten nor repeated (pmu_profiler_transport.c:133).           *)
ReferenceExact ==
    ~transport.uncertain => refs = IF transport.idValid THEN 1 ELSE 0

(* The profiler holds exactly what its session accounts for: the provider   *)
(* lease and the reference on the owner.                                    *)
HeldExactly == LeaseNotLeaked /\ ReferenceExact

(* The companion goes away only with the registers restored, no reference   *)
(* held and no real event attempted since the last re-arm (main.c:523).     *)
UnloadClean ==
    module = "unloaded" => /\ Exact(g_pmu) /\ refs = 0
                           /\ ~transport.attempted /\ ~transport.uncertain

(* What Close and the unload report as done is done. *)
EndsProven == CloseProves /\ UnloadClean

(* Where a real event may follow another, its session ends only when the    *)
(* thread that owns it asks for that or has ended, and with its lane        *)
(* restored (pmu_profiler_transport.c:335).                                 *)
RearmAuthorised ==
    safeRearm /\ transport.real /\ transport'.gen # transport.gen =>
       /\ transport'.gen = 0 => g_pmu'.lane = "base" /\ g_pmu'.ctl = "base"
       /\ \/ life[transport.owner] # "alive"
          \/ last'.op \in {"close", "open"} /\ last'.th = transport.owner

(* Elsewhere one real event is attempted per boot and the module stays      *)
(* resident after it: a second one never gets a session, an unload never    *)
(* resets the latch (pmu_profiler_transport.h:157).                         *)
OneRealEventPerBoot ==
    ~safeRearm /\ transport.attempted =>
       /\ transport'.attempted /\ module' = "loaded"
       /\ transport'.gen # transport.gen => ~transport'.real

(* A quarantined reference is never touched again and never forgotten:      *)
(* "Never retry an uncertain decrement" (pmu_profiler_transport.c:154).     *)
QuarantineSticks ==
    transport.uncertain => transport'.uncertain /\ refs' = refs

(* What no step may do: end a real session without its owner, attempt a     *)
(* second real event where one is allowed, touch a quarantined reference.   *)
RealEventRules == [][RearmAuthorised /\ OneRealEventPerBoot /\ QuarantineSticks]_vars

(* Whatever happens to its owner, and whether or not another PMU user has   *)
(* turned up and stays, a configured lane is given back: by the owner, or by*)
(* the watchdog once the lease ran out or the owner is gone (main.c:397,    *)
(* pmu_backend.c:962 "Always remove our lane first").                       *)
LaneTaken == g_pmu.lane = "event"
LaneGivenBack == []<>~LaneTaken

(* A lease whose owner has ended does not block the profiler for good,      *)
(* unless the reference to the owner is quarantined or another PMU user is  *)
(* in the way of the verification (pmu_profiler_transport.c:874).           *)
Orphaned(c) == /\ transport.owner = c /\ life[c] # "alive" /\ transport.st # "idle"
               /\ ~transport.uncertain /\ ~g_pmu.foreign
OwnerGoneFrees == \A c \in Threads : []<>~Orphaned(c)

=============================================================================
