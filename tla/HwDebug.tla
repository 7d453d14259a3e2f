------------------------------ MODULE HwDebug ------------------------------
(***************************************************************************)
(* Inside the hardware-debug engine (kernel/src/hw_debug.c): the caller that *)
(* holds engine_lock publishes one command generation at a time, sets one   *)
(* event flag per core, and waits 250 ms for the three pinned workers.  A   *)
(* worker that is late goes on running after its caller gave up; the next   *)
(* command first waits for it.                                              *)
(*                                                                         *)
(* The comparators of a core are abstracted to the set of points they carry:*)
(* {} is the exact snapshot, {"torn"} a restoration that failed half-way.   *)
(* Since engine_lock serialises the callers there is one `op`, the call that*)
(* holds the lock.  Module HwEngine is what the callers see of all this.    *)
(***************************************************************************)
EXTENDS Integers, FiniteSets, FiniteSetsExt

CONSTANTS
    Procs, NoProc, HwLeases, MaxTime, MaxHwToken,   \* as in HwEngine
    Points,         \* the execute and the watch point a session may have
    LastCore,       \* cores are 0 .. LastCore
    LastGen,        \* command_generation wraps here, past 0 (2^32 - 1 in the code)
    MaxFaults       \* bound: failed register checks, event flags, timeouts, dead workers

HwConstants ==
    /\ NoProc \notin Procs /\ HwLeases \subseteq Nat \ {0}
    /\ MaxTime \in Nat /\ MaxHwToken \in Nat /\ MaxFaults \in Nat
    /\ LastCore \in Nat /\ LastGen \in Nat \ {0}

VARIABLES
    clock,
    session,        \* hw_session; `points` are its active points
    ready,          \* engine_ready
    nextHw,         \* next_hw_token
    snapshot,       \* core_state[].snapshot_valid
    regs,           \* what the comparators of a core carry
    cmd,            \* command_generation, _kind, _inflight, _complete_mask, _result
    event,          \* worker_events[]: VD_HW_EVENT_COMMAND is set
    worker,         \* the pinned worker threads
    op,             \* the call that holds engine_lock
    stopping,       \* worker_stop
    faults,
    known,          \* history: what the caller was last told of the comparators
    before,         \* history: the state a caller saw when op took the lock
    payload         \* history: the points when the last command was published

callVars == <<session, ready, nextHw, snapshot, op, stopping, known, before>>
vars == <<clock, callVars, regs, cmd, event, worker, faults, payload>>

Cores == 0 .. LastCore
Torn == {"torn"}
Results == {"ok", "core", "busy", "restore"}

NoSession == [active |-> FALSE, pid |-> NoProc, tok |-> 0, deadline |-> 0, points |-> {}]
Nothing == [session |-> NoSession, ready |-> TRUE, known |-> "saved", nextHw |-> 1]
Unlocked == [call |-> "none", pc |-> "idle", kind |-> "none", lease |-> 0, first |-> "none",
             unset |-> {}]
Asleep(seen) == [pc |-> "wait", seen |-> seen, gen |-> 0, kind |-> "none", res |-> "ok"]

TypeOK ==
    /\ clock \in 0 .. MaxTime
    /\ session \in [active : BOOLEAN, pid : Procs \cup {NoProc}, tok : 0 .. MaxHwToken,
                    deadline : 0 .. MaxTime, points : SUBSET Points]
    /\ ready \in BOOLEAN /\ nextHw \in 1 .. MaxHwToken + 1
    /\ snapshot \in [Cores -> BOOLEAN]
    /\ regs \in [Cores -> (SUBSET Points) \cup {Torn}]
    /\ cmd \in [gen : 0 .. LastGen, kind : {"none", "claim", "apply", "restore"},
                inflight : BOOLEAN, complete : SUBSET Cores, result : [Cores -> Results]]
    /\ event \in [Cores -> BOOLEAN]
    /\ worker \in [Cores -> [pc : {"wait", "woken", "chosen", "ran", "gone"},
                             seen : 0 .. LastGen, gen : 0 .. LastGen,
                             kind : {"none", "claim", "apply", "restore"}, res : Results]]
    /\ op \in [call : {"none", "acquire", "renew", "update", "release", "watchdog",
                       "recover", "stop"},
               pc : {"idle", "dispatch", "events", "await"},
               kind : {"none", "claim", "apply", "restore"}, lease : HwLeases \cup {0},
               first : Results \cup {"none"}, unset : SUBSET Cores]
    /\ stopping \in BOOLEAN /\ faults \in 0 .. MaxFaults
    /\ known \in {"saved", "armed", "torn"} /\ payload \subseteq Points

(* vdHwDebugStart, when every event flag and worker could be created. *)
Init ==
    /\ clock = 0 /\ session = NoSession /\ ready = TRUE /\ nextHw = 1
    /\ snapshot = [c \in Cores |-> FALSE]
    /\ regs = [c \in Cores |-> {}]
    /\ cmd = [gen |-> 0, kind |-> "none", inflight |-> FALSE, complete |-> {},
              result |-> [c \in Cores |-> "ok"]]
    /\ event = [c \in Cores |-> FALSE]
    /\ worker = [c \in Cores |-> Asleep(0)]
    /\ op = Unlocked /\ stopping = FALSE /\ faults = 0
    /\ known = "saved" /\ before = Nothing
    /\ payload = {}

-----------------------------------------------------------------------------
(* A pinned worker: execute_command and worker_main *)

(* What a command may do to one core: the comparators and snapshot flag it  *)
(* leaves and its result.  The first member is the one without a fault.     *)
Outcome(r, s, res, bad) == [regs |-> r, snap |-> s, res |-> res, bad |-> bad]

(* restore_core: nothing to do without a snapshot.  It disables, rewrites   *)
(* and reads back; the worker may also find itself on another core.         *)
RestoreCore(c) ==
    IF ~snapshot[c] THEN {Outcome(regs[c], FALSE, "ok", FALSE)}
    ELSE {Outcome({}, TRUE, "ok", FALSE), Outcome(Torn, TRUE, "restore", TRUE),
          Outcome(regs[c], TRUE, "core", TRUE)}

(* CLAIM: capture and validate, then a round trip through the disabled      *)
(* comparators.  The snapshot becomes valid before the round trip, so that  *)
(* a failed one is restored later.                                          *)
ClaimCore(c) ==
    {Outcome(regs[c], TRUE, "ok", FALSE), Outcome(regs[c], FALSE, "busy", TRUE),
     Outcome(regs[c], FALSE, "core", TRUE), Outcome({}, TRUE, "core", TRUE),
     Outcome(Torn, TRUE, "restore", TRUE)}

(* apply_core: any failed check rolls the core back to its snapshot. *)
ApplyCore(c) ==
    IF ~snapshot[c] THEN {Outcome(regs[c], FALSE, "core", FALSE)}
    ELSE IF session.points = {} THEN RestoreCore(c)
    ELSE {Outcome(session.points, TRUE, "ok", FALSE), Outcome({}, TRUE, "core", TRUE),
          Outcome({}, TRUE, "busy", TRUE), Outcome(Torn, TRUE, "restore", TRUE),
          Outcome(regs[c], TRUE, "core", TRUE)}

ExecuteCommand(c, kind) ==
    CASE kind = "claim" -> ClaimCore(c)
      [] kind = "apply" -> ApplyCore(c)
      [] kind = "restore" -> RestoreCore(c)

Spend(bad) == IF bad THEN faults < MaxFaults /\ faults' = faults + 1 ELSE UNCHANGED faults

WorkerKept == UNCHANGED <<clock, session, ready, nextHw, op, stopping, known, before, payload>>

(* ksceKernelWaitEventFlag: returns with the event, or fails for good. *)
WorkerWakes(c) ==
    /\ worker[c].pc = "wait" /\ event[c]
    /\ event' = [event EXCEPT ![c] = FALSE]
    /\ worker' = [worker EXCEPT ![c].pc = "woken"]
    /\ WorkerKept /\ UNCHANGED <<regs, snapshot, cmd, faults>>

WorkerDies(c) ==
    /\ worker[c].pc = "wait" /\ Spend(TRUE)
    /\ worker' = [worker EXCEPT ![c].pc = "gone"]
    /\ WorkerKept /\ UNCHANGED <<regs, snapshot, cmd, event>>

WorkerStops(c) ==
    /\ worker[c].pc \in {"wait", "woken"} /\ stopping
    /\ worker' = [worker EXCEPT ![c].pc = "gone"]
    /\ WorkerKept /\ UNCHANGED <<regs, snapshot, cmd, event, faults>>

WorkerChooses(c) ==
    /\ worker[c].pc = "woken" /\ ~stopping
    /\ worker' = [worker EXCEPT ![c] =
                      IF cmd.gen = @.seen THEN Asleep(@.seen)
                      ELSE [@ EXCEPT !.pc = "chosen", !.gen = cmd.gen]]
    /\ WorkerKept /\ UNCHANGED <<regs, snapshot, cmd, event, faults>>

(* The kind is read after the generation; execution has interrupts off. *)
WorkerRuns(c) ==
    /\ worker[c].pc = "chosen"
    /\ \E o \in ExecuteCommand(c, cmd.kind) :
          /\ Spend(o.bad)
          /\ regs' = [regs EXCEPT ![c] = o.regs]
          /\ snapshot' = [snapshot EXCEPT ![c] = o.snap]
          /\ worker' = [worker EXCEPT ![c].pc = "ran", ![c].kind = cmd.kind, ![c].res = o.res]
    /\ WorkerKept /\ UNCHANGED <<cmd, event>>

WorkerCompletes(c) ==
    /\ worker[c].pc = "ran"
    /\ cmd' = [cmd EXCEPT !.result[c] = worker[c].res, !.complete = @ \cup {c}]
    /\ worker' = [worker EXCEPT ![c] = Asleep(@.gen)]
    /\ WorkerKept /\ UNCHANGED <<regs, snapshot, event, faults>>

-----------------------------------------------------------------------------
(* The call that holds the lock *)

NextGeneration == (cmd.gen % LastGen) + 1

(* dispatch_command.  A command still in flight is one whose caller timed   *)
(* out: it has to settle first, and its status is dropped.                  *)
Settle ==
    /\ op.pc = "dispatch" /\ cmd.inflight /\ cmd.complete = Cores
    /\ cmd' = [cmd EXCEPT !.inflight = FALSE]
    /\ UNCHANGED <<clock, callVars, regs, event, worker, faults, payload>>

Publish ==
    /\ op.pc = "dispatch" /\ ~cmd.inflight
    /\ cmd' = [gen |-> NextGeneration, kind |-> op.kind, inflight |-> TRUE, complete |-> {},
               result |-> [c \in Cores |-> "ok"]]
    /\ op' = [op EXCEPT !.pc = "events", !.unset = Cores]
    /\ payload' = IF op.kind = "apply" THEN session.points ELSE {}
    /\ UNCHANGED <<clock, session, ready, nextHw, snapshot, stopping, known, before, regs,
                   event, worker, faults>>

(* An event flag that cannot be set counts as a failed, completed core. *)
SetEvent ==
    /\ op.pc = "events"
    /\ LET c == Min(op.unset) IN
       /\ \/ event' = [event EXCEPT ![c] = TRUE] /\ UNCHANGED <<cmd, faults>>
          \/ /\ Spend(TRUE)
             /\ cmd' = [cmd EXCEPT !.result[c] = "core", !.complete = @ \cup {c}]
             /\ UNCHANGED event
       /\ op' = [op EXCEPT !.unset = @ \ {c}, !.pc = IF op.unset = {c} THEN "await" ELSE @]
    /\ UNCHANGED <<clock, session, ready, nextHw, snapshot, stopping, known, before, regs,
                   worker, payload>>

(* finish_inflight_command reports the lowest core that failed. *)
CommandResult ==
    LET failed == {c \in Cores : cmd.result[c] # "ok"}
    IN  IF failed = {} THEN "ok" ELSE cmd.result[Min(failed)]

Unlock == op' = Unlocked /\ before' = Nothing

(* What the caller does with the result of its command, up to unlock_engine *)
(* or the RESTORE that a failed CLAIM or APPLY needs.  A late APPLY may     *)
(* still be reading the points: they stay as they are.                      *)
AfterFailure(res) ==
    /\ op' = [op EXCEPT !.kind = "restore", !.pc = "dispatch", !.first = res]
    /\ UNCHANGED <<session, nextHw, snapshot, stopping, known, before>>

AfterClaim ==
    /\ session' = [session EXCEPT !.deadline = clock + op.lease]
    /\ Unlock /\ UNCHANGED <<nextHw, snapshot, stopping, known>>

AfterApply ==
    /\ known' = IF session.points = {} THEN "saved" ELSE "armed"
    /\ Unlock /\ UNCHANGED <<session, nextHw, snapshot, stopping>>

(* restore_session_locked, and vdHwDebugStop's last part. *)
ClearSession ==
    /\ session' = NoSession
    /\ snapshot' = [c \in Cores |-> FALSE]
    /\ known' = "saved"

AfterRestoreAnyway(res) ==
    /\ ClearSession
    /\ stopping' = (stopping \/ op.call = "stop")
    /\ Unlock /\ UNCHANGED nextHw

AfterRestore(res) ==
    /\ IF res = "ok"
       THEN ClearSession /\ stopping' = (stopping \/ op.call = "stop")
       ELSE /\ known' = IF op.call = "update" /\ op.first # "none" THEN "torn" ELSE known
            /\ UNCHANGED <<session, snapshot, stopping>>
    /\ Unlock /\ UNCHANGED nextHw

After(res) ==
    IF op.kind = "restore" THEN AfterRestore(res)
    ELSE IF res # "ok" THEN AfterFailure(res)
    ELSE IF op.kind = "claim" THEN AfterClaim
    ELSE AfterApply

(* The engine is poisoned by a timeout, a failed RESTORE, a failed APPLY, a *)
(* CLAIM that failed for another reason than a busy comparator; and stopped.*)
StaysReady(res) ==
    /\ ready
    /\ op.kind = "restore" =>
          /\ res = "ok" /\ op.call # "stop"
          /\ op.first \in {"none"} \cup (IF op.call = "acquire" THEN {"busy"} ELSE {})

Await ==
    /\ op.pc = "await" /\ cmd.complete = Cores
    /\ cmd' = [cmd EXCEPT !.inflight = FALSE]
    /\ After(CommandResult)
    /\ ready' = StaysReady(CommandResult)
    /\ UNCHANGED <<clock, regs, event, worker, faults, payload>>

(* 250 ms have passed, for this command or for the one it has to wait for:  *)
(* the command stays in flight and no other is issued over it.              *)
TimeOut ==
    /\ op.pc = "await" \/ (op.pc = "dispatch" /\ cmd.inflight)
    /\ cmd.complete # Cores
    /\ \/ Spend(TRUE)
       \/ \E c \in Cores \ cmd.complete : worker[c].pc = "gone" /\ UNCHANGED faults
    /\ ready' = FALSE
    /\ After("core")
    /\ UNCHANGED <<clock, cmd, regs, event, worker, payload>>

-----------------------------------------------------------------------------
(* The entry points *)

Lock(call, kind, lease) ==
    /\ op.pc = "idle" /\ ~stopping
    /\ op' = [call |-> call, pc |-> "dispatch", kind |-> kind, lease |-> lease,
              first |-> "none", unset |-> {}]
    /\ before' = [session |-> session, ready |-> ready, known |-> known, nextHw |-> nextHw]
    /\ UNCHANGED <<clock, stopping, regs, cmd, event, worker, faults, payload>>

Restoring(call) ==
    /\ Lock(call, "restore", 0)
    /\ UNCHANGED <<session, ready, nextHw, snapshot, known>>

Owns(p, k) == session.active /\ session.pid = p /\ session.tok = k
Expired(now) == session.active /\ now >= session.deadline

(* vdHwDebugAcquire publishes the session before CLAIM. *)
Acquire(p, lease) ==
    /\ ready /\ ~session.active
    /\ nextHw <= MaxHwToken /\ clock + lease <= MaxTime                    \* bounds
    /\ Lock("acquire", "claim", lease)
    /\ session' = [active |-> TRUE, pid |-> p, tok |-> nextHw, deadline |-> clock + lease,
                   points |-> {}]
    /\ snapshot' = [c \in Cores |-> FALSE]
    /\ nextHw' = nextHw + 1
    /\ UNCHANGED <<ready, known>>

(* vdHwDebugRenew: a poisoned session is not extended. *)
Renew(p, k, lease) ==
    /\ op.pc = "idle" /\ ~stopping
    /\ Owns(p, k) /\ ~Expired(clock) /\ ready
    /\ clock + lease <= MaxTime                                            \* bound
    /\ session' = [session EXCEPT !.deadline = clock + lease]
    /\ UNCHANGED <<clock, ready, nextHw, snapshot, op, stopping, known, before, regs, cmd,
                   event, worker, faults, payload>>

(* vdHwDebugRenew and vdHwDebugUpdate restore a session they find expired. *)
FindsExpired == Expired(clock) /\ Restoring("renew")

(* vdHwDebugUpdate inserts or removes a point.  Its caller in main.c keeps  *)
(* a process whose comparators are in an unknown state from coming here     *)
(* (KernelStop!TornHardwareHeld).                                           *)
Update(p, k, pts) ==
    /\ Owns(p, k) /\ ~Expired(clock) /\ known # "torn"
    /\ pts # session.points
    /\ Lock("update", "apply", 0)
    /\ session' = [session EXCEPT !.points = pts]
    /\ UNCHANGED <<ready, nextHw, snapshot, known>>

OnePoint(pts) == \E x \in Points : pts = session.points \cup {x} \/ pts = session.points \ {x}

(* vdHwDebugRelease, vdHwDebugWatchdog (with a time read before it got the  *)
(* lock), vdHwDebugRecover, vdHwDebugStop.                                  *)
Release(p, k) == Owns(p, k) /\ Restoring("release")
WatchdogHealthy(now) == ready /\ Expired(now) /\ Restoring("watchdog")
WatchdogRestores(now) == Expired(now) /\ Restoring("watchdog")
Recover(p, k) == known = "torn" /\ Owns(p, k) /\ Restoring("recover")
Stop ==
    \/ session.active /\ Restoring("stop")
    \/ /\ op.pc = "idle" /\ ~stopping /\ ~session.active
       /\ stopping' = TRUE /\ ready' = FALSE
       /\ UNCHANGED <<clock, session, nextHw, snapshot, op, known, before, regs, cmd, event,
                      worker, faults, payload>>

Tick ==
    /\ clock + op.lease < MaxTime                                          \* bound
    /\ clock' = clock + 1
    /\ UNCHANGED <<callVars, regs, cmd, event, worker, faults, payload>>

-----------------------------------------------------------------------------
WorkerStep(c) ==
    \/ WorkerWakes(c) \/ WorkerStops(c) \/ WorkerChooses(c)
    \/ WorkerRuns(c) \/ WorkerCompletes(c)

CallStep == Settle \/ Publish \/ SetEvent \/ Await \/ TimeOut

Entry ==
    \/ \E p \in Procs, l \in HwLeases : Acquire(p, l)
    \/ \E p \in Procs, l \in HwLeases : Renew(p, session.tok, l)
    \/ FindsExpired
    \/ \E p \in Procs, pts \in SUBSET Points : OnePoint(pts) /\ Update(p, session.tok, pts)
    \/ \E p \in Procs : Release(p, session.tok) \/ Recover(p, session.tok)
    \/ Stop

Next ==
    \/ Tick
    \/ \E c \in Cores : WorkerStep(c) \/ WorkerDies(c)
    \/ CallStep
    \/ Entry
    \/ \E now \in 0 .. clock : WatchdogRestores(now)

Spec == Init /\ [][Next]_vars

(* The workers and the caller are scheduled, time passes, and the watchdog  *)
(* thread finds the engine unlocked again and again.                        *)
FairSpec ==
    /\ Spec
    /\ WF_vars(Tick) /\ WF_vars(CallStep)
    /\ \A c \in Cores : WF_vars(WorkerStep(c))
    /\ SF_vars(WatchdogRestores(clock))

-----------------------------------------------------------------------------
(* Properties *)

(* Nothing is left behind: whenever the engine is unlocked with no session, *)
(* every core carries exactly what it carried before the session, no        *)
(* command is in flight and no worker is running one - after timeouts, late *)
(* workers, failed claims and failed applies (hw_debug.c:719-860, 1138-1151).*)
ReleasedClean ==
    op.pc = "idle" /\ ~session.active =>
        /\ \A c \in Cores : regs[c] = {} /\ worker[c].pc \notin {"chosen", "ran"}
        /\ ~cmd.inflight

(* A worker only ever runs the command that is published: no generation is  *)
(* issued over a late worker, so that it would run a newer command under an *)
(* older generation or complete one that it has not run                     *)
(* (hw_debug.c:745-750, 783-793).                                           *)
OneGeneration ==
    \A c \in Cores :
        /\ worker[c].pc \in {"chosen", "ran"} =>
              cmd.inflight /\ worker[c].gen = cmd.gen /\ c \notin cmd.complete
        /\ worker[c].pc = "ran" => worker[c].kind = cmd.kind

(* While an APPLY is in flight the points of the session are the ones it    *)
(* was published with, even after its caller timed out: "Leave it immutable *)
(* until restore_session_locked has first quiesced that generation"         *)
(* (hw_debug.c:1327-1331).                                                  *)
PayloadImmutable ==
    cmd.inflight /\ cmd.kind = "apply" => session.points = payload

(* What a healthy engine has told its owner is true of every core: the      *)
(* points of the last successful update, or the snapshot                    *)
(* (hw_debug.c:526-629, 1320-1345).                                         *)
ToldTheTruth ==
    op.pc = "idle" /\ ready /\ session.active =>
        /\ \A c \in Cores : regs[c] = session.points /\ snapshot[c]
        /\ (known = "armed") = (session.points # {})

(* The abstract engine, each call one step, taken when it drops the lock. *)
Held == op.pc # "idle"
HwOf(s, regsKnown) == [active |-> s.active, pid |-> s.pid, tok |-> s.tok,
                       deadline |-> s.deadline, regs |-> regsKnown]
HwSeen == IF Held THEN HwOf(before.session, before.known) ELSE HwOf(session, known)
ReadySeen == IF Held THEN before.ready ELSE ready
NextHwSeen == IF Held THEN before.nextHw ELSE nextHw
Engine == INSTANCE HwEngine WITH hw <- HwSeen, ready <- ReadySeen, nextHw <- NextHwSeen

(* Every call of the engine, with its workers, timeouts and retries, is one *)
(* atomic step of the engine that module KernelStop is verified with: the   *)
(* initial state is one of EngineSpec, and so is every step, or a stutter.  *)
EngineStarts == Engine!EngineInit
EngineStep == [Engine!EngineNext]_<<clock, Engine!engineVars>>

(* The watchdog ends an abandoned session: its lease runs out and, once     *)
(* faults stop, every core is restored - unless a worker thread has died    *)
(* (hw_debug.c:1055-1062).                                                  *)
Leased == session.active /\ \A c \in Cores : worker[c].pc # "gone"
LeaseEnds == []<>~Leased

=============================================================================
