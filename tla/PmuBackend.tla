----------------------------- MODULE PmuBackend -----------------------------
(***************************************************************************)
(* The production PMU engine (kernel/src/pmu_backend.c): one command at a   *)
(* time, executed with interrupts off by the worker pinned to core 0, on    *)
(* event counter 5 of that core.  A command that does not complete in time  *)
(* leaves its caller with a timeout and the engine with a command in flight *)
(* which the worker still executes, later.                                  *)
(*                                                                         *)
(* The module is a library: an engine is a record g, an operation maps it   *)
(* to the set of its outcomes [g |-> engine afterwards, r |-> result].  The *)
(* PMU registers are part of the record: `lane` and `ctl` say whether the   *)
(* counter and PMCR.E are as the owner's snapshot found them, `sel` whether *)
(* PMSELR is.  A command is atomic: the flags it writes are only read after *)
(* command_inflight has been seen clear, or together with it.               *)
(***************************************************************************)
EXTENDS Naturals

Kinds == {"snapshot", "configure", "read", "restore", "selector"}
Results == {"ok", "err", "timeout"}

Engine ==
    [started : BOOLEAN,      \* the workers exist
     ready   : BOOLEAN,      \* ordinary commands are accepted
     infl    : Kinds \cup {"none"},   \* command_inflight, command_kind
     done    : BOOLEAN,      \* command_complete
     res     : {"ok", "err"},\* command_result
     need    : BOOLEAN,      \* restore_needed
     active  : BOOLEAN,
     saved   : BOOLEAN,      \* saved_valid
     prep    : BOOLEAN,      \* prepared_valid
     selNeed : BOOLEAN,      \* selector_restore_needed
     lane    : {"base", "event"},
     ctl     : {"base", "on"},
     sel     : {"base", "lane"},
     foreign : BOOLEAN,      \* another PMU user is counting
     faults  : Nat]          \* faults the hardware and the kernel may still show

EngineStarted(f) ==
    [started |-> TRUE, ready |-> TRUE, infl |-> "none", done |-> FALSE,
     res |-> "ok", need |-> FALSE, active |-> FALSE, saved |-> FALSE,
     prep |-> FALSE, selNeed |-> FALSE, lane |-> "base", ctl |-> "base",
     sel |-> "base", foreign |-> FALSE, faults |-> f]

(* The registers are as the snapshot found them. *)
Exact(g) == g.lane = "base" /\ g.ctl = "base" /\ g.sel = "base"

Outcome(g, r) == [g |-> g, r |-> r]
Ok(g) == {Outcome(g, "ok")}
Err(g) == {Outcome(g, "err")}

(* What may go wrong goes wrong at the price of one fault. *)
Faulty(g) == [g EXCEPT !.faults = @ - 1]
Maybe(g, S) == IF g.faults > 0 THEN S ELSE {}

(* The outcomes of doing F where S ended well; S's errors stay. *)
AndThen(S, F(_)) ==
    UNION {IF o.r = "ok" THEN F(o.g) ELSE {o} : o \in S}

-----------------------------------------------------------------------------
(* What the worker executes. *)

(* capture_snapshot: reading the counter moves PMSELR, which is put back.   *)
(* A selector that does not obey turns the engine off, and is remembered    *)
(* when it could not be put back.                                           *)
Capture(g, mustBeIdle) ==
    IF mustBeIdle /\ (g.foreign \/ g.lane = "event")
    THEN Err(g)
    ELSE Ok([g EXCEPT !.selNeed = FALSE])
         \cup Maybe(g, Err(Faulty(g))
                       \cup Err([Faulty(g) EXCEPT !.ready = FALSE, !.selNeed = FALSE])
                       \cup Err([Faulty(g) EXCEPT !.ready = FALSE, !.sel = "lane",
                                                  !.selNeed = TRUE]))

DoSnapshot(g) ==
    IF g.need \/ g.selNeed \/ g.active
    THEN Err(g)
    ELSE AndThen(Capture(g, TRUE), LAMBDA c : Ok([c EXCEPT !.prep = TRUE]))

ProgramUnrecorded(g) ==
    LET written == [g EXCEPT !.prep = FALSE, !.lane = "event"]
    IN  AndThen(Capture([written EXCEPT !.ctl = "on"], FALSE),
                LAMBDA c : Ok([c EXCEPT !.active = TRUE, !.need = TRUE])
                           \cup Maybe(c, Err(Faulty(c))))
        \cup Maybe(g, Err([Faulty(written) EXCEPT !.sel = "lane"]))

(* do_configure once the lane is known to be free: the record that restores *)
(* it is published before the first write.                                  *)
Program(g) ==
    LET written == [g EXCEPT !.need = TRUE, !.prep = FALSE, !.lane = "event"]
    IN  AndThen(Capture([written EXCEPT !.ctl = "on"], FALSE),
                LAMBDA c : Ok([c EXCEPT !.active = TRUE])
                           \cup Maybe(c, Err(Faulty(c))))
        \cup Maybe(g, Err([Faulty(written) EXCEPT !.sel = "lane"]))

DoConfigure(g) ==
    IF g.need \/ g.active \/ ~g.prep
    THEN Err(g)
    ELSE AndThen(Capture([g EXCEPT !.saved = TRUE], TRUE),
                 LAMBDA c : IF Exact(c) THEN Program(c) ELSE Err(c))

DoRead(g) ==
    IF ~g.active \/ ~g.need \/ ~g.saved \/ g.foreign \/ g.sel # "base"
    THEN Err(g)
    ELSE Ok(g) \cup Maybe(g, Err([Faulty(g) EXCEPT !.sel = "lane"])
                             \cup Err(Faulty(g)))

RestoreSelector(g) ==
    IF ~g.selNeed THEN Ok(g)
    ELSE Ok([g EXCEPT !.selNeed = FALSE, !.sel = "base"]) \cup Maybe(g, Err(Faulty(g)))

(* do_restore, nothing written: prove that the registers are idle. *)
RestoreUnwritten(g) ==
    AndThen(RestoreSelector(g),
            LAMBDA c : Capture([c EXCEPT !.active = FALSE], TRUE))

(* do_restore, after writes: our lane goes first, even when a foreign user  *)
(* turned up; only a verified restoration drops the record.                 *)
RestoreWritten(g) ==
    LET off == [g EXCEPT !.lane = "base", !.sel = "base"]
    IN  IF g.foreign THEN Err(off)
        ELSE AndThen(Capture([off EXCEPT !.ctl = "base"], TRUE),
                     LAMBDA c : Ok([c EXCEPT !.active = FALSE, !.need = FALSE,
                                             !.prep = TRUE]))
             \cup Maybe(g, Err(Faulty(g)))

DoRestore(g) ==
    IF ~g.saved THEN Err(g)
    ELSE Maybe(g, Err(Faulty(g)))
         \cup IF g.need THEN RestoreWritten(g) ELSE RestoreUnwritten(g)

Execute(g, kind) ==
    CASE kind = "snapshot"  -> DoSnapshot(g)
      [] kind = "configure" -> DoConfigure(g)
      [] kind = "read"      -> DoRead(g)
      [] kind = "restore"   -> DoRestore(g)
      [] kind = "selector"  -> RestoreSelector(g)

(* The worker executes the command in flight, in time or late. *)
Completed(g) ==
    {[o.g EXCEPT !.done = TRUE, !.res = o.r] : o \in Execute(g, g.infl)}

-----------------------------------------------------------------------------
(* What the callers of the engine do, one at a time (lock_engine). *)

(* finish_inflight_locked with a command in flight: reaped, or given up on. *)
Reaped(g) ==
    {Outcome([c EXCEPT !.infl = "none"], c.res) :
        c \in IF g.done THEN {g} ELSE Completed(g)}
    \cup IF g.done THEN {} ELSE {Outcome([g EXCEPT !.ready = FALSE], "timeout")}

(* The event flag of the worker cannot be set, or the worker is not heard   *)
(* of in time; otherwise the command is executed and its result returned.   *)
Publish(g, kind) ==
    LET posted == [g EXCEPT !.infl = kind, !.done = FALSE]
    IN  {Outcome([c EXCEPT !.infl = "none"], c.res) : c \in Completed(posted)}
        \cup Maybe(g, Err(Faulty(g))
                      \cup {Outcome([Faulty(posted) EXCEPT !.ready = FALSE], "timeout")})

Dispatch(g, kind, permitRecovery) ==
    IF ~g.started \/ (~g.ready /\ ~permitRecovery) THEN Err(g)
    ELSE IF g.infl = "none" THEN Publish(g, kind)
    ELSE UNION {IF o.r = "timeout" THEN {o} ELSE Publish(o.g, kind) : o \in Reaped(g)}

CallbackSnapshot(g) == Dispatch(g, "snapshot", FALSE)
CallbackConfigure(g) ==
    Dispatch([g EXCEPT !.saved = @ \/ (~g.need /\ ~g.selNeed /\ ~g.active /\ g.prep)],
             "configure", FALSE)
CallbackRead(g) == Dispatch(g, "read", FALSE)

(* A restoration that succeeded turns the engine on again. *)
CallbackRestore(g) ==
    AndThen(Dispatch(g, "restore", TRUE),
            LAMBDA c : Ok([c EXCEPT !.ready = @ \/ ~(c.need \/ c.selNeed)]))

Ready(g) == g.started /\ g.ready
HasRestoreObligation(g) == g.need \/ g.selNeed
RecoveryPending(g) == g.started /\ (g.infl # "none" \/ HasRestoreObligation(g))

(* vdPmuBackendRecover.  Only a command that succeeded in this very call    *)
(* turns the engine on again.                                               *)
MarkReady(g) == [g EXCEPT !.ready = @ \/ ~(g.active \/ g.need \/ g.selNeed)]

RecoverSelector(g, proved) ==
    IF ~g.selNeed THEN {[g |-> g, r |-> "ok", proved |-> proved]}
    ELSE {[g |-> o.g, r |-> o.r, proved |-> TRUE] : o \in Dispatch(g, "selector", TRUE)}

RecoverRest(g, proved) ==
    UNION {IF s.r # "ok" THEN {Outcome(s.g, s.r)}
           ELSE IF ~s.g.need THEN Ok(IF s.proved THEN MarkReady(s.g) ELSE s.g)
           ELSE AndThen(Dispatch(s.g, "restore", TRUE), LAMBDA c : Ok(MarkReady(c))) :
              s \in RecoverSelector(g, proved)}

BackendRecover(g) ==
    IF ~g.started THEN Err(g)
    ELSE IF g.infl = "none" THEN RecoverRest(g, FALSE)
    ELSE UNION {IF o.r = "timeout" \/ (o.r = "err" /\ ~HasRestoreObligation(o.g))
                THEN {o} ELSE RecoverRest(o.g, o.r = "ok") : o \in Reaped(g)}

(* vdPmuBackendStop: nothing is torn down before the command in flight, the *)
(* selector and the lane are dealt with.  Joining the workers may fail,     *)
(* which leaves an engine that is off.                                      *)
TearDown(g) ==
    Ok([EngineStarted(g.faults) EXCEPT !.started = FALSE, !.ready = FALSE,
            !.lane = g.lane, !.ctl = g.ctl, !.sel = g.sel, !.foreign = g.foreign])
    \cup Maybe(g, Err([Faulty(g) EXCEPT !.ready = FALSE]))

StopRest(g) ==
    AndThen(IF g.selNeed THEN Dispatch(g, "selector", TRUE) ELSE Ok(g),
            LAMBDA c : AndThen(IF c.need THEN Dispatch(c, "restore", TRUE) ELSE Ok(c),
                               TearDown))

BackendStop(g) ==
    IF ~g.started THEN Ok(g)
    ELSE IF g.infl = "none" THEN StopRest(g)
    ELSE UNION {IF o.r = "timeout" THEN {o} ELSE StopRest(o.g) : o \in Reaped(g)}

=============================================================================
