---------------------------- MODULE AttachControl ----------------------------
(***************************************************************************)
(* The attach broker's control state machine                               *)
(* (attach/broker/src/vitadebug_attach_control.c): authenticated sessions, *)
(* and one lease on the debugger module loaded into a target process.      *)
(*                                                                         *)
(* An attach resolves the target, has the operation authorized, loads and  *)
(* starts the module and resolves the target again around each of these.   *)
(* Detach, recovery, lease expiry, disconnect and shutdown share one       *)
(* cleanup that stops and unloads it.  Every callback takes time, may      *)
(* fail, and may find that the target has exited or is another process.    *)
(*                                                                         *)
(* Calls are serialized by the listener, so one call is in progress at a   *)
(* time and stops at every callback; the clock, and the target, move in    *)
(* between.  The loader is external, and behaves as vitadebug_attach_      *)
(* control.h asks: it acts only on the process the lease names, a load     *)
(* that fails either leaves nothing or returns its grant, and GONE is      *)
(* answered only for a module that no longer exists.                       *)
(***************************************************************************)
EXTENDS Integers, FiniteSets

CONSTANTS Sessions,     \* connections (VD_ATTACH_CONTROL_MAX_SESSIONS of them at a time)
          Keys,         \* paired host keys
          Nonces,       \* operation nonces a client may choose
          MaxNonces,    \* VD_ATTACH_CONTROL_MAX_REPLAY_NONCES
          MaxAttempts,  \* VD_ATTACH_CONTROL_MAX_AUTH_ATTEMPTS
          Window,       \* auth_window_ms, and challenge_timeout_ms
          LeaseTime,    \* requested_lease_ms
          Timeout,      \* callback_timeout_ms
          MaxTime,      \* bound: the clock
          MaxTarget,    \* bound: launches of the target
          MaxFaults     \* bound: callbacks that fail

VARIABLES sess, lease, shutting,  \* VdAttachControl
          op,                     \* the call in progress
          proc,                   \* generation of the target process, 0 when it is not running
          launches,
          module,                 \* the debugger module: "none", "loaded" or "started" in proc
          now, faults, ghost

vars == <<sess, lease, shutting, op, proc, launches, module, now, faults, ghost>>

Empty == [on |-> FALSE, auth |-> FALSE, tries |-> 0, opened |-> 0, until |-> 0,
          key |-> 0, nonces |-> {}]
IdleLease == [state |-> "IDLE", expires |-> 0, session |-> 0, key |-> 0, target |-> 0,
              loaded |-> FALSE, started |-> FALSE]
NoProof == [nonce |-> 0, expires |-> 0, gen |-> 0]
Rest == [pc |-> "rest", what |-> "none", s |-> 0, proof |-> NoProof, deadline |-> 0]

Init == /\ sess = [s \in Sessions |-> Empty]
        /\ lease = IdleLease /\ shutting = FALSE
        /\ op = Rest
        /\ proc = 1 /\ launches = 1 /\ module = "none"
        /\ now = 0 /\ faults = 0
        /\ ghost = [used |-> {}, again |-> FALSE]

Free == op = Rest
Goto(pc) == op' = [op EXCEPT !.pc = pc]
At(pc) == op.pc = pc
Fails == faults < MaxFaults /\ faults' = faults + 1
Least(a, b) == IF a <= b THEN a ELSE b
World == <<proc, launches, module, now>>

-----------------------------------------------------------------------------
(* Sessions                                                                *)

OpenSession(s) ==
  /\ Free /\ ~shutting /\ ~sess[s].on
  /\ sess' = [sess EXCEPT ![s] = [Empty EXCEPT !.on = TRUE, !.opened = now]]
  /\ ghost' = [ghost EXCEPT !.used = {u \in @ : u[1] # s}]
  /\ UNCHANGED <<lease, shutting, op, World, faults>>

\* a challenge answered too late, or wrongly too often, ends the session
Authenticate(s, k, until) ==
  /\ Free /\ ~shutting /\ sess[s].on /\ ~sess[s].auth /\ sess[s].tries < MaxAttempts
  /\ until \in now + 1 .. now + Window
  /\ sess' = [sess EXCEPT ![s] =
       IF now >= @.opened + Window THEN Empty
       ELSE [@ EXCEPT !.tries = @ + 1, !.auth = TRUE, !.key = k, !.until = until]]
  /\ UNCHANGED <<lease, shutting, op, World, faults, ghost>>

Refuse(s) ==
  /\ Free /\ ~shutting /\ sess[s].on /\ ~sess[s].auth /\ sess[s].tries < MaxAttempts
  /\ Fails
  /\ sess' = [sess EXCEPT ![s] =
       IF @.tries + 1 >= MaxAttempts \/ now >= @.opened + Window THEN Empty
       ELSE [@ EXCEPT !.tries = @ + 1]]
  /\ UNCHANGED <<lease, shutting, op, World, ghost>>

\* vd_control_get_authenticated: an operation after the authentication
\* expired only makes the session start over
Expire(s) ==
  /\ Free /\ sess[s].auth /\ now >= sess[s].until
  /\ sess' = [sess EXCEPT ![s].auth = FALSE, ![s].key = 0]
  /\ UNCHANGED <<lease, shutting, op, World, faults, ghost>>

Authenticated(s) == sess[s].auth /\ now < sess[s].until
\* a proof for the session: as long as session and window allow, and for the
\* launch of the target the client saw last
Proofs(s) == [nonce : Nonces, expires : {Least(now + Window, sess[s].until)}, gen : {launches}]
Deadline(s, p) == Least(now + Timeout, p.expires)

InTime == now < op.deadline

\* vd_control_authorize_operation: the nonce is claimed once the signature,
\* and the time it took, are fine
Authorize(next) ==
  LET seen == sess[op.s].nonces
      n == op.proof.nonce
  IN IF InTime /\ n \notin seen /\ Cardinality(seen) < MaxNonces
     THEN /\ sess' = [sess EXCEPT ![op.s].nonces = @ \union {n}]
          /\ ghost' = [ghost EXCEPT !.used = @ \union {<<op.s, n>>},
                                    !.again = @ \/ <<op.s, n>> \in ghost.used]
          /\ Goto(next)
     ELSE op' = Rest /\ UNCHANGED <<sess, ghost>>

-----------------------------------------------------------------------------
(* vd_control_cleanup and its callers                                      *)

\* The end of the call that ran the cleanup: a closed session is forgotten,
\* and an obligation that remains has no owner session any more.
Ends(l) ==
  /\ op' = Rest
  /\ lease' = IF l.state # "IDLE" /\ op.what \in {"close", "shutdown"}
              THEN [l EXCEPT !.session = 0] ELSE l
  /\ sess' = CASE op.what = "close"    -> [sess EXCEPT ![op.s] = Empty]
               [] op.what = "shutdown" -> [s \in Sessions |-> Empty]
               [] OTHER                -> sess
  /\ shutting' = (shutting \/ op.what = "shutdown")

InRecovery == [lease EXCEPT !.state = "RECOVERY"]
\* a grant the core refused cannot be named in any cleanup
Poisoned(l) == l.loaded /\ l.expires = 0

\* the cleanup starts: its own deadline, and nothing to do without a module
Cleanup(what, s, l) ==
  /\ op' = [op EXCEPT !.pc = "c_begin", !.what = what, !.s = s, !.deadline = now + Timeout]
  /\ lease' = l
  /\ UNCHANGED <<sess, shutting>>

CleanupBegin ==
  /\ At("c_begin")
  /\ IF lease.state = "IDLE" \/ ~lease.loaded THEN Ends(IdleLease)
     ELSE IF Poisoned(lease) THEN Ends(InRecovery)
     ELSE lease' = InRecovery /\ Goto("c_resolve") /\ UNCHANGED <<sess, shutting>>
  /\ UNCHANGED <<World, faults, ghost>>

\* resolve the target before each lifecycle call; a target that is not the
\* lease's is only probed
CleanupResolveTo(present) ==
  /\ At("c_resolve")
  /\ \/ /\ IF ~InTime THEN Ends(lease)
           ELSE /\ Goto(IF proc # lease.target THEN "c_probe"
                        ELSE present)
                /\ UNCHANGED <<lease, sess, shutting>>
        /\ UNCHANGED faults
     \/ InTime /\ Fails /\ Goto("c_probe") /\ UNCHANGED <<lease, sess, shutting>>
  /\ UNCHANGED <<World, ghost>>
CleanupResolve == CleanupResolveTo(IF lease.started THEN "c_stop" ELSE "c_unload")

Gone == proc # lease.target \/ module = "none"

CleanupProbe ==
  /\ At("c_probe")
  /\ \/ /\ IF InTime /\ Gone
           THEN /\ lease' = [lease EXCEPT !.loaded = FALSE, !.started = FALSE]
                /\ Goto("c_clear") /\ UNCHANGED <<sess, shutting>>
           ELSE Ends(lease)
        /\ UNCHANGED faults
     \/ InTime /\ Fails /\ Ends(lease)
  /\ UNCHANGED <<World, ghost>>

\* a stop that succeeded is remembered
CleanupStop ==
  /\ At("c_stop")
  /\ \/ /\ proc = lease.target
        /\ module' = IF module = "started" THEN "loaded" ELSE module
        /\ lease' = [lease EXCEPT !.started = FALSE]
        /\ Goto("c_resolve")
        /\ UNCHANGED <<sess, shutting, faults>>
     \/ proc # lease.target /\ Ends(lease) /\ UNCHANGED <<module, faults>>
     \/ Fails /\ Ends(lease) /\ UNCHANGED module
  /\ UNCHANGED <<proc, launches, now, ghost>>

CleanupUnload ==
  /\ At("c_unload")
  /\ \/ /\ InTime /\ proc = lease.target
        /\ module' = "none"
        /\ lease' = [lease EXCEPT !.loaded = FALSE]
        /\ Goto("c_clear")
        /\ UNCHANGED <<sess, shutting, faults>>
     \/ (~InTime \/ proc # lease.target) /\ Ends(lease) /\ UNCHANGED <<module, faults>>
     \/ InTime /\ Fails /\ Ends(lease) /\ UNCHANGED module
  /\ UNCHANGED <<proc, launches, now, ghost>>

\* the record is cleared if the deadline is still open, else at the next cleanup
CleanupClear ==
  /\ At("c_clear")
  /\ Ends(IF InTime THEN IdleLease ELSE lease)
  /\ UNCHANGED <<World, faults, ghost>>

-----------------------------------------------------------------------------
(* vd_attach_control_begin_attach                                          *)

BeginAttach(s, p) ==
  /\ Free /\ ~shutting /\ Authenticated(s)
  /\ lease.state = "IDLE"
  /\ op' = [Rest EXCEPT !.pc = "resolve", !.what = "attach", !.s = s, !.proof = p,
                        !.deadline = Deadline(s, p)]
  /\ UNCHANGED <<sess, lease, shutting, World, faults, ghost>>

\* the process the proof names
AttachResolve ==
  /\ At("resolve")
  /\ IF InTime /\ proc # 0 /\ proc = op.proof.gen THEN Goto("authorize") ELSE op' = Rest
  /\ UNCHANGED <<sess, lease, shutting, World, faults, ghost>>

AttachAuthorize ==
  /\ At("authorize") /\ Authorize("resolve2")
  /\ UNCHANGED <<lease, shutting, World, faults>>

AttachResolve2 ==
  /\ At("resolve2")
  /\ IF InTime /\ proc = op.proof.gen THEN Goto("load") ELSE op' = Rest
  /\ UNCHANGED <<sess, lease, shutting, World, faults, ghost>>

Granted(state, expires) ==
  [state |-> state, expires |-> expires, session |-> op.s, key |-> sess[op.s].key,
   target |-> op.proof.gen, loaded |-> TRUE, started |-> FALSE]

\* Loaded; refused with nothing left behind; loaded without a valid grant,
\* which poisons the lease; failed with a grant, so rolled back.
AttachLoadOr(rollback(_)) ==
  /\ At("load")
  /\ LET until == Least(now + LeaseTime, sess[op.s].until)
     IN \/ /\ proc = op.proof.gen
           /\ module' = "loaded"
           /\ lease' = Granted("STARTING", until)
           /\ op' = [op EXCEPT !.pc = "resolve3", !.deadline = Least(@, until)]
           /\ UNCHANGED <<sess, shutting, faults>>
        \/ /\ op' = Rest
           /\ IF proc = op.proof.gen THEN Fails ELSE UNCHANGED faults
           /\ UNCHANGED <<sess, lease, shutting, module>>
        \/ /\ proc = op.proof.gen /\ Fails
           /\ module' = "loaded"
           /\ lease' = Granted("RECOVERY", 0) /\ op' = Rest
           /\ UNCHANGED <<sess, shutting>>
        \/ /\ proc = op.proof.gen /\ Fails
           /\ module' \in {"none", "loaded"}
           /\ rollback(Granted("RECOVERY", until))
  /\ UNCHANGED <<proc, launches, now, ghost>>
Forget(l) == op' = Rest /\ UNCHANGED <<sess, lease, shutting>>
Rollback(l) == Cleanup("attach", op.s, l)
AttachLoadForgets == AttachLoadOr(Forget)
AttachLoad == AttachLoadOr(Rollback)

\* late: roll back; another process: leave it alone; else go on
Check(go) ==
  IF ~InTime THEN Cleanup("attach", op.s, InRecovery)
  ELSE IF proc # lease.target THEN op' = Rest /\ lease' = InRecovery /\ UNCHANGED <<sess, shutting>>
  ELSE go /\ UNCHANGED <<sess, shutting>>

AttachResolve3 ==
  /\ At("resolve3")
  /\ Check(Goto("start") /\ UNCHANGED lease)
  /\ UNCHANGED <<World, faults, ghost>>

\* started is set before the call: a start that fails may have run
AttachStart ==
  /\ At("start")
  /\ LET l == [lease EXCEPT !.started = TRUE]
     IN \/ /\ proc = lease.target
           /\ module' = "started" /\ lease' = l /\ Goto("confirm")
           /\ UNCHANGED <<sess, shutting, faults>>
        \/ /\ IF proc = lease.target THEN Fails /\ module' \in {"loaded", "started"}
              ELSE UNCHANGED <<faults, module>>
           /\ Cleanup("attach", op.s, [l EXCEPT !.state = "RECOVERY"])
  /\ UNCHANGED <<proc, launches, now, ghost>>

Activate == op' = Rest /\ lease' = [lease EXCEPT !.state = "ACTIVE"]
AttachConfirm ==
  /\ At("confirm") /\ Check(Activate)
  /\ UNCHANGED <<World, faults, ghost>>

-----------------------------------------------------------------------------
(* Detach and recover, the lease watchdog, disconnect and shutdown         *)

BeginCleanup(s, p, what) ==
  /\ Free /\ ~shutting /\ Authenticated(s)
  /\ lease.state = IF what = "detach" THEN "ACTIVE" ELSE "RECOVERY"
  /\ lease.key = sess[s].key
  /\ what = "detach" => lease.session = s
  /\ op' = [Rest EXCEPT !.pc = "d_resolve", !.what = what, !.s = s, !.proof = p,
                        !.deadline = Deadline(s, p)]
  /\ UNCHANGED <<sess, lease, shutting, World, faults, ghost>>

\* not the lease's target: from now on only recovery may touch it
DetachResolve ==
  /\ At("d_resolve")
  /\ IF proc # lease.target \/ op.proof.gen # lease.target
     THEN op' = Rest /\ lease' = InRecovery
     ELSE (IF InTime THEN Goto("d_authorize") ELSE op' = Rest) /\ UNCHANGED lease
  /\ UNCHANGED <<sess, shutting, World, faults, ghost>>

DetachAuthorize ==
  /\ At("d_authorize") /\ Authorize("d_resolve2")
  /\ UNCHANGED <<lease, shutting, World, faults>>

DetachResolve2 ==
  /\ At("d_resolve2")
  /\ IF proc # lease.target
     THEN op' = Rest /\ lease' = InRecovery /\ UNCHANGED <<sess, shutting>>
     ELSE Cleanup(op.what, op.s, lease)
  /\ UNCHANGED <<World, faults, ghost>>

\* vd_attach_control_service
ServiceOf(states) ==
  /\ Free /\ lease.state \in states
  /\ lease.state = "ACTIVE" => now >= lease.expires
  /\ Cleanup("service", 0, InRecovery)
  /\ UNCHANGED <<World, faults, ghost>>
Service == ServiceOf({"ACTIVE", "RECOVERY"})

CloseSession(s) ==
  /\ Free /\ sess[s].on
  /\ IF lease.state # "IDLE" /\ lease.session = s
     THEN Cleanup("close", s, InRecovery)
     ELSE sess' = [sess EXCEPT ![s] = Empty] /\ UNCHANGED <<op, lease, shutting>>
  /\ UNCHANGED <<World, faults, ghost>>

Shutdown ==
  /\ Free /\ (~shutting \/ lease.state # "IDLE")
  /\ Cleanup("shutdown", 0, lease)
  /\ UNCHANGED <<World, faults, ghost>>

-----------------------------------------------------------------------------
(* The world                                                               *)

Exit == /\ proc # 0 /\ proc' = 0 /\ module' = "none"
        /\ UNCHANGED <<sess, lease, shutting, op, launches, now, faults, ghost>>
Launch == /\ proc = 0 /\ launches < MaxTarget
          /\ proc' = launches + 1 /\ launches' = launches + 1
          /\ UNCHANGED <<sess, lease, shutting, op, module, now, faults, ghost>>
Tick == /\ now < MaxTime /\ now' = now + 1
        /\ UNCHANGED <<sess, lease, shutting, op, proc, launches, module, faults, ghost>>

Steps == \/ CleanupBegin \/ CleanupResolve \/ CleanupProbe \/ CleanupStop
         \/ CleanupUnload \/ CleanupClear
         \/ AttachResolve \/ AttachAuthorize \/ AttachResolve2 \/ AttachLoad
         \/ AttachResolve3 \/ AttachStart \/ AttachConfirm
         \/ DetachResolve \/ DetachAuthorize \/ DetachResolve2
Calls == \/ \E s \in Sessions :
              \/ OpenSession(s) \/ Refuse(s) \/ Expire(s) \/ CloseSession(s)
              \/ \E k \in Keys, t \in now + 1 .. now + Window : Authenticate(s, k, t)
              \/ \E p \in Proofs(s) :
                   \/ BeginAttach(s, p)
                   \/ \E w \in {"detach", "recover"} : BeginCleanup(s, p, w)
         \/ Service \/ Shutdown
Next == Steps \/ Calls \/ Exit \/ Launch \/ Tick
Spec == Init /\ [][Next]_vars

\* callbacks return, time passes, and the listener's turns include service
FairSpec == Spec /\ WF_vars(Steps) /\ SF_vars(Service) /\ WF_vars(Tick)

-----------------------------------------------------------------------------
(* Properties                                                              *)

(* Types; the replay table is never overrun.                               *)
TypeOK ==
  /\ \A s \in Sessions :
       /\ sess[s].on \in BOOLEAN /\ sess[s].auth \in BOOLEAN
       /\ sess[s].tries \in 0..MaxAttempts
       /\ sess[s].nonces \subseteq Nonces /\ Cardinality(sess[s].nonces) <= MaxNonces
  /\ lease.state \in {"IDLE", "STARTING", "ACTIVE", "RECOVERY"}
  /\ lease.session \in Sessions \union {0} /\ lease.key \in Keys \union {0}
  /\ module \in {"none", "loaded", "started"} /\ proc \in 0..MaxTarget

(* No orphan: between calls a debugger module in the target belongs to the *)
(* lease.  When the lease is idle there is none, whatever failed, came     *)
(* late or was interrupted by the target's exit; otherwise the lease names *)
(* the process and knows that the module is loaded, and started if it is.  *)
NoOrphan ==
  (Free /\ module # "none") =>
    /\ lease.state # "IDLE" /\ lease.target = proc /\ lease.loaded
    /\ module = "started" => lease.started

(* Reverse order: a started module is never unloaded.  Only a stop, or the *)
(* end of the process, takes it out of "started".                          *)
StoppedBeforeUnload ==
  module = "started" /\ module' = "none" => proc' = 0

(* A lease is published as active only while its authorization and its own *)
(* time still run, and only on the process that was authorized: a load or  *)
(* a start that comes back late is rolled back instead.                    *)
ActiveInTime ==
  lease.state # "ACTIVE" /\ lease'.state = "ACTIVE" =>
    /\ now < op.proof.expires /\ now < lease.expires
    /\ proc = op.proof.gen /\ module = "started"

(* An operation nonce authorizes one operation of its session, for as long *)
(* as that session lasts.                                                  *)
NonceOnce == ~ghost.again

(* A lease ends: while callbacks return and the listener keeps calling     *)
(* service, every lease is cleared, after its time at the latest, unless   *)
(* its grant was invalid.  (The bounded clock never reaches some expiries.) *)
Leased == lease.state # "IDLE" /\ ~Poisoned(lease) /\ lease.expires <= MaxTime
LeaseEnds == []<>~Leased

=============================================================================
