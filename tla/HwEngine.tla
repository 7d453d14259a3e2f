------------------------------ MODULE HwEngine ------------------------------
(***************************************************************************)
(* The hardware-debug engine of the kernel companion (kernel/src/hw_debug.c)*)
(* as its callers see it: every entry point runs under engine_lock and is   *)
(* one atomic step here.  What the three pinned workers do inside a step is *)
(* in module HwDebug, which is shown to implement this one.                 *)
(*                                                                         *)
(* One hw_session owns the comparators of all cores at a time.  `regs` says *)
(* what the comparators hold compared with the snapshot taken by CLAIM:     *)
(* "saved" (the exact snapshot), "armed" (every core carries the owner's    *)
(* point) or "torn" (an APPLY failed on some core and so did the RESTORE    *)
(* that followed it: nobody knows).                                         *)
(***************************************************************************)
EXTENDS Integers

CONSTANTS
    Procs,          \* user processes, the possible owners (pid)
    NoProc,         \* pid -1
    HwLeases,       \* lease lengths a caller may ask for, in clock units
    MaxTime,        \* bound: the clock stops here
    MaxHwToken      \* bound: number of acquisitions

ASSUME NoProcAssumption == NoProc \notin Procs
ASSUME HwLeasesAssumption == HwLeases \subseteq Nat \ {0}
ASSUME MaxTimeAssumption == MaxTime \in Nat
ASSUME MaxHwTokenAssumption == MaxHwToken \in Nat

VARIABLES
    clock,          \* ksceKernelGetSystemTimeWide
    hw,             \* hw_session
    ready,          \* engine_ready
    nextHw          \* next_hw_token

engineVars == <<hw, ready, nextHw>>

HwTokens == 1 .. MaxHwToken

HwSession == [active : BOOLEAN, pid : Procs \cup {NoProc},
              tok : HwTokens \cup {0}, deadline : Nat,
              regs : {"saved", "armed", "torn"}]

NoHw == [active |-> FALSE, pid |-> NoProc, tok |-> 0, deadline |-> 0,
         regs |-> "saved"]

EngineTypeOK ==
    /\ clock \in 0 .. MaxTime
    /\ hw \in HwSession
    /\ ready \in BOOLEAN
    /\ nextHw \in 1 .. MaxHwToken + 1

EngineInit ==
    /\ clock = 0
    /\ hw = NoHw
    /\ ready = TRUE
    /\ nextHw = 1

-----------------------------------------------------------------------------
(* restore_session_locked: RESTORE on every core.  Success clears the       *)
(* session; failure keeps it, with its snapshots, and poisons the engine.   *)

RestoreOk ==
    /\ hw' = NoHw
    /\ UNCHANGED ready

RestoreFailed ==
    /\ ready' = FALSE
    /\ UNCHANGED hw

Restore(ok) == IF ok THEN RestoreOk ELSE RestoreFailed

Owns(p, k) == hw.active /\ hw.pid = p /\ hw.tok = k
Expired(now) == hw.active /\ now >= hw.deadline

(* A deadline `lease` after the clock was read. *)
LeaseEnd(now, lease) == now + lease

(* vdHwDebugAcquire.  outcome says how CLAIM ended: "claimed"; "busy" (a     *)
(* comparator was in use) or "failed", both restored; or "stuck", where the *)
(* RESTORE after the failed CLAIM failed too and the caller gets the token  *)
(* of a session that still has to be restored.                              *)
AcquireOutcomes == {"claimed", "busy", "failed", "stuck"}

Acquire(p, lease, now, outcome) ==
    /\ ready /\ ~hw.active
    /\ nextHw <= MaxHwToken                                   \* bound
    /\ LeaseEnd(now, lease) <= MaxTime                        \* bound
    /\ nextHw' = nextHw + 1
    /\ IF outcome \in {"claimed", "stuck"}
       THEN hw' = [active |-> TRUE, pid |-> p, tok |-> nextHw,
                   deadline |-> LeaseEnd(now, lease), regs |-> "saved"]
       ELSE UNCHANGED hw
    /\ IF outcome \in {"claimed", "busy"} THEN UNCHANGED ready ELSE ready' = FALSE

(* vdHwDebugRenew: an expired session is restored, whoever owns it. *)
Renew(p, k, lease, now, ok) ==
    /\ UNCHANGED nextHw
    /\ \/ /\ Owns(p, k) /\ ~Expired(now) /\ ready
          /\ LeaseEnd(now, lease) <= MaxTime                  \* bound
          /\ hw' = [hw EXCEPT !.deadline = LeaseEnd(now, lease)]
          /\ UNCHANGED ready
       \/ Expired(now) /\ Restore(ok)

(* vdHwDebugUpdate.  The result is "ok", "restore" (HW_RESTORE) or "other"   *)
(* (every other error).  The first disjunct programs the cores; it may do so*)
(* although the engine is poisoned, as the code does not look at ready.     *)
Update(p, k, now, result, armed) ==
    /\ UNCHANGED nextHw
    /\ \/ /\ Owns(p, k) /\ ~Expired(now)
          /\ \/ /\ result = "ok"
                /\ hw' = [hw EXCEPT !.regs = armed]
                /\ UNCHANGED ready
             \/ result = "other" /\ hw' = NoHw /\ ready' = FALSE
             \/ result = "restore" /\ hw' = [hw EXCEPT !.regs = "torn"] /\ ready' = FALSE
             \/ result = "other" /\ UNCHANGED <<hw, ready>>
       \/ /\ ~(Owns(p, k) /\ ~Expired(now))
          /\ \/ ~Expired(now) /\ result = "other" /\ UNCHANGED <<hw, ready>>
             \/ Expired(now) /\ result = "other" /\ RestoreOk
             \/ Expired(now) /\ result = "restore" /\ RestoreFailed

(* vdHwDebugRelease, by the owner. *)
Release(p, k, ok) ==
    /\ Owns(p, k)
    /\ Restore(ok)
    /\ UNCHANGED nextHw

(* vdHwDebugWatchdog: restore the session once its lease has run out. *)
HwWatchdog(now, ok) ==
    /\ Expired(now)
    /\ Restore(ok)
    /\ UNCHANGED nextHw

(* vdHwDebugRecover: the result is TRUE when nothing is left to restore.    *)
(* A session of anybody else is left alone, expired or not.                 *)
RecoverOwnerOnly(p, k, result) ==
    /\ UNCHANGED nextHw
    /\ \/ Owns(p, k) /\ Restore(result)
       \/ ~Owns(p, k) /\ ~result /\ UNCHANGED <<hw, ready>>

Recover(p, k, result) ==
    /\ UNCHANGED nextHw
    /\ \/ Owns(p, k) /\ Restore(result)
       \/ hw.active /\ ~Owns(p, k) /\ ~result /\ UNCHANGED <<hw, ready>>
       \/ ~hw.active /\ result /\ UNCHANGED <<hw, ready>>

(* vdHwDebugStop: restored, then disabled for good; joining the workers may *)
(* still fail, which the caller sees as a failed stop of a disabled engine. *)
EngineStop(restored) ==
    /\ UNCHANGED nextHw
    /\ ready' = FALSE
    /\ IF restored THEN hw' = NoHw ELSE hw.active /\ UNCHANGED hw

Tick ==
    /\ clock < MaxTime
    /\ clock' = clock + 1

-----------------------------------------------------------------------------
(* The engine on its own, driven by arbitrary callers.  An operation may    *)
(* decide with a clock value it read before it took effect.                 *)
EngineOperation ==
    \E now \in 0 .. clock, p \in Procs, k \in HwTokens, ok \in BOOLEAN :
        \/ \E l \in HwLeases, o \in AcquireOutcomes : Acquire(p, l, now, o)
        \/ \E l \in HwLeases : Renew(p, k, l, now, ok)
        \/ \E r \in {"ok", "other", "restore"}, a \in {"saved", "armed"} :
               Update(p, k, now, r, a)
        \/ Release(p, k, ok)
        \/ HwWatchdog(now, ok)
        \/ Recover(p, k, ok)
        \/ EngineStop(ok)

EngineNext ==
    \/ Tick /\ UNCHANGED engineVars
    \/ EngineOperation /\ UNCHANGED clock

EngineSpec == EngineInit /\ [][EngineNext]_<<clock, engineVars>>

=============================================================================
