--------------------------- MODULE ThreadMutation ---------------------------
(***************************************************************************)
(* Writing the registers of another, debug-suspended thread: the           *)
(* transaction of kernel/src/thread_mutation.c over the provider of        *)
(* thread_mutation_provider.c, driven either by the kernel's syscalls      *)
(* (main.c) or by the one-register gate of thread_gpr_gate.c, with the     *)
(* stop session whose end must first clean the transaction up.             *)
(*                                                                         *)
(* Every call runs under the session lock, so one call is in progress at a *)
(* time; its steps are the adapter's callbacks, between which the target   *)
(* may exit, the setter's module may be unloaded and the stop may expire.  *)
(* A register bank is one value, Torn when a write was left half done.     *)
(* Both banks behave alike, and a transaction has exactly one.             *)
(***************************************************************************)
EXTENDS Integers, FiniteSets

CONSTANTS Values,      \* contents of a register bank (positive integers)
          Banks,       \* banks of the setter binding
          Vias,        \* {"kernel", "gate"}: who drives the transaction
          Base,        \* 2^32: handle tokens are below it
          MaxSequence, \* bound on the handle sequence
          MaxStops,    \* bound on stop sessions
          MaxFaults    \* bound on failing callbacks

MutationConstants ==
  /\ Values \subseteq Nat \ {0} /\ Values # {} /\ Base \in Nat \ {0}
  /\ MaxSequence \in Nat /\ MaxSequence > 0 /\ MaxStops \in Nat /\ MaxFaults \in Nat

VARIABLES tx,     \* the transaction (struct vd_thread_mutation_session)
          next,   \* its next_sequence
          pv,     \* the provider
          gate,   \* the gate holds a provider
          via, copy, known,  \* driver; handle being copied out; handles it has
          stop,   \* the stop session
          tgt,    \* the target thread
          bind,   \* the setter's module is still the one that was verified
          refs,   \* the adapter's references
          op,     \* the call in progress
          faults,
          ghost

vars == <<tx, next, pv, gate, via, copy, known, stop, tgt, bind, refs, op, faults, ghost>>

Torn == 0
NoHandle == [token |-> 0, gen |-> 0, stop |-> 0, bank |-> "none"]
EmptyTx == [state |-> "EMPTY", h |-> NoHandle, staged |-> FALSE, orig |-> Torn, want |-> Torn]
Idle == [pc |-> "idle", what |-> "none", bank |-> "none", v |-> Torn, err |-> FALSE]

Init ==
  /\ tx = EmptyTx /\ next = 1
  /\ pv = [lease |-> FALSE, proc |-> FALSE, thr |-> FALSE, pending |-> FALSE, retry |-> FALSE,
           unsure |-> FALSE, acq |-> FALSE, down |-> FALSE, banks |-> TRUE]
  /\ gate = FALSE /\ via \in Vias /\ copy = NoHandle /\ known = {}
  /\ stop = [token |-> 0, on |-> FALSE, expired |-> FALSE]
  /\ tgt = [alive |-> TRUE, susp |-> FALSE, regs |-> CHOOSE v \in Values : TRUE]
  /\ bind = "live"
  /\ refs = [proc |-> "none", thr |-> "none"]
  /\ op = Idle /\ faults = 0
  /\ ghost = [allowed |-> Torn, double |-> FALSE, unloaded |-> FALSE, serial |-> 0]

Free == op.pc = "idle"
At(pc) == op.pc = pc
Goto(pc) == op' = [op EXCEPT !.pc = pc]
Fails == faults < MaxFaults /\ faults' = faults + 1
World == <<tgt, bind>>
Rest == <<via, copy, known, next>>

-----------------------------------------------------------------------------
(* The provider                                                            *)

Disabled == [pv EXCEPT !.banks = FALSE]
\* binding_is_live enables the banks again, unless a release is pending
Enabled == [pv EXCEPT !.banks = ~pv.pending /\ (~pv.down \/ pv.lease)]
Quarantined == [pv EXCEPT !.acq = TRUE, !.pending = TRUE, !.retry = FALSE,
                          !.unsure = TRUE, !.banks = FALSE]

\* vdThreadMutationProviderReady
Ready == /\ ~pv.down /\ ~pv.lease /\ ~pv.pending /\ ~pv.proc /\ ~pv.thr
         /\ bind = "live"

\* provider_target_status: the binding, then the exact retained target
Status(ok, gone, unknown) ==
  \/ bind = "live" /\ tgt.alive /\ pv' = Enabled /\ ok
  \/ bind = "live" /\ ~tgt.alive /\ pv' = Disabled /\ gone /\ UNCHANGED faults
  \/ bind = "gone" /\ pv' = Disabled /\ unknown /\ UNCHANGED faults
  \/ Fails /\ pv' = Disabled /\ unknown

\* the end of a call: a gate without a transaction forgets its provider, and
\* a stop session whose transaction is settled goes on to resume its threads
Finish(t) ==
  /\ tx' = t
  /\ gate' = (gate /\ t.state # "EMPTY")
  /\ IF op.what = "end" /\ t.state = "EMPTY"
     THEN op' = [Idle EXCEPT !.pc = "resume"] /\ UNCHANGED stop
     ELSE /\ op' = Idle
          /\ stop' = IF op.what = "end" THEN [stop EXCEPT !.expired = TRUE] ELSE stop
Leave == tx' = tx /\ UNCHANGED <<gate, stop>>

\* clear_transaction
Clear == Goto("release") /\ tx' = EmptyTx /\ UNCHANGED <<gate, stop>>

\* provider_release_target
Release ==
  /\ At("release")
  /\ pv' = [(IF pv.acq THEN Quarantined ELSE pv) EXCEPT !.lease = FALSE]
  /\ IF pv.acq THEN Finish(tx) ELSE Goto("relT") /\ Leave
  /\ UNCHANGED <<Rest, World, refs, faults, ghost>>

\* one reference: released, definitely kept, or who knows
ReleaseRef(r, done) ==
  /\ ghost' = [ghost EXCEPT !.double = @ \/ refs[r] # "held"]
  /\ \/ refs' = [refs EXCEPT ![r] = "none"] /\ UNCHANGED faults /\ done
     \/ /\ Fails /\ UNCHANGED refs /\ Finish(tx)
        /\ pv' = [pv EXCEPT !.pending = TRUE, !.retry = TRUE, !.unsure = FALSE, !.banks = FALSE]
     \/ /\ Fails /\ \E e \in {"held", "none"} : refs' = [refs EXCEPT ![r] = e]
        /\ Finish(tx)
        /\ pv' = [pv EXCEPT !.pending = TRUE, !.retry = FALSE, !.unsure = TRUE, !.banks = FALSE]

ReleaseThread ==
  /\ At("relT")
  /\ IF pv.thr
     THEN ReleaseRef("thr", pv' = [pv EXCEPT !.thr = FALSE] /\ Goto("relP") /\ Leave)
     ELSE Goto("relP") /\ Leave /\ UNCHANGED <<pv, refs, faults, ghost>>
  /\ UNCHANGED <<Rest, World>>

\* everything released: banks again, while the binding lives
Settled(p) == [p EXCEPT !.proc = FALSE, !.pending = FALSE, !.retry = FALSE, !.unsure = FALSE,
                        !.banks = ~p.down /\ bind = "live"]
ReleaseProcess ==
  /\ At("relP")
  /\ IF pv.proc
     THEN ReleaseRef("proc", pv' = Settled(pv) /\ Finish(tx))
     ELSE pv' = Settled(pv) /\ Finish(tx) /\ UNCHANGED <<refs, faults, ghost>>
  /\ UNCHANGED <<Rest, World>>

\* vdThreadMutationProviderDrain: only what the adapter said may be retried
Drain ==
  /\ Free /\ ~pv.lease /\ (pv.pending \/ pv.proc \/ pv.thr)
  /\ ~pv.unsure /\ pv.retry
  /\ op' = [Idle EXCEPT !.pc = "relT", !.what = "drain"]
  /\ UNCHANGED <<tx, pv, gate, stop, Rest, World, refs, faults, ghost>>

\* vdThreadMutationProviderPrepareUnload: terminal; success lets the adapter go
PrepareUnload ==
  LET clean == ~pv.acq /\ ~pv.unsure /\ ~pv.pending /\ ~pv.proc /\ ~pv.thr IN
  /\ Free
  /\ pv' = [pv EXCEPT !.down = TRUE, !.banks = @ /\ pv.lease]
  /\ ghost' = [ghost EXCEPT !.unloaded = @ \/ (~pv.lease /\ clean)]
  /\ UNCHANGED <<tx, gate, stop, op, Rest, World, refs, faults>>

-----------------------------------------------------------------------------
(* Begin                                                                   *)

\* stop_session_is_current_locked
Current == stop.on /\ ~stop.expired /\ tgt.alive /\ tgt.susp

Begin(b) ==
  /\ Free /\ copy = NoHandle /\ Current /\ tx.state = "EMPTY" /\ next < MaxSequence
  /\ op' = [Idle EXCEPT !.pc = "retainP", !.what = "begin", !.bank = b]
  /\ UNCHANGED <<tx, gate, stop, Rest, World, refs, faults, ghost>>
\* the syscall believes the advertised banks; the gate asks the provider
KernelBegin(b) == via = "kernel" /\ pv.banks /\ Begin(b) /\ UNCHANGED pv
GateBegin == via = "gate" /\ ~gate /\ Ready /\ Begin("core") /\ pv' = Enabled

\* a retain that fails leaves nothing, or an output nobody can trust
RetainRef(r, got) ==
  \/ /\ refs' = [refs EXCEPT ![r] = "held"]
     /\ pv' = [pv EXCEPT ![r] = TRUE] /\ got /\ UNCHANGED faults
  \/ Fails /\ Clear /\ UNCHANGED <<pv, refs>>
  \/ /\ Fails /\ Clear
     /\ \E e \in {"held", "none"} : refs' = [refs EXCEPT ![r] = e]
     /\ pv' = [Quarantined EXCEPT ![r] = TRUE]

\* provider_retain_target
RetainProcess ==
  /\ At("retainP")
  /\ IF ~pv.down /\ ~pv.lease /\ ~pv.pending /\ ~pv.proc /\ ~pv.thr /\ bind = "live"
     THEN RetainRef("proc", Goto("retainT") /\ Leave)
     ELSE Clear /\ UNCHANGED <<pv, refs, faults>>
  /\ UNCHANGED <<Rest, World, ghost>>

RetainThread ==
  /\ At("retainT")
  /\ RetainRef("thr", Goto("retained") /\ Leave)
  /\ UNCHANGED <<Rest, World, ghost>>

\* the lease is active; then the target's status, asked twice in a row
Retained ==
  /\ At("retained")
  /\ \E s \in {"snapshot", "release"} :
       /\ s = "snapshot" => bind = "live" /\ tgt.alive
       /\ IF s = "snapshot" THEN Goto(s) /\ Leave ELSE Clear
       /\ IF s = "release" /\ bind = "live" /\ tgt.alive THEN Fails ELSE UNCHANGED faults
  /\ pv' = [pv EXCEPT !.lease = TRUE]
  /\ UNCHANGED <<Rest, World, refs, ghost>>

\* take_handle_sequence skips token 0
Sequence == IF next % Base = 0 THEN next + 1 ELSE next
Generation(s) == s \div Base + 1

\* the snapshot, and the transaction exists
Snapshot ==
  /\ At("snapshot")
  /\ LET h == [token |-> Sequence % Base, gen |-> Generation(Sequence),
               stop |-> stop.token, bank |-> op.bank]
         begun == /\ tx' = [EmptyTx EXCEPT !.state = "SNAPSHOTTED", !.h = h,
                                           !.orig = tgt.regs, !.want = tgt.regs]
                  /\ next' = Sequence + 1
                  /\ gate' = (via = "gate")
                  /\ copy' = IF via = "kernel" THEN h ELSE NoHandle
                  /\ known' = IF via = "gate" THEN {[h |-> h, serial |-> ghost.serial + 1]} ELSE known
                  /\ ghost' = [ghost EXCEPT !.serial = @ + 1]
                  /\ op' = Idle /\ UNCHANGED <<stop, faults>>
         failed == Clear /\ UNCHANGED <<next, copy, known, ghost>>
     IN \/ Status(begun, failed, failed)
        \/ Fails /\ bind = "live" /\ tgt.alive /\ failed /\ pv' = Enabled
  /\ UNCHANGED <<via, World, refs>>

HandleValid(h) ==
  tx.state # "EMPTY" /\ h = tx.h /\ h.stop = stop.token

\* vdKernelBeginThreadMutation after the lock was dropped: the handle goes to
\* the caller, or the transaction nobody can name is cancelled
CopyOut ==
  /\ Free /\ copy # NoHandle
  /\ copy' = NoHandle
  /\ \/ /\ known' = known \union {[h |-> copy, serial |-> ghost.serial]}
        /\ UNCHANGED <<faults, tx, gate, stop, op>>
     \/ /\ Fails /\ UNCHANGED known
        /\ IF HandleValid(copy) THEN Clear ELSE UNCHANGED <<tx, gate, stop, op>>
  /\ UNCHANGED <<next, via, pv, World, refs, ghost>>

-----------------------------------------------------------------------------
(* Stage, commit, restore, cleanup                                         *)

Handles == {k.h : k \in known}
Calls(h) == Free /\ copy = NoHandle /\ HandleValid(h) /\ (via = "gate" => gate)

\* everything checked, the obligation is recorded before the first write
Stage(h, v) ==
  /\ Calls(h) /\ Current
  /\ pv.banks
  /\ LET no == UNCHANGED <<tx, op>>
     IN Status(/\ tx' = [tx EXCEPT !.state = "RESTORE_PENDING", !.staged = TRUE, !.want = v]
               /\ op' = [Idle EXCEPT !.pc = "write", !.what = "stage"]
               /\ UNCHANGED faults, no, no)
  /\ UNCHANGED <<gate, stop, Rest, World, refs, ghost>>

KernelStage(h, v) == via = "kernel" /\ tx.state \in {"SNAPSHOTTED", "STAGED"} /\ Stage(h, v)
GateApply(h, v) == via = "gate" /\ tx.state = "SNAPSHOTTED" /\ Stage(h, v)

\* a setter that fails may have written nothing, all or a part
Written(v) == {tgt.regs, v, Torn}
Write ==
  /\ At("write")
  /\ LET no == Goto("restore") /\ UNCHANGED tgt
     IN Status(\/ tgt' = [tgt EXCEPT !.regs = tx.want] /\ Goto("verify") /\ UNCHANGED faults
               \/ /\ Fails
                  /\ \E r \in Written(tx.want), pc \in {"verify", "restore"} :
                       tgt' = [tgt EXCEPT !.regs = r] /\ Goto(pc), no, no)
  /\ Leave /\ UNCHANGED <<Rest, bind, refs, ghost>>

Verify ==
  /\ At("verify")
  /\ LET no == Goto("restore") /\ Leave
     IN Status(\/ /\ UNCHANGED faults
                  /\ IF tgt.regs = tx.want THEN Finish([tx EXCEPT !.state = "STAGED"]) ELSE no
               \/ Fails /\ no, no, no)
  /\ UNCHANGED <<Rest, World, refs, ghost>>

\* vdThreadMutationCommit: looked at once more; then the snapshot is retired
Commit(h) ==
  /\ Calls(h) /\ Current /\ via = "kernel"
  /\ tx.state = "STAGED" /\ pv.banks
  /\ LET no == UNCHANGED <<tx, op, ghost>>
         back == /\ op' = [Idle EXCEPT !.pc = "restore", !.what = "commit"]
                 /\ UNCHANGED <<tx, ghost>>
     IN \/ Status(/\ UNCHANGED faults
                  /\ IF tgt.regs = tx.want
                     THEN /\ op' = [Idle EXCEPT !.pc = "release", !.what = "commit"]
                          /\ tx' = EmptyTx
                          /\ ghost' = [ghost EXCEPT !.allowed = tx.want]
                     ELSE back, no, no)
        \/ Fails /\ pv' = Disabled /\ back
  /\ UNCHANGED <<gate, stop, Rest, World, refs>>

\* restore_exact: an unknown or dead target keeps the obligation
Restore ==
  /\ At("restore")
  /\ LET no == Finish([tx EXCEPT !.state = "RESTORE_PENDING"])
     IN Status(/\ op' = [op EXCEPT !.pc = "rwrite", !.err = FALSE]
               /\ tx' = [tx EXCEPT !.state = "RESTORE_PENDING"]
               /\ UNCHANGED <<gate, stop, faults>>, no, no)
  /\ UNCHANGED <<Rest, World, refs, ghost>>

RestoreWrite ==
  /\ At("rwrite")
  /\ LET to(e) == op' = [op EXCEPT !.pc = "rverify", !.err = e]
         no == to(TRUE) /\ UNCHANGED tgt
     IN Status(\/ tgt' = [tgt EXCEPT !.regs = tx.orig] /\ to(FALSE) /\ UNCHANGED faults
               \/ /\ Fails
                  /\ \E r \in Written(tx.orig), e \in BOOLEAN :
                       tgt' = [tgt EXCEPT !.regs = r] /\ to(e), no, no)
  /\ Leave /\ UNCHANGED <<Rest, bind, refs, ghost>>

\* only a write and a verification without any error end the transaction
RestoreVerifyIf(same) ==
  /\ At("rverify")
  /\ LET no == Finish(tx)
     IN Status(\/ /\ UNCHANGED faults
                  /\ IF same /\ ~op.err THEN Clear ELSE no
               \/ Fails /\ no, no, no)
  /\ UNCHANGED <<Rest, World, refs, ghost>>
RestoreVerifyTrusting == RestoreVerifyIf(TRUE)
RestoreVerify == RestoreVerifyIf(tgt.regs = tx.orig)

\* vdThreadMutationRestore through the syscall or the gate; the stop may have expired
RestoreCall(h) ==
  /\ Calls(h) /\ stop.on /\ tgt.alive /\ tgt.susp
  /\ op' = [Idle EXCEPT !.pc = IF tx.state = "SNAPSHOTTED" THEN "release" ELSE "restore",
                        !.what = "restore"]
  /\ tx' = IF tx.state = "SNAPSHOTTED" THEN EmptyTx ELSE tx
  /\ UNCHANGED <<gate, stop, pv, Rest, World, refs, faults, ghost>>

\* vdThreadMutationCleanup at the end of the stop, by its owner or the watchdog
Obliged == tx.state \in {"STAGED", "RESTORE_PENDING"}
EndStop ==
  /\ Free /\ stop.on
  /\ LET end(pc) == op' = [Idle EXCEPT !.pc = pc, !.what = "end"]
         keep == op' = Idle /\ stop' = [stop EXCEPT !.expired = TRUE] /\ UNCHANGED <<tx, gate>>
     IN IF tx.state = "EMPTY" THEN end("resume") /\ Leave /\ UNCHANGED <<pv, faults>>
        ELSE IF ~Obliged THEN /\ end("release") /\ tx' = EmptyTx
                              /\ UNCHANGED <<gate, stop, pv, faults>>
        ELSE Status(end("restore") /\ Leave /\ UNCHANGED faults,
                    end("release") /\ tx' = EmptyTx /\ UNCHANGED <<gate, stop>>,
                    keep)
  /\ UNCHANGED <<Rest, World, refs, ghost>>
OwnerEnds == copy = NoHandle /\ EndStop
Watchdog == stop.expired /\ EndStop

Resume ==
  /\ At("resume")
  /\ op' = Idle /\ stop' = [stop EXCEPT !.on = FALSE, !.expired = FALSE]
  /\ tgt' = [tgt EXCEPT !.susp = FALSE]
  /\ UNCHANGED <<tx, pv, gate, Rest, bind, refs, faults, ghost>>

-----------------------------------------------------------------------------
(* The world                                                               *)

\* the running target changes its registers as it likes until it is stopped
Stop ==
  /\ Free /\ copy = NoHandle /\ ~stop.on /\ tx.state = "EMPTY" /\ tgt.alive
  /\ stop.token < MaxStops
  /\ stop' = [token |-> stop.token + 1, on |-> TRUE, expired |-> FALSE]
  /\ \E v \in Values :
       /\ tgt' = [tgt EXCEPT !.susp = TRUE, !.regs = v]
       /\ ghost' = [ghost EXCEPT !.allowed = v]
  /\ UNCHANGED <<tx, pv, gate, op, Rest, bind, refs, faults>>

Expire == /\ stop.on /\ ~stop.expired /\ stop' = [stop EXCEPT !.expired = TRUE]
          /\ UNCHANGED <<tx, next, pv, gate, via, copy, known, World, refs, op, faults, ghost>>
TargetExits == /\ tgt.alive /\ tgt' = [tgt EXCEPT !.alive = FALSE]
               /\ UNCHANGED <<tx, next, pv, gate, via, copy, known, stop, bind, refs, op, faults, ghost>>
BindingGoes == /\ bind = "live" /\ bind' = "gone"
               /\ UNCHANGED <<tx, next, pv, gate, via, copy, known, stop, tgt, refs, op, faults, ghost>>

Steps == \/ Release \/ ReleaseThread \/ ReleaseProcess
         \/ RetainProcess \/ RetainThread \/ Retained \/ Snapshot
         \/ Write \/ Verify \/ Restore \/ RestoreWrite \/ RestoreVerify \/ Resume
Requests == \/ GateBegin \/ \E b \in Banks : KernelBegin(b)
            \/ \E h \in Handles :
                 \/ Commit(h) \/ RestoreCall(h)
                 \/ \E v \in Values : KernelStage(h, v) \/ GateApply(h, v)
            \/ Drain \/ PrepareUnload \/ OwnerEnds \/ Stop
Next == Steps \/ Requests \/ CopyOut \/ Watchdog \/ Expire \/ TargetExits \/ BindingGoes
Spec == Init /\ [][Next]_vars

\* callbacks return, and the watchdog thread keeps looking at expired stops
FairSpec == Spec /\ WF_vars(Steps) /\ SF_vars(Watchdog)

-----------------------------------------------------------------------------
(* Properties                                                              *)

(* Types.  An obligation to restore holds the lease and both references of *)
(* the exact target.                                                       *)
TypeOK ==
  /\ tx.state \in {"EMPTY", "SNAPSHOTTED", "STAGED", "RESTORE_PENDING"}
  /\ tx.orig \in Values \union {Torn} /\ tx.want \in Values \union {Torn}
  /\ tgt.regs \in Values \union {Torn} /\ next \in 1..MaxSequence + 1
  /\ \A f \in DOMAIN pv : pv[f] \in BOOLEAN
  /\ tx.state # "EMPTY" => /\ pv.lease /\ pv.proc /\ pv.thr
                           /\ refs.proc = "held" /\ refs.thr = "held"

(* No pre-commit exit: a target that is resumed has the registers it was   *)
(* stopped with, or the ones of a committed transaction, whatever write,   *)
(* verification or restore failed on the way, half done or not.            *)
ResumedClean ==
  tgt.susp /\ ~tgt'.susp => ~tgt.alive \/ tgt.regs = ghost.allowed

(* A reference whose release had an unknown effect, or whose acquisition   *)
(* cannot be trusted, is never released (again): neither by a drain, nor   *)
(* by the unwinding of a later transaction.                                *)
ReleasedOnce == ~ghost.double

(* Once the provider has agreed to an unload no reference and no           *)
(* transaction is left, and none begins afterwards.                        *)
UnloadIsFinal ==
  ghost.unloaded => /\ refs.proc = "none" /\ refs.thr = "none"
                    /\ ~pv.lease /\ ~pv.banks /\ tx.state = "EMPTY"

(* A handle names one transaction: no handle of an earlier transaction is  *)
(* accepted for a later one, also when the 32-bit token has wrapped.       *)
HandleOnce ==
  \A k \in known : HandleValid(k.h) => k.serial = ghost.serial

(* A stop whose lease expired ends: failing writes are retried by the      *)
(* watchdog until the exact original registers are back, or the target is  *)
(* known to be gone.  Without the setter's module nothing can be restored  *)
(* and the stop stays.                                                     *)
Overdue == stop.on /\ stop.expired /\ bind # "gone"
ExpiredStopEnds == []<>~Overdue

=============================================================================
