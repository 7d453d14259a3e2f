------------------------------ MODULE DebugNet ------------------------------
(***************************************************************************)
(* UDP logging (src/uvdb_debugnet.c): the calls uvdb_debugnet_start, _stop *)
(* and _write of the application's threads, the sender thread, the callback*)
(* that tells of the end of the thread which started the logger, and the   *)
(* handler that exit() runs before the heap goes away.                     *)
(*                                                                         *)
(* A step is an access to the shared atomics, or a kernel call; what only  *)
(* the holder of log_lifecycle_lock reads and writes goes with it.  The    *)
(* time limit of a wait may pass whenever the wait is not over; a kernel   *)
(* call that fails takes one of MaxFaults.  Generations do not wrap (2^23  *)
(* starts), and the 255 writers of the gate are never all inside.          *)
(***************************************************************************)
EXTENDS Integers, FiniteSets

CONSTANTS
    Threads,        \* of the application
    NoThread,
    Slots,          \* UVDB_DEBUGNET_QUEUE_SLOTS
    MaxStarts,      \* bound: starts
    MaxWrites,      \* bound: writes
    MaxFaults       \* bound: failing kernel calls

VARIABLES
    gate,           \* log_writer_gate: is it closed, its generation, its writers
    state,          \* log_state
    req,            \* log_stop_ready, log_owner_exited, log_skip_socket_close,
                    \* log_process_exiting, log_process_exit_hook_registered
    owner,          \* log_owner_generation_counter, _active, log_owner_thread,
                    \* log_owner_event (what was registered), _callback_active
    wake,           \* log_emergency_gate
    sema,           \* log_semaphore (0: none) and the semaphore's count
    sock,           \* log_socket
    queue,          \* log_queue: is it allocated, log_count, its lock's holder
    job,            \* the sender: is its UID known, its phase, and its own state
    lock,           \* log_lifecycle_lock: its holder
    th,             \* the application's threads
    proc,           \* "up", "released" (exit() went on), "killed"
    writes, faults, broke   \* counters; broke: the sender's wait failed

sharedVars == <<gate, state, req, owner, wake, sema, sock, queue, job, lock>>
vars == <<sharedVars, th, proc, writes, faults, broke>>

NoGate == [closed |-> TRUE, gen |-> 0, writers |-> 0]
NoEvent == [gen |-> 0, thread |-> NoThread]
Idle == [pc |-> "idle", ret |-> "idle", sem |-> 0, gen |-> 0, seen |-> NoGate]

Init ==
    /\ gate = NoGate /\ state = "stopped"
    /\ req = [ready |-> FALSE, exited |-> FALSE, skip |-> FALSE, exiting |-> FALSE, hook |-> FALSE]
    /\ owner = [serial |-> 0, gen |-> 0, thread |-> NoThread, event |-> NoEvent, active |-> 0]
    /\ wake = "disarmed" /\ sema = [id |-> 0, count |-> 0] /\ sock = "invalid"
    /\ queue = [buf |-> FALSE, count |-> 0, lock |-> NoThread]
    /\ job = [known |-> FALSE, phase |-> "none", pc |-> "none", msg |-> FALSE, stop |-> FALSE]
    /\ lock = NoThread /\ th = [t \in Threads |-> Idle] /\ proc = "up"
    /\ writes = 0 /\ faults = 0 /\ broke = FALSE

-----------------------------------------------------------------------------
(* Steps of a thread, and what several functions do.                       *)

At(t, pc) == proc = "up" /\ th[t].pc = pc
Goto(t, pc) == th' = [th EXCEPT ![t].pc = pc]
Fault == faults < MaxFaults /\ faults' = faults + 1
Fine == UNCHANGED faults
Quiet == UNCHANGED <<proc, writes, broke>>

\* debugnet_unlock_lifecycle, and the call returns
Return(t) == lock' = NoThread /\ th' = [th EXCEPT ![t] = Idle]

\* sceKernelSignalSema; the semaphore counts to one
Signalled(id) == [sema EXCEPT !.count = IF id # 0 /\ id = sema.id THEN 1 ELSE @]

Closed == [gate EXCEPT !.closed = TRUE]
\* debugnet_invalidate_owner_handler
Invalidated == [owner EXCEPT !.gen = 0, !.thread = NoThread]

\* debugnet_close_socket, by the sender or once it is gone
CloseSocket ==
    \/ sock = "open" /\ sock' = "invalid" /\ Fine
    \/ sock = "open" /\ Fault /\ UNCHANGED sock
    \/ sock = "invalid" /\ UNCHANGED <<sock, faults>>

-----------------------------------------------------------------------------
(* debugnet_request_emergency_stop, from the callback and from exit().     *)

Request(t, ret) == th' = [th EXCEPT ![t].pc = "e.close", ![t].ret = ret]

EmergencyClose(t) ==
    /\ At(t, "e.close")
    /\ req' = [req EXCEPT !.skip = @ \/ th[t].ret # "cb.leave"]
    /\ gate' = Closed /\ Goto(t, "e.exited") /\ Fine /\ Quiet
    /\ UNCHANGED <<state, owner, wake, sema, sock, queue, job, lock>>

EmergencyExited(t) ==
    /\ At(t, "e.exited")
    /\ req' = [req EXCEPT !.exited = TRUE] /\ Goto(t, "e.state") /\ Fine /\ Quiet
    /\ UNCHANGED <<gate, state, owner, wake, sema, sock, queue, job, lock>>

EmergencyState(t) ==
    /\ At(t, "e.state")
    /\ state' = IF state \in {"running", "starting"} THEN "stopping" ELSE state
    /\ Goto(t, "e.ready") /\ Fine /\ Quiet
    /\ UNCHANGED <<gate, req, owner, wake, sema, sock, queue, job, lock>>

EmergencyReady(t) ==
    /\ At(t, "e.ready")
    /\ req' = [req EXCEPT !.ready = TRUE] /\ Goto(t, "e.claim") /\ Fine /\ Quiet
    /\ UNCHANGED <<gate, state, owner, wake, sema, sock, queue, job, lock>>

EmergencyClaimUnclaimed(t) ==
    /\ At(t, "e.claim")
    /\ th' = [th EXCEPT ![t].sem = sema.id,
                        ![t].pc = IF wake = "armed" THEN "e.signal" ELSE th[t].ret]
    /\ Fine /\ Quiet /\ UNCHANGED sharedVars
EmergencyClaim(t) ==
    /\ At(t, "e.claim")
    /\ IF wake = "armed"
       THEN wake' = "active" /\ th' = [th EXCEPT ![t].sem = sema.id, ![t].pc = "e.signal"]
       ELSE Goto(t, th[t].ret) /\ UNCHANGED wake
    /\ Fine /\ Quiet
    /\ UNCHANGED <<gate, state, req, owner, sema, sock, queue, job, lock>>

EmergencySignal(t) ==
    /\ At(t, "e.signal")
    /\ sema' = Signalled(th[t].sem)
    /\ th' = [th EXCEPT ![t].sem = 0, ![t].pc = "e.disarm"] /\ Fine /\ Quiet
    /\ UNCHANGED <<gate, state, req, owner, wake, sock, queue, job, lock>>

EmergencyDisarm(t) ==
    /\ At(t, "e.disarm")
    /\ wake' = "disarmed" /\ Goto(t, th[t].ret) /\ Fine /\ Quiet
    /\ UNCHANGED <<gate, state, req, owner, sema, sock, queue, job, lock>>

Emergency(t) ==
    \/ EmergencyClose(t) \/ EmergencyExited(t) \/ EmergencyState(t) \/ EmergencyReady(t)
    \/ EmergencyClaim(t) \/ EmergencySignal(t) \/ EmergencyDisarm(t)

-----------------------------------------------------------------------------
(* debugnet_cleanup_inactive_resources, which ends the call it is made from.*)

CleanupClose(t) ==
    /\ At(t, "c.close")
    /\ gate' = Closed /\ owner' = Invalidated /\ Goto(t, "c.disarm") /\ Fine /\ Quiet
    /\ UNCHANGED <<state, req, wake, sema, sock, queue, job, lock>>

\* debugnet_disarm_emergency_gate
Disarm(t, from, to) ==
    /\ At(t, from)
    /\ \/ wake # "active" /\ wake' = "disarmed" /\ Goto(t, to) /\ Fine /\ UNCHANGED <<state, lock>>
       \/ /\ wake = "active" /\ Fine /\ Return(t)
          /\ state' = IF from = "c.disarm" THEN "exited" ELSE state
          /\ UNCHANGED wake
    /\ Quiet /\ UNCHANGED <<gate, req, owner, sema, sock, queue, job>>

CleanupCheck(t) ==
    /\ At(t, "c.check")
    /\ IF job.phase = "started" \/ owner.event # NoEvent
       THEN state' = "exited" /\ Return(t)
       ELSE Goto(t, "c.sock") /\ UNCHANGED <<state, lock>>
    /\ Fine /\ Quiet
    /\ UNCHANGED <<gate, req, owner, wake, sema, sock, queue, job>>

CleanupSocket(t) ==
    /\ At(t, "c.sock")
    /\ IF req.skip THEN UNCHANGED <<sock, faults>> ELSE CloseSocket
    /\ Goto(t, "c.sema") /\ Quiet
    /\ UNCHANGED <<gate, state, req, owner, wake, sema, queue, job, lock>>

CleanupSemaphore(t) ==
    /\ At(t, "c.sema")
    /\ \/ sema' = [id |-> 0, count |-> 0] /\ Fine
       \/ sema.id # 0 /\ Fault /\ UNCHANGED sema
    /\ Goto(t, "c.free") /\ Quiet
    /\ UNCHANGED <<gate, state, req, owner, wake, sock, queue, job, lock>>

Complete == ~job.known /\ job.phase = "none" /\ owner.event = NoEvent /\ sema.id = 0 /\ sock = "invalid"

CleanupFree(t) ==
    /\ At(t, "c.free")
    /\ queue' = [queue EXCEPT !.buf = FALSE, !.count = 0]
    /\ req' = [req EXCEPT !.ready = FALSE, !.exited = @ /\ ~Complete]
    /\ state' = IF Complete THEN "stopped" ELSE "exited"
    /\ Return(t) /\ Fine /\ Quiet
    /\ UNCHANGED <<gate, owner, wake, sema, sock, job>>

Cleanup(t) ==
    \/ CleanupClose(t) \/ Disarm(t, "c.disarm", "c.check") \/ CleanupCheck(t)
    \/ CleanupSocket(t) \/ CleanupSemaphore(t) \/ CleanupFree(t)

-----------------------------------------------------------------------------
(* uvdb_debugnet_start                                                     *)

StartLock(t) ==
    /\ At(t, "idle") /\ owner.serial < MaxStarts
    /\ lock = NoThread /\ ~req.exiting /\ state = "stopped"
    /\ lock' = t /\ req' = [req EXCEPT !.hook = TRUE]
    /\ Goto(t, "s.state") /\ Fine /\ Quiet
    /\ UNCHANGED <<gate, state, owner, wake, sema, sock, queue, job>>

StartState(t) ==
    /\ At(t, "s.state")
    /\ state' = "starting" /\ Goto(t, "s.owner") /\ Fine /\ Quiet
    /\ UNCHANGED <<gate, req, owner, wake, sema, sock, queue, job, lock>>

StartOwner(t) ==
    /\ At(t, "s.owner")
    /\ owner' = [owner EXCEPT !.serial = @ + 1, !.gen = owner.serial + 1, !.thread = t,
                              !.event = NoEvent]
    /\ req' = [req EXCEPT !.exited = FALSE, !.skip = FALSE]
    /\ Goto(t, "s.gate") /\ Fine /\ Quiet
    /\ UNCHANGED <<gate, state, wake, sema, sock, queue, job, lock>>

\* the gate is stored, not changed: whatever writers it counted are forgotten
StartGate(t) ==
    /\ At(t, "s.gate")
    /\ wake' = "disarmed"
    /\ gate' = [closed |-> TRUE, gen |-> gate.gen + 1, writers |-> 0]
    /\ Goto(t, "s.alloc") /\ Fine /\ Quiet
    /\ UNCHANGED <<state, req, owner, sema, sock, queue, job, lock>>

\* A step that fails goes to the cleanup.
StartAllocate(t) ==
    /\ At(t, "s.alloc")
    /\ \/ queue' = [queue EXCEPT !.buf = TRUE] /\ Goto(t, "s.sema") /\ Fine
       \/ Fault /\ Goto(t, "c.close") /\ UNCHANGED queue
    /\ Quiet /\ UNCHANGED <<gate, state, req, owner, wake, sema, sock, job, lock>>

StartSemaphore(t) ==
    /\ At(t, "s.sema")
    /\ \/ sema' = [id |-> owner.serial, count |-> 0] /\ Goto(t, "s.arm") /\ Fine
       \/ Fault /\ Goto(t, "c.close") /\ UNCHANGED sema
    /\ Quiet /\ UNCHANGED <<gate, state, req, owner, wake, sock, queue, job, lock>>

StartArm(t) ==
    /\ At(t, "s.arm")
    /\ wake' = "armed" /\ Goto(t, "s.socket") /\ Fine /\ Quiet
    /\ UNCHANGED <<gate, state, req, owner, sema, sock, queue, job, lock>>

StartSocket(t) ==
    /\ At(t, "s.socket")
    /\ \/ /\ sock' = "open" /\ Goto(t, "s.create") /\ Fine
          /\ queue' = [queue EXCEPT !.count = 0, !.lock = NoThread]
          /\ req' = [req EXCEPT !.ready = FALSE]
       \/ Fault /\ Goto(t, "c.close") /\ UNCHANGED <<sock, queue, req>>
    /\ Quiet /\ UNCHANGED <<gate, state, owner, wake, sema, job, lock>>

StartCreate(t) ==
    /\ At(t, "s.create")
    /\ \/ job' = [job EXCEPT !.known = TRUE, !.phase = "created"] /\ Goto(t, "s.run") /\ Fine
       \/ Fault /\ Goto(t, "c.close") /\ UNCHANGED job
    /\ Quiet /\ UNCHANGED <<gate, state, req, owner, wake, sema, sock, queue, lock>>

\* The thread runs from here on.  One that cannot be started is deleted, if that
\* does not fail as well.
StartRun(t) ==
    /\ At(t, "s.run")
    /\ \/ /\ job' = [job EXCEPT !.phase = "started", !.pc = "wait", !.msg = FALSE, !.stop = FALSE]
          /\ Goto(t, "s.publish") /\ Fine
       \/ Fault /\ job' = [job EXCEPT !.known = FALSE, !.phase = "none"] /\ Goto(t, "c.close")
       \/ Fault /\ Goto(t, "c.close") /\ UNCHANGED job
    /\ Quiet /\ UNCHANGED <<gate, state, req, owner, wake, sema, sock, queue, lock>>

StartPublish(t) ==
    /\ At(t, "s.publish")
    /\ IF state = "starting" THEN state' = "running" /\ Goto(t, "s.event")
       ELSE Goto(t, "s.undo") /\ UNCHANGED state
    /\ Fine /\ Quiet
    /\ UNCHANGED <<gate, req, owner, wake, sema, sock, queue, job, lock>>

StartEvent(t) ==
    /\ At(t, "s.event")
    /\ \/ /\ owner' = [owner EXCEPT !.event = [gen |-> owner.serial, thread |-> t]]
          /\ Goto(t, "s.open") /\ Fine /\ UNCHANGED state
       \/ Fault /\ state' = "stopping" /\ Goto(t, "s.undo") /\ UNCHANGED owner
    /\ Quiet /\ UNCHANGED <<gate, req, wake, sema, sock, queue, job, lock>>

StartUndo(t) ==
    /\ At(t, "s.undo")
    /\ owner' = Invalidated /\ req' = [req EXCEPT !.ready = TRUE]
    /\ sema' = Signalled(sema.id) /\ Goto(t, "r.join") /\ Fine /\ Quiet
    /\ UNCHANGED <<gate, state, wake, sock, queue, job, lock>>

StartOpen(t) ==
    /\ At(t, "s.open")
    /\ gate' = [gate EXCEPT !.closed = FALSE, !.writers = 0] /\ Goto(t, "s.check") /\ Fine /\ Quiet
    /\ UNCHANGED <<state, req, owner, wake, sema, sock, queue, job, lock>>

\* a logger that runs says so in a first message
StartCheck(t) ==
    /\ At(t, "s.check")
    /\ IF state = "running" THEN lock' = NoThread /\ Goto(t, "w.load") /\ UNCHANGED gate
       ELSE /\ gate' = Closed /\ UNCHANGED lock
            /\ th' = [th EXCEPT ![t].pc = "s.writers", ![t].ret = "r.join"]
    /\ Fine /\ Quiet
    /\ UNCHANGED <<state, req, owner, wake, sema, sock, queue, job>>

\* debugnet_wait_for_writers
AwaitWriters(t, from, to) ==
    /\ At(t, from)
    /\ \/ gate.writers = 0 /\ Goto(t, to) /\ Fine /\ UNCHANGED lock
       \/ gate.writers # 0 /\ Fine /\ Return(t)
    /\ Quiet /\ UNCHANGED <<gate, state, req, owner, wake, sema, sock, queue, job>>

\* debugnet_reap_failed_start
ReapJoin(t) ==
    /\ At(t, "r.join")
    /\ \/ job.pc = "ended" /\ job' = [job EXCEPT !.phase = "ended"] /\ Goto(t, "r.delete") /\ Fine
          /\ UNCHANGED lock
       \/ job.pc # "ended" /\ Fine /\ Return(t) /\ UNCHANGED job
    /\ Quiet /\ UNCHANGED <<gate, state, req, owner, wake, sema, sock, queue>>

ReapDelete(t) ==
    /\ At(t, "r.delete")
    /\ \/ job' = [job EXCEPT !.known = FALSE, !.phase = "none", !.pc = "none"] /\ Fine
       \/ Fault /\ UNCHANGED job
    /\ Goto(t, "c.close") /\ Quiet
    /\ UNCHANGED <<gate, state, req, owner, wake, sema, sock, queue, lock>>

Start(t) ==
    \/ StartState(t) \/ StartOwner(t) \/ StartGate(t) \/ StartAllocate(t) \/ StartSemaphore(t)
    \/ StartArm(t) \/ StartSocket(t) \/ StartCreate(t) \/ StartRun(t) \/ StartPublish(t)
    \/ StartEvent(t) \/ StartUndo(t) \/ StartOpen(t) \/ StartCheck(t)
    \/ AwaitWriters(t, "s.writers", "p.event") \/ ReapJoin(t) \/ ReapDelete(t)

-----------------------------------------------------------------------------
(* uvdb_debugnet_stop; ret keeps whether it found the logger running.      *)

StopLock(t) ==
    /\ At(t, "idle") /\ lock = NoThread /\ state \notin {"stopped", "starting"}
    /\ lock' = t
    /\ th' = [th EXCEPT ![t].pc = "p.close",
                        ![t].ret = IF state = "running" THEN "p.state" ELSE "p.writers"]
    /\ Fine /\ Quiet /\ UNCHANGED <<gate, state, req, owner, wake, sema, sock, queue, job>>

StopClose(t) ==
    /\ At(t, "p.close")
    /\ gate' = Closed /\ Goto(t, th[t].ret) /\ Fine /\ Quiet
    /\ UNCHANGED <<state, req, owner, wake, sema, sock, queue, job, lock>>

StopState(t) ==
    /\ At(t, "p.state")
    /\ state' = "stopping" /\ Goto(t, "p.unready") /\ Fine /\ Quiet
    /\ UNCHANGED <<gate, req, owner, wake, sema, sock, queue, job, lock>>

StopUnready(t) ==
    /\ At(t, "p.unready")
    /\ req' = [req EXCEPT !.ready = FALSE] /\ sema' = Signalled(sema.id)
    /\ Goto(t, "p.writers") /\ Fine /\ Quiet
    /\ UNCHANGED <<gate, state, owner, wake, sock, queue, job, lock>>

StopReady(t) ==
    /\ At(t, "p.ready")
    /\ req' = [req EXCEPT !.ready = TRUE] /\ sema' = Signalled(sema.id)
    /\ Goto(t, "p.disarm") /\ Fine /\ Quiet
    /\ UNCHANGED <<gate, state, owner, wake, sock, queue, job, lock>>

\* sceKernelWaitThreadEnd, for a thread that was started
StopJoin(t) ==
    /\ At(t, "p.join")
    /\ \/ ~job.known /\ th' = [th EXCEPT ![t].pc = "p.event", ![t].ret = "c.close"]
          /\ Fine /\ UNCHANGED <<job, lock>>
       \/ /\ job.known /\ (job.phase = "started" => job.pc = "ended")
          /\ job' = [job EXCEPT !.phase = IF @ = "started" THEN "ended" ELSE @]
          /\ Goto(t, "p.delete") /\ Fine /\ UNCHANGED lock
       \/ job.known /\ job.phase = "started" /\ job.pc # "ended" /\ Fine /\ Return(t)
          /\ UNCHANGED job
    /\ Quiet /\ UNCHANGED <<gate, state, req, owner, wake, sema, sock, queue>>

StopDelete(t) ==
    /\ At(t, "p.delete")
    /\ \/ /\ job' = [job EXCEPT !.known = FALSE, !.phase = "none", !.pc = "none"] /\ Fine
          /\ th' = [th EXCEPT ![t].pc = "p.event", ![t].ret = "c.close"] /\ UNCHANGED lock
       \/ Fault /\ Return(t) /\ UNCHANGED job
    /\ Quiet /\ UNCHANGED <<gate, state, req, owner, wake, sema, sock, queue>>

\* debugnet_unregister_owner_event, and debugnet_wait_for_owner_callback
StopEvent(t) ==
    /\ At(t, "p.event")
    /\ \/ owner' = [Invalidated EXCEPT !.event = NoEvent] /\ Goto(t, "p.callback") /\ Fine
          /\ UNCHANGED lock
       \/ owner.event # NoEvent /\ owner' = Invalidated /\ Fault /\ Return(t)
    /\ Quiet /\ UNCHANGED <<gate, state, req, wake, sema, sock, queue, job>>

StopCallback(t) ==
    /\ At(t, "p.callback")
    /\ \/ owner.active = 0 /\ Goto(t, th[t].ret) /\ Fine /\ UNCHANGED lock
       \/ owner.active # 0 /\ Fine /\ Return(t)
    /\ Quiet /\ UNCHANGED <<gate, state, req, owner, wake, sema, sock, queue, job>>

Stop(t) ==
    \/ StopClose(t) \/ StopState(t) \/ StopUnready(t) \/ AwaitWriters(t, "p.writers", "p.ready")
    \/ StopReady(t) \/ Disarm(t, "p.disarm", "p.join") \/ StopJoin(t) \/ StopDelete(t)
    \/ StopEvent(t) \/ StopCallback(t)

-----------------------------------------------------------------------------
(* The end of a thread: the kernel runs debugnet_owner_thread_event in it  *)
(* when the handler was registered for it, however late.                   *)

ThreadExit(t) ==
    /\ At(t, "idle")
    /\ th' = [th EXCEPT ![t] =
                 IF owner.event.thread = t THEN [Idle EXCEPT !.pc = "cb.enter", !.gen = owner.event.gen]
                 ELSE [Idle EXCEPT !.pc = "dead"]]
    /\ Fine /\ Quiet /\ UNCHANGED sharedVars

CallbackEnter(t) ==
    /\ At(t, "cb.enter")
    /\ owner' = [owner EXCEPT !.active = @ + 1] /\ Goto(t, "cb.check") /\ Fine /\ Quiet
    /\ UNCHANGED <<gate, state, req, wake, sema, sock, queue, job, lock>>

CallbackCheck(t) ==
    /\ At(t, "cb.check")
    /\ IF th[t].gen = owner.gen /\ owner.thread = t THEN Request(t, "cb.leave")
       ELSE Goto(t, "cb.leave")
    /\ Fine /\ Quiet /\ UNCHANGED sharedVars

CallbackLeave(t) ==
    /\ At(t, "cb.leave")
    /\ owner' = [owner EXCEPT !.active = @ - 1]
    /\ th' = [th EXCEPT ![t] = [Idle EXCEPT !.pc = "dead"]] /\ Fine /\ Quiet
    /\ UNCHANGED <<gate, state, req, wake, sema, sock, queue, job, lock>>

Callback(t) == CallbackEnter(t) \/ CallbackCheck(t) \/ CallbackLeave(t)

-----------------------------------------------------------------------------
(* exit(), in a thread that makes no other call:                           *)
(* debugnet_process_exit_handler.                                          *)

Kill(t) == Fine /\ proc' = "killed" /\ UNCHANGED <<th, lock>>

ExitBegin(t) ==
    /\ At(t, "idle") /\ req.hook /\ ~req.exiting
    /\ req' = [req EXCEPT !.exiting = TRUE] /\ Request(t, "x.lock") /\ Fine /\ Quiet
    /\ UNCHANGED <<gate, state, owner, wake, sema, sock, queue, job, lock>>

\* Every attempt at the lock requests the stop again: a start that was under way
\* may have cleared the earlier request.
ExitLock(t) ==
    /\ At(t, "x.lock")
    /\ \/ lock = NoThread /\ lock' = t /\ Request(t, "x.writers") /\ Fine /\ UNCHANGED proc
       \/ lock # NoThread /\ Request(t, "x.lock") /\ Fine /\ UNCHANGED <<lock, proc>>
    /\ UNCHANGED <<writes, broke, gate, state, req, owner, wake, sema, sock, queue, job>>

ExitExpire(t) ==
    /\ At(t, "x.lock") /\ lock # NoThread /\ Kill(t)
    /\ UNCHANGED <<writes, broke, gate, state, req, owner, wake, sema, sock, queue, job>>

ExitWriters(t) ==
    /\ At(t, "x.writers")
    /\ \/ gate.writers = 0 /\ Goto(t, "x.ready") /\ Fine /\ UNCHANGED <<lock, proc>>
       \/ gate.writers # 0 /\ Kill(t)
    /\ UNCHANGED <<writes, broke, gate, state, req, owner, wake, sema, sock, queue, job>>

ExitReady(t) ==
    /\ At(t, "x.ready")
    /\ req' = [req EXCEPT !.ready = TRUE] /\ sema' = Signalled(sema.id)
    /\ Goto(t, "x.join") /\ Fine /\ Quiet
    /\ UNCHANGED <<gate, state, owner, wake, sock, queue, job, lock>>

ExitJoin(t) ==
    /\ At(t, "x.join")
    /\ \/ /\ job.known /\ job.phase = "started" => job.pc = "ended"
          /\ job' = [job EXCEPT !.phase = IF @ = "started" THEN "ended" ELSE @]
          /\ proc' = "released" /\ Return(t) /\ Fine
       \/ job.known /\ job.phase = "started" /\ job.pc # "ended" /\ Kill(t) /\ UNCHANGED job
    /\ UNCHANGED <<writes, broke, gate, state, req, owner, wake, sema, sock, queue>>

Exit(t) == ExitLock(t) \/ ExitExpire(t) \/ ExitWriters(t) \/ ExitReady(t) \/ ExitJoin(t)

-----------------------------------------------------------------------------
(* The sender: debugnet_thread_main                                        *)

Sends(pc) == proc = "up" /\ job.pc = pc
SenderGoto(pc) == job' = [job EXCEPT !.pc = pc]
SenderKept == UNCHANGED <<owner, wake, lock, th, proc, writes>>

SenderWait ==
    /\ Sends("wait")
    /\ \/ sema.count = 1 /\ sema' = [sema EXCEPT !.count = 0] /\ SenderGoto("woken")
          /\ UNCHANGED <<faults, broke>>
       \/ Fault /\ broke' = TRUE /\ SenderGoto("finish") /\ UNCHANGED sema
    /\ SenderKept /\ UNCHANGED <<gate, state, req, sock, queue>>

SenderWoken ==
    /\ Sends("woken")
    /\ SenderGoto(IF req.exited THEN "finish" ELSE "lock")
    /\ SenderKept /\ UNCHANGED <<gate, state, req, sema, sock, queue, faults, broke>>

SenderLock ==
    /\ Sends("lock")
    /\ \/ queue.lock = NoThread /\ queue' = [queue EXCEPT !.lock = "sender"] /\ SenderGoto("take")
       \/ queue.lock # NoThread /\ req.exited /\ SenderGoto("finish") /\ UNCHANGED queue
    /\ SenderKept /\ UNCHANGED <<gate, state, req, sema, sock, faults, broke>>

SenderStops(rest) == state = "stopping" /\ req.ready /\ rest = 0 /\ gate.writers = 0

SenderTake ==
    /\ Sends("take")
    /\ LET rest == IF queue.count = 0 THEN 0 ELSE queue.count - 1 IN
       /\ queue' = [queue EXCEPT !.count = rest, !.lock = NoThread]
       /\ job' = [job EXCEPT !.pc = "taken", !.msg = queue.count # 0, !.stop = SenderStops(rest)]
    /\ SenderKept /\ UNCHANGED <<gate, state, req, sema, sock, faults, broke>>

\* what is sent, or fails to be, is only counted
SenderSend ==
    /\ Sends("taken")
    /\ job' = [job EXCEPT !.msg = FALSE, !.stop = FALSE,
                          !.pc = IF req.exited THEN "finish"
                                 ELSE IF job.msg THEN "lock"
                                 ELSE IF job.stop THEN "finish" ELSE "wait"]
    /\ SenderKept /\ UNCHANGED <<gate, state, req, sema, sock, queue, faults, broke>>

SenderFinish ==
    /\ Sends("finish")
    /\ gate' = Closed /\ SenderGoto("close")
    /\ SenderKept /\ UNCHANGED <<state, req, sema, sock, queue, faults, broke>>

SenderClose ==
    /\ Sends("close")
    /\ IF req.skip THEN UNCHANGED <<sock, faults>> ELSE CloseSocket
    /\ SenderGoto("state")
    /\ SenderKept /\ UNCHANGED <<gate, state, req, sema, queue, broke>>

SenderExit ==
    /\ Sends("state")
    /\ state' = "exited" /\ SenderGoto("ended")
    /\ SenderKept /\ UNCHANGED <<gate, req, sema, sock, queue, faults, broke>>

Sender ==
    \/ SenderWait \/ SenderWoken \/ SenderLock \/ SenderTake \/ SenderSend
    \/ SenderFinish \/ SenderClose \/ SenderExit

-----------------------------------------------------------------------------
(* uvdb_debugnet_write and _printf, of a level that is on                  *)

WriteBegin(t) ==
    /\ At(t, "idle") /\ writes < MaxWrites /\ writes' = writes + 1
    /\ Goto(t, "w.load") /\ Fine /\ UNCHANGED <<sharedVars, proc, broke>>

\* debugnet_begin_write: the gate as seen, the state, then the exchange
WriteLoad(t) ==
    /\ At(t, "w.load")
    /\ th' = [th EXCEPT ![t] = IF gate.closed THEN Idle
                               ELSE [@ EXCEPT !.pc = "w.state", !.seen = gate]]
    /\ Fine /\ Quiet /\ UNCHANGED sharedVars

WriteState(t) ==
    /\ At(t, "w.state")
    /\ IF state = "running" THEN Goto(t, "w.count") ELSE th' = [th EXCEPT ![t] = Idle]
    /\ Fine /\ Quiet /\ UNCHANGED sharedVars

WriteCount(t) ==
    /\ At(t, "w.count")
    /\ IF gate = th[t].seen
       THEN /\ gate' = [gate EXCEPT !.writers = @ + 1]
            /\ th' = [th EXCEPT ![t].pc = "w.check", ![t].seen = NoGate]
       ELSE /\ UNCHANGED gate
            /\ th' = IF gate.closed \/ gate.gen # th[t].seen.gen THEN [th EXCEPT ![t] = Idle]
                     ELSE [th EXCEPT ![t].seen = gate]
    /\ Fine /\ Quiet /\ UNCHANGED <<state, req, owner, wake, sema, sock, queue, job, lock>>

WriteCheck(t) ==
    /\ At(t, "w.check")
    /\ Goto(t, IF state = "running" THEN "w.lock" ELSE "w.end")
    /\ Fine /\ Quiet /\ UNCHANGED sharedVars

\* debugnet_enqueue: a lock that is taken, or a full queue, drops the message
WriteLock(t) ==
    /\ At(t, "w.lock")
    /\ IF queue.lock = NoThread
       THEN queue' = [queue EXCEPT !.lock = t] /\ Goto(t, "w.look")
       ELSE Goto(t, "w.end") /\ UNCHANGED queue
    /\ Fine /\ Quiet /\ UNCHANGED <<gate, state, req, owner, wake, sema, sock, job, lock>>

WriteLook(t) ==
    /\ At(t, "w.look")
    /\ IF state = "running" /\ queue.buf /\ queue.count < Slots
       THEN Goto(t, "w.copy") /\ UNCHANGED queue
       ELSE Goto(t, "w.end") /\ queue' = [queue EXCEPT !.lock = NoThread]
    /\ Fine /\ Quiet /\ UNCHANGED <<gate, state, req, owner, wake, sema, sock, job, lock>>

WriteCopy(t) ==
    /\ At(t, "w.copy")
    /\ queue' = [queue EXCEPT !.count = @ + 1, !.lock = NoThread]
    /\ th' = [th EXCEPT ![t].sem = sema.id, ![t].pc = "w.signal"]
    /\ Fine /\ Quiet /\ UNCHANGED <<gate, state, req, owner, wake, sema, sock, job, lock>>

WriteSignal(t) ==
    /\ At(t, "w.signal")
    /\ sema' = Signalled(th[t].sem) /\ Goto(t, "w.end")
    /\ Fine /\ Quiet /\ UNCHANGED <<gate, state, req, owner, wake, sock, queue, job, lock>>

WriteEnd(t) ==
    /\ At(t, "w.end")
    /\ gate' = [gate EXCEPT !.writers = @ - 1] /\ th' = [th EXCEPT ![t] = Idle]
    /\ Fine /\ Quiet /\ UNCHANGED <<state, req, owner, wake, sema, sock, queue, job, lock>>

Write(t) ==
    \/ WriteLoad(t) \/ WriteState(t) \/ WriteCount(t) \/ WriteCheck(t) \/ WriteLock(t) \/ WriteLook(t)
    \/ WriteCopy(t) \/ WriteSignal(t) \/ WriteEnd(t)

-----------------------------------------------------------------------------
Calls(t) == StartLock(t) \/ StopLock(t) \/ WriteBegin(t) \/ ExitBegin(t) \/ ThreadExit(t)
Steps(t) == Start(t) \/ Stop(t) \/ Cleanup(t) \/ Emergency(t) \/ Callback(t) \/ Exit(t) \/ Write(t)

Next == Sender \/ \E t \in Threads : Calls(t) \/ Steps(t)
Spec == Init /\ [][Next]_vars

-----------------------------------------------------------------------------
(* Properties                                                              *)

Inside == {"w.check", "w.lock", "w.look", "w.copy", "w.signal", "w.end"}
Requesting == {"e.close", "e.exited", "e.state", "e.ready", "e.claim", "e.signal", "e.disarm"}
Alive == job.pc \notin {"none", "ended"}

TypeOK ==
    /\ gate \in [closed : BOOLEAN, gen : 0 .. MaxStarts, writers : 0 .. Cardinality(Threads)]
    /\ state \in {"stopped", "starting", "running", "stopping", "exited"}
    /\ req \in [ready : BOOLEAN, exited : BOOLEAN, skip : BOOLEAN, exiting : BOOLEAN, hook : BOOLEAN]
    /\ owner.serial \in 0 .. MaxStarts /\ owner.gen \in {0, owner.serial}
    /\ owner.active \in 0 .. Cardinality(Threads)
    /\ wake \in {"disarmed", "armed", "active"} /\ sock \in {"invalid", "open"}
    /\ sema \in [id : 0 .. MaxStarts, count : {0, 1}]
    /\ queue.count \in 0 .. Slots /\ queue.lock \in Threads \cup {NoThread, "sender"}
    /\ job.phase \in {"none", "created", "started", "ended"} /\ lock \in Threads \cup {NoThread}
    /\ proc \in {"up", "released", "killed"} /\ faults \in 0 .. MaxFaults

\* The gate counts every write that is past its exchange, although a start
\* stores the whole word: no count is lost, so the waits for the writers wait
\* for all of them (debugnet_wait_for_writers).
WritersCounted == gate.writers = Cardinality({t \in Threads : th[t].pc \in Inside})

\* Nothing is used after it was released.  A message is copied into, or taken from,
\* a queue that is allocated (debugnet_cleanup_inactive_resources frees it without
\* the queue's lock).  A semaphore's number is used only while that semaphore is
\* there: by the sender that waits, by a writer that read it under the queue's lock,
\* and by an emergency request that claimed the gate (debugnet_disarm_emergency_gate).
UsedWhileThere ==
    /\ \A t \in Threads : /\ th[t].pc = "w.copy" => queue.buf
                          /\ th[t].pc \in {"w.signal", "e.signal"} => th[t].sem \in {0, sema.id}
    /\ job.pc = "take" => queue.buf
    /\ job.pc = "wait" => sema.id # 0

\* The end of a thread stops no logger but the one it started: while its callback
\* requests the stop, no other session has begun.
CallbackOfThisSession ==
    \A t \in Threads : th[t].pc \in Requesting /\ th[t].ret = "cb.leave" => owner.serial = th[t].gen

\* exit() goes on to release the heap only when the sender has ended and no
\* writer is inside ("the only safe option is direct process termination before
\* newlib releases the heap beneath a still-running worker").
ExitJoins ==
    proc = "released" => ~Alive /\ \A t \in Threads : th[t].pc \notin Inside

\* A logger that can be started again has left nothing behind.
StoppedIsEmpty ==
    state = "stopped" => /\ ~job.known /\ ~Alive /\ sema.id = 0 /\ sock = "invalid"
                         /\ owner.event = NoEvent /\ wake = "disarmed"
                         /\ queue.count = 0

\* A message that was accepted is given to the network before an ordinary stop
\* frees the queue; only an emergency, or a wait that failed, leaves it unsent.
DrainedByStop ==
    \A t \in Threads : th[t].pc = "c.free" /\ queue.count # 0 => req.exited \/ broke

\* A sender that was told to end is woken, or it is still somebody's business: a
\* request that is not through, a call under way, or exit(), which signals once
\* more when it has the lock.  The one wake of an emergency can be spent before:
\* a start under way clears an earlier request after that one has used the gate.
ToldIsWoken ==
    proc = "up" /\ req.exited /\ job.pc = "wait" /\ sema.count = 0 =>
        lock # NoThread \/ \E t \in Threads : th[t].pc \in Requesting \cup {"x.lock"}
=============================================================================
