---------------------------- MODULE ExceptionGate ----------------------------
(***************************************************************************)
(* How an exception gets into the debugger, and how the debugger is stopped,*)
(* started again and shut down around it: exception_handler with the        *)
(* exception guard, the protocol gate, the state lock and the resume        *)
(* handoff, the kernel's handler slots, the server thread's traps and the   *)
(* lifecycle calls of uvdb.c.                                               *)
(*                                                                         *)
(* Every atomic operation on a shared word is a step.  A frame is one run of*)
(* exception_handler; <<t, 2>> is the frame of a fault that thread t takes  *)
(* inside its frame <<t, 1>>; the server takes none.  What the handler does *)
(* with the target while it owns the session is in module DebugSession.     *)
(***************************************************************************)
EXTENDS Integers, FiniteSets

CONSTANTS
    Apps,           \* application threads that may fault
    Server,         \* the server thread
    Types,          \* exception types, each with a handler slot of the kernel
    NoOne,          \* no thread, no type
    Before,         \* what the slots may hold before: a subset of {"app", "none"}
    Builds,         \* a subset of BOOLEAN: with the kernel companion or without
    MaxTraps,       \* bound: faults of the application
    MaxStarts,      \* bound: calls of uvdb_start_server
    MaxFaults       \* bound: failing kernel calls and waits that time out

VARIABLES
    frame,          \* [Frames -> Frame]
    guard,          \* lifecycle and owner of uvdb_exception_guard
    chaining,       \* its chaining_mask
    admissions,     \* uvdb_exception_admissions
    gate,           \* uvdb_protocol_gate
    lock,           \* uvdb_lock_owner
    handoff,        \* uvdb_resume_handoff_owner
    session,        \* the connected socket and the I/O failure flag
    life,           \* the lifecycle calls
    slots,          \* the kernel's handler of each type, and the captured predecessor
    mask,           \* installed_mask and ever_published_mask
    server,         \* where uvdb_server_main is, and why it last trapped
    async,          \* uvdb_async_stop_pending and _cancelled
    build,          \* UVDB_KERNEL_THREAD_CONTROL
    stopper,        \* the thread whose all-stop is in force
    traps, faults,  \* what is left of the bounds
    misread,        \* history: a fault after a resume was taken for a nested one
    early,          \* history: frames under way when the target was last resumed
    doubled         \* history: one Ctrl-C was answered by two stops

vars == <<frame, guard, chaining, admissions, gate, lock, handoff, session, life, slots,
          mask, server, async, build, stopper, traps, faults, misread, early, doubled>>

AllThreads == Apps \cup {Server}
Frames == (AllThreads \X {1}) \cup (Apps \X {2})
Thread(f) == f[1]
Inner(f) == <<f[1], 2>>
Life == "lifecycle"         \* the thread in uvdb_start_server, _stop_server or _shutdown

Pcs == {"out", "wait", "count", "own", "claim", "gate", "lock", "stop", "body", "ending",
        "release", "chain", "previous", "leave", "finish"}

Frame == [pc : Pcs, res : {"none", "primary", "nested", "closed"}, type : Types,
          late : BOOLEAN, done : BOOLEAN, deferred : BOOLEAN, served : BOOLEAN]

Out(ty) == [pc |-> "out", res |-> "none", type |-> ty, late |-> FALSE, done |-> FALSE,
            deferred |-> FALSE, served |-> FALSE]

(* Where a frame uses the session: from the gate to its release, and with   *)
(* the state lock.                                                          *)
Locked == {"stop", "body", "ending", "release"}
Inside == Locked \cup {"lock"}

Active(f) == frame[f].pc # "out"

TypeOK ==
    /\ frame \in [Frames -> Frame]
    /\ guard \in [closed : BOOLEAN, active : 0 .. Cardinality(Frames), owner : Types \cup {NoOne}]
    /\ chaining \subseteq Types
    /\ admissions \in 0 .. Cardinality(Frames)
    /\ gate \in [closing : BOOLEAN, owner : AllThreads \cup {NoOne}]
    /\ lock \in AllThreads \cup {Life, NoOne}
    /\ handoff \in AllThreads \cup {NoOne}
    /\ session \in [up : BOOLEAN, failed : BOOLEAN]
    /\ life \in [call : {"none", "stop", "start", "shutdown"},
                 pc : {"idle", "close", "net", "join", "admissions", "guard", "release",
                       "admissions again", "guard again"},
                 stop : BOOLEAN, pending : BOOLEAN, quiet : BOOLEAN, freed : BOOLEAN,
                 starts : 0 .. MaxStarts]
    /\ slots \in [Types -> [kernel : {"app", "none", "self"}, previous : {"app", "none"}]]
    /\ mask \in [installed : SUBSET Types, published : SUBSET Types]
    /\ server \in [pc : {"loop", "accept", "enter", "trap", "after", "ended"}, why : {"connect", "interrupt", "lost"}]
    /\ async \in [pending : BOOLEAN, cancelled : BOOLEAN, answered : BOOLEAN]
    /\ build \in BOOLEAN
    /\ stopper \in AllThreads \cup {NoOne}
    /\ traps \in 0 .. MaxTraps /\ faults \in 0 .. MaxFaults
    /\ misread \in BOOLEAN /\ early \subseteq Frames /\ doubled \in BOOLEAN

-----------------------------------------------------------------------------
(* A thread stands while the all-stop of another holds it; the server is a  *)
(* registered controller and never held.  A frame stands while its thread   *)
(* is in an inner one.                                                      *)
Held(t) == build /\ stopper \notin {NoOne, t} /\ t # Server
Moves(f, pc) == /\ frame[f].pc = pc
                /\ ~Held(Thread(f))
                /\ f[2] = 1 /\ Thread(f) \in Apps => ~Active(Inner(f))

To(f, pc) == frame' = [frame EXCEPT ![f].pc = pc]

(* A fault: of the application's own code, perhaps with the state lock      *)
(* held; the server's synthetic trap; or a fault inside the handler.        *)
Trap(f, ty) ==
    LET t == Thread(f)
    IN  /\ ty \in mask.published
        /\ ~Held(t) /\ ~Active(f)
        /\ \/ f[2] = 1 /\ t = Server /\ server.pc = "trap" /\ UNCHANGED traps
           \/ /\ f[2] = 2 => frame[<<t, 1>>].pc \in {"body", "previous", "release"}
              /\ f[2] = 2 \/ t # Server
              /\ traps > 0 /\ traps' = traps - 1
        /\ admissions' = admissions + 1
        /\ frame' = [frame EXCEPT ![f] = [Out(ty) EXCEPT !.pc = "wait"]]
        /\ server' = IF t = Server /\ f[2] = 1 THEN [server EXCEPT !.pc = "after"] ELSE server
        /\ UNCHANGED <<guard, chaining, gate, lock, handoff, session, life, slots, mask,
                       async, build, stopper, faults, misread, early, doubled>>

(* uvdb_resume_handoff_wait: until no other thread's resume is under way,   *)
(* or after 5000 polls all the same.                                        *)
HandoffWait(f) ==
    /\ Moves(f, "wait")
    /\ \/ handoff \in {NoOne, Thread(f)} /\ To(f, "count") /\ UNCHANGED faults
       \/ /\ handoff \notin {NoOne, Thread(f)} /\ faults > 0 /\ faults' = faults - 1
          /\ frame' = [frame EXCEPT ![f].pc = "count", ![f].late = TRUE]
    /\ UNCHANGED <<guard, chaining, admissions, gate, lock, handoff, session, life, slots,
                   mask, server, async, build, stopper, traps, misread, early,
                   doubled>>

(* uvdb_exception_guard_enter: the lifecycle word, *)
GuardCount(f) ==
    /\ Moves(f, "count")
    /\ guard' = [guard EXCEPT !.active = @ + 1]
    /\ IF guard.closed
       THEN /\ frame' = [frame EXCEPT ![f].pc = "chain", ![f].res = "closed"]
            /\ admissions' = admissions - 1
       ELSE To(f, "own") /\ UNCHANGED admissions
    /\ UNCHANGED <<chaining, gate, lock, handoff, session, life, slots, mask, server, async,
                   build, stopper, traps, faults, misread, early, doubled>>

(* then the owner; only then the admission ends.  A nested fault fails the  *)
(* session.  The history notes one that came after the resume of a frame of *)
(* another thread, met that frame on its way out and did not give up waiting*)
(* for it.                                                                  *)
MeetsTail(f) ==
    \E g \in Frames : /\ frame[g].res = "primary" /\ frame[g].done /\ Thread(g) # Thread(f)
                      /\ ~frame[f].late /\ f \notin early

GuardOwn(f) ==
    /\ Moves(f, "own")
    /\ admissions' = admissions - 1
    /\ early' = early \ {f}
    /\ IF guard.owner = NoOne
       THEN /\ guard' = [guard EXCEPT !.owner = frame[f].type]
            /\ frame' = [frame EXCEPT ![f].pc = "claim", ![f].res = "primary", ![f].late = FALSE]
            /\ UNCHANGED <<misread, session>>
       ELSE /\ frame' = [frame EXCEPT ![f].pc = "chain", ![f].res = "nested", ![f].late = FALSE]
            /\ misread' = (misread \/ MeetsTail(f))
            /\ session' = [session EXCEPT !.failed = TRUE]
            /\ UNCHANGED guard
    /\ UNCHANGED <<chaining, gate, lock, handoff, life, slots, mask, server, async, build,
                   stopper, traps, faults, doubled>>

(* uvdb_exception_session_claimable *)
Claimable == session.up /\ ~life.stop /\ ~life.pending

Claim(f) ==
    /\ Moves(f, "claim")
    /\ To(f, IF Claimable THEN "gate" ELSE "chain")
    /\ UNCHANGED <<guard, chaining, admissions, gate, lock, handoff, session, life, slots,
                   mask, server, async, build, stopper, traps, faults, misread,
                   early, doubled>>

(* uvdb_protocol_gate_try_acquire *)
GateAcquire(f) ==
    /\ Moves(f, "gate")
    /\ IF gate = [closing |-> FALSE, owner |-> NoOne]
       THEN gate' = [gate EXCEPT !.owner = Thread(f)] /\ To(f, "lock") /\ UNCHANGED session
       ELSE session' = [session EXCEPT !.failed = TRUE] /\ To(f, "chain") /\ UNCHANGED gate
    /\ UNCHANGED <<guard, chaining, admissions, lock, handoff, life, slots, mask, server,
                   async, build, stopper, traps, faults, misread, early, doubled>>

(* uvdb_try_lock_for_thread.  Without the lock the protocol is given back:  *)
(* uvdb_defer_exception_for_foreign_lock, or for the thread's own lock      *)
(* uvdb_fail_exception_without_state_lock.                                  *)
StateLock(f) ==
    /\ Moves(f, "lock")
    /\ IF lock = NoOne
       THEN /\ lock' = Thread(f) /\ UNCHANGED <<gate, session>>
            /\ frame' = [frame EXCEPT ![f].pc = "stop", ![f].served = TRUE]
       ELSE /\ gate' = [gate EXCEPT !.owner = NoOne]
            /\ session' = [session EXCEPT !.failed = @ \/ lock = Thread(f)]
            /\ frame' = [frame EXCEPT ![f].pc = "chain", ![f].deferred = lock # Thread(f)]
            /\ UNCHANGED lock
    /\ UNCHANGED <<guard, chaining, admissions, handoff, life, slots, mask, server, async,
                   build, stopper, traps, faults, misread, early, doubled>>

(* The stop: the server's trap is dropped when a fault of the application   *)
(* has answered its Ctrl-C already; a fault of the application answers a    *)
(* pending one; then the peers are stopped.                                 *)
StopTarget(f) ==
    /\ Moves(f, "stop")
    /\ IF Thread(f) = Server /\ async.cancelled
       THEN /\ async' = [async EXCEPT !.cancelled = FALSE]
            /\ To(f, "release")
            /\ UNCHANGED <<stopper, doubled>>
       ELSE /\ async' = [async EXCEPT !.pending = FALSE,
                                      !.cancelled = @ \/ (Thread(f) # Server /\ async.pending),
                                      !.answered = @ \/ (Thread(f) # Server /\ async.pending)]
            /\ doubled' = (doubled \/ (/\ Thread(f) = Server /\ server.why = "interrupt"
                                       /\ async.answered))
            /\ stopper' = Thread(f)
            /\ To(f, "body")
    /\ UNCHANGED <<guard, chaining, admissions, gate, lock, handoff, session, life, slots,
                   mask, server, build, traps, faults, misread, early>>

(* uvdb_main_loop receives a packet that resumes, while the session has not *)
(* failed.  uvdb_kernel_end_stop_for_resume publishes the handoff,          *)
PublishHandoff(f) ==
    /\ Moves(f, "body") /\ ~session.failed /\ ~life.stop
    /\ handoff' = Thread(f)
    /\ early' = {g \in Frames : frame[g].pc \in {"wait", "count", "own"}}
    /\ To(f, "ending")
    /\ UNCHANGED <<guard, chaining, admissions, gate, lock, session, life, slots, mask,
                   server, async, build, stopper, traps, faults, misread, doubled>>

(* then the peers run; when EndStop fails the client is given up. *)
EndStop(f) ==
    /\ Moves(f, "ending")
    /\ \/ /\ stopper' = NoOne /\ UNCHANGED faults
          /\ frame' = [frame EXCEPT ![f].pc = "release", ![f].done = TRUE]
       \/ /\ faults > 0 /\ faults' = faults - 1
          /\ To(f, "body") /\ UNCHANGED stopper
    /\ UNCHANGED <<guard, chaining, admissions, gate, lock, handoff, session, life, slots,
                   mask, server, async, build, traps, misread, early, doubled>>

(* uvdb_fail_stopped_client: the client is gone, or is given up. *)
FailClient(f) ==
    /\ Moves(f, "body")
    /\ stopper' = NoOne
    /\ session' = [session EXCEPT !.up = FALSE]
    /\ To(f, "release")
    /\ UNCHANGED <<guard, chaining, admissions, gate, lock, handoff, life, slots, mask,
                   server, async, build, traps, faults, misread, early, doubled>>

(* The kernel's watchdog ends a stop whose lease ran out. *)
LeaseExpires ==
    /\ build /\ stopper # NoOne /\ faults > 0
    /\ stopper' = NoOne /\ faults' = faults - 1
    /\ UNCHANGED <<frame, guard, chaining, admissions, gate, lock, handoff, session, life,
                   slots, mask, server, async, build, traps, misread, early,
                   doubled>>

(* uvdb_unlock, and exception_done: the protocol is released before the     *)
(* guard is left.                                                           *)
Release(f) ==
    /\ Moves(f, "release")
    /\ lock' = NoOne
    /\ gate' = [gate EXCEPT !.owner = NoOne]
    /\ To(f, "leave")
    /\ UNCHANGED <<guard, chaining, admissions, handoff, session, life, slots, mask, server,
                   async, build, stopper, traps, faults, misread, early, doubled>>

(* uvdb_chain_previous_exception_handler: a predecessor runs once at a time.*)
ChainBegin(f) ==
    LET ty == frame[f].type
    IN  /\ Moves(f, "chain")
        /\ IF slots[ty].previous # "none" /\ ty \notin chaining
           THEN chaining' = chaining \cup {ty} /\ To(f, "previous")
           ELSE UNCHANGED chaining /\ To(f, "leave")
        /\ UNCHANGED <<guard, admissions, gate, lock, handoff, session, life, slots, mask,
                       server, async, build, stopper, traps, faults, misread,
                       early, doubled>>

ChainEnd(f) ==
    /\ Moves(f, "previous")
    /\ chaining' = chaining \ {frame[f].type} /\ To(f, "leave")
    /\ session' = [session EXCEPT !.failed = @ \/ frame[f].deferred]
    /\ UNCHANGED <<guard, admissions, gate, lock, handoff, life, slots, mask, server, async,
                   build, stopper, traps, faults, misread, early, doubled>>

GuardLeaveUncounted(f) ==
    /\ Moves(f, "leave")
    /\ guard' = IF frame[f].res = "primary"
                THEN [guard EXCEPT !.active = @ - 1, !.owner = NoOne] ELSE guard
    /\ frame' = [frame EXCEPT ![f].pc = "finish", ![f].res = "none", ![f].done = FALSE,
                              ![f].deferred = FALSE]
    /\ UNCHANGED <<chaining, admissions, gate, lock, handoff, session, life, slots, mask,
                   server, async, build, stopper, traps, faults, misread, early,
                   doubled>>

(* uvdb_exception_guard_leave: the primary clears the owner, and every frame*)
(* leaves the count.                                                        *)
GuardLeave(f) ==
    /\ Moves(f, "leave")
    /\ guard' = [guard EXCEPT !.active = @ - 1,
                              !.owner = IF frame[f].res = "primary" THEN NoOne ELSE @]
    /\ frame' = [frame EXCEPT ![f].pc = "finish", ![f].res = "none", ![f].done = FALSE,
                              ![f].deferred = FALSE]
    /\ UNCHANGED <<chaining, admissions, gate, lock, handoff, session, life, slots, mask,
                   server, async, build, stopper, traps, faults, misread, early,
                   doubled>>

(* uvdb_resume_handoff_finish, after a frame that had the session; back to  *)
(* the thread.                                                              *)
HandoffFinish(f) ==
    /\ Moves(f, "finish")
    /\ handoff' = IF frame[f].served /\ handoff = Thread(f) THEN NoOne ELSE handoff
    /\ frame' = [frame EXCEPT ![f] = Out(frame[f].type)]
    /\ UNCHANGED <<guard, chaining, admissions, gate, lock, session, life, slots, mask,
                   server, async, build, stopper, traps, faults, misread, early,
                   doubled>>

(* Code of the application under the state lock (uvdb_remote_syscall, the   *)
(* console, the thread registry).                                           *)
AppLocks(t) ==
    /\ ~Held(t) /\ ~Active(<<t, 1>>) /\ lock = NoOne
    /\ lock' = t
    /\ UNCHANGED <<frame, guard, chaining, admissions, gate, handoff, session, life, slots,
                   mask, server, async, build, stopper, traps, faults, misread,
                   early, doubled>>

AppUnlocks(t) ==
    /\ ~Held(t) /\ ~Active(<<t, 1>>) /\ lock = t
    /\ lock' = NoOne
    /\ UNCHANGED <<frame, guard, chaining, admissions, gate, handoff, session, life, slots,
                   mask, server, async, build, stopper, traps, faults, misread,
                   early, doubled>>

-----------------------------------------------------------------------------
(* The kernel's handler slots. *)

(* uvdb_exception_handlers_restore, failing for the types of `kept`. *)
Restored(S, kept) ==
    [ty \in Types |-> IF ty \in S \ kept THEN [slots[ty] EXCEPT !.kernel = slots[ty].previous]
                      ELSE slots[ty]]

Captured(S) ==
    [ty \in Types |-> IF ty \in S THEN [kernel |-> "self", previous |-> slots[ty].kernel]
                      ELSE slots[ty]]

(* uvdb_exception_handlers_install: all types, or those before the one that *)
(* failed, which are given back except for the types of `kept`.             *)
Install ==
    \/ /\ slots' = Captured(Types)
       /\ mask' = [installed |-> Types, published |-> Types]
       /\ UNCHANGED faults
    \/ \E S \in SUBSET Types \ {Types}, kept \in SUBSET Types :
           /\ kept \subseteq S
           /\ faults > Cardinality(kept) /\ faults' = faults - 1 - Cardinality(kept)
           /\ slots' = [ty \in Types |-> IF ty \in S \ kept
                                         THEN [Captured(S)[ty] EXCEPT !.kernel = slots[ty].kernel]
                                         ELSE Captured(S)[ty]]
           /\ mask' = [installed |-> kept, published |-> S]

-----------------------------------------------------------------------------
(* uvdb_server_main and real_uvdb_enter. *)

ServerIdle == server.pc = "loop" /\ ~Active(<<Server, 1>>) /\ ~life.stop

(* A connected server looks at the socket under the state lock, unless the  *)
(* protocol is in use. *)
ServerLooks == ServerIdle /\ session.up /\ lock = NoOne /\ gate.owner = NoOne

ServerInterrupted ==
    /\ ServerLooks
    /\ async' = [pending |-> TRUE, cancelled |-> FALSE, answered |-> FALSE]
    /\ server' = [pc |-> "enter", why |-> "interrupt"]
    /\ UNCHANGED <<frame, guard, chaining, admissions, gate, lock, handoff, session, life,
                   slots, mask, build, stopper, traps, faults, misread, early,
                   doubled>>

ServerLost ==
    /\ ServerLooks
    /\ server' = [pc |-> "enter", why |-> "lost"]
    /\ UNCHANGED <<frame, guard, chaining, admissions, gate, lock, handoff, session, life,
                   slots, mask, async, build, stopper, traps, faults, misread, early,
                   doubled>>

(* A disconnected one enters to listen: handlers are installed once in the  *)
(* life of the process.                                                     *)
ServerListens ==
    /\ \/ ServerIdle
       \/ server.pc = "enter" /\ ~life.stop
    /\ ~session.up /\ lock = NoOne
    /\ session' = [session EXCEPT !.failed = FALSE]
    /\ async' = [async EXCEPT !.pending = FALSE, !.cancelled = FALSE]
    /\ IF mask.published = {} THEN Install ELSE UNCHANGED <<slots, mask, faults>>
    /\ server' = [pc |-> IF mask'.installed = Types THEN "accept" ELSE "loop", why |-> "connect"]
    /\ UNCHANGED <<frame, guard, chaining, admissions, gate, lock, handoff, life, build,
                   stopper, traps, misread, early, doubled>>

ServerAccepts ==
    /\ server.pc = "accept" /\ lock = NoOne
    /\ session' = [session EXCEPT !.up = ~life.stop]
    /\ server' = [server EXCEPT !.pc = IF life.stop THEN "loop" ELSE "trap"]
    /\ UNCHANGED <<frame, guard, chaining, admissions, gate, lock, handoff, life, slots,
                   mask, async, build, stopper, traps, faults, misread, early,
                   doubled>>

ServerEnters ==
    /\ server.pc = "enter" /\ lock = NoOne
    /\ life.stop \/ session.up
    /\ server' = [server EXCEPT !.pc = IF life.stop THEN "after" ELSE "trap"]
    /\ UNCHANGED <<frame, guard, chaining, admissions, gate, lock, handoff, session, life,
                   slots, mask, async, build, stopper, traps, faults, misread, early,
                   doubled>>

(* Back in the loop: a lost connection that no trap retired is closed. *)
ServerReturns ==
    /\ server.pc = "after" /\ ~Active(<<Server, 1>>)
    /\ server.why = "lost" /\ session.up => lock = NoOne
    /\ session' = [session EXCEPT !.up = @ /\ server.why # "lost"]
    /\ server' = [pc |-> "loop", why |-> "connect"]
    /\ async' = [async EXCEPT !.answered = FALSE]
    /\ UNCHANGED <<frame, guard, chaining, admissions, gate, lock, handoff, life, slots,
                   mask, build, stopper, traps, faults, misread, early, doubled>>

ServerEnds ==
    /\ server.pc = "loop" /\ life.stop /\ ~Active(<<Server, 1>>)
    /\ server' = [server EXCEPT !.pc = "ended"]
    /\ UNCHANGED <<frame, guard, chaining, admissions, gate, lock, handoff, session, life,
                   slots, mask, async, build, stopper, traps, faults, misread, early,
                   doubled>>

-----------------------------------------------------------------------------
(* The lifecycle calls, one at a time under uvdb_lifecycle_lock, on a       *)
(* thread that an all-stop holds like any other.                            *)
LifeMoves(pc) == life.pc = pc /\ ~(build /\ stopper # NoOne)

Failed == [life EXCEPT !.pc = "idle", !.call = "none"]

(* uvdb_stop_server and uvdb_shutdown begin alike. *)
StopBegins(call) ==
    /\ LifeMoves("idle") /\ ~life.freed
    /\ life' = [life EXCEPT !.call = call, !.pc = "close", !.stop = TRUE,
                            !.pending = @ \/ call = "shutdown"]
    /\ UNCHANGED <<frame, guard, chaining, admissions, gate, lock, handoff, session, slots,
                   mask, server, async, build, stopper, traps, faults, misread,
                   early, doubled>>

StopCloses ==
    /\ LifeMoves("close")
    /\ gate' = [gate EXCEPT !.closing = TRUE]
    /\ life' = [life EXCEPT !.pc = "net"]
    /\ UNCHANGED <<frame, guard, chaining, admissions, lock, handoff, session, slots, mask,
                   server, async, build, stopper, traps, faults, misread, early,
                   doubled>>

(* A wait that ends when `done` holds, or else times out: the call fails. *)
Waits(done, pc) ==
    \/ done /\ life' = [life EXCEPT !.pc = pc] /\ UNCHANGED faults
    \/ ~done /\ faults > 0 /\ faults' = faults - 1 /\ life' = Failed


(* uvdb_wait_for_network_quiescence *)
StopNetwork ==
    /\ LifeMoves("net")
    /\ Waits(gate.owner = NoOne /\ server.pc # "accept", "join")
    /\ UNCHANGED <<frame, guard, chaining, admissions, gate, lock, handoff, session, slots,
                   mask, server, async, build, stopper, traps, misread, early,
                   doubled>>

StopJoins ==
    /\ LifeMoves("join")
    /\ Waits(server.pc = "ended", "admissions")
    /\ session' = [session EXCEPT !.up = @ /\ life'.pc = "idle"]
    /\ UNCHANGED <<frame, guard, chaining, admissions, gate, lock, handoff, slots, mask,
                   server, async, build, stopper, traps, misread, early, doubled>>

(* uvdb_wait_for_exception_quiescence: the admissions are read first, *)
QuiesceAdmissions ==
    /\ \/ LifeMoves("admissions") /\ Waits(admissions = 0, "guard")
       \/ LifeMoves("admissions again") /\ Waits(admissions = 0, "guard again")
    /\ UNCHANGED <<frame, guard, chaining, admissions, gate, lock, handoff, session, slots,
                   mask, server, async, build, stopper, traps, misread, early,
                   doubled>>

(* then the guard; a guard in use sends the caller back to sleep. *)
GuardIdle == guard.active = 0 /\ guard.owner = NoOne /\ chaining = {}

Quiet ==
    CASE life.call = "stop" -> [Failed EXCEPT !.quiet = TRUE]
      [] life.call = "start" -> [Failed EXCEPT !.quiet = FALSE, !.stop = FALSE,
                                               !.starts = @ + 1]
      [] life.call = "shutdown" /\ life.pc = "guard" -> [life EXCEPT !.pc = "release", !.quiet = TRUE]
      [] OTHER -> [Failed EXCEPT !.freed = TRUE]

QuiesceGuard ==
    /\ LifeMoves("guard") \/ LifeMoves("guard again")
    /\ IF GuardIdle
       THEN /\ life' = Quiet
            /\ IF life.call = "start"
               THEN gate' = [gate EXCEPT !.closing = FALSE] /\ server' = [server EXCEPT !.pc = "loop"]
               ELSE UNCHANGED <<gate, server>>
       ELSE /\ life' = [life EXCEPT !.pc = IF life.pc = "guard" THEN "admissions"
                                           ELSE "admissions again"]
            /\ UNCHANGED <<gate, server>>
    /\ UNCHANGED <<frame, guard, chaining, admissions, lock, handoff, session, slots, mask,
                   async, build, stopper, traps, faults, misread, early, doubled>>

(* uvdb_shutdown: the handlers are given back and the guard closed, under   *)
(* the state lock; a handler that stays keeps the shutdown incomplete.      *)
ReleaseHandlers ==
    /\ LifeMoves("release") /\ lock = NoOne
    /\ \E kept \in SUBSET mask.installed :
           /\ faults >= Cardinality(kept) /\ faults' = faults - Cardinality(kept)
           /\ slots' = Restored(mask.installed, kept)
           /\ mask' = [mask EXCEPT !.installed = kept]
           /\ IF kept = {}
              THEN guard' = [guard EXCEPT !.closed = TRUE] /\ life' = [life EXCEPT !.pc = "admissions again"]
              ELSE life' = Failed /\ UNCHANGED guard
    /\ UNCHANGED <<frame, chaining, admissions, gate, lock, handoff, session, server, async,
                   build, stopper, traps, misread, early, doubled>>

(* uvdb_start_server, once the last server thread is joined. *)
StartBegins ==
    /\ LifeMoves("idle") /\ ~life.pending /\ server.pc = "ended" /\ life.starts < MaxStarts
    /\ life' = [life EXCEPT !.call = "start", !.pc = "admissions"]
    /\ UNCHANGED <<frame, guard, chaining, admissions, gate, lock, handoff, session, slots,
                   mask, server, async, build, stopper, traps, faults, misread,
                   early, doubled>>

-----------------------------------------------------------------------------
Init ==
    /\ \E ty \in Types : frame = [f \in Frames |-> Out(ty)]
    /\ guard = [closed |-> FALSE, active |-> 0, owner |-> NoOne] /\ chaining = {}
    /\ admissions = 0
    /\ gate = [closing |-> FALSE, owner |-> NoOne] /\ lock = NoOne /\ handoff = NoOne
    /\ session = [up |-> FALSE, failed |-> FALSE]
    /\ life = [call |-> "none", pc |-> "idle", stop |-> FALSE, pending |-> FALSE,
               quiet |-> TRUE, freed |-> FALSE, starts |-> 0]
    /\ slots \in [Types -> [kernel : Before, previous : {"none"}]]
    /\ mask = [installed |-> {}, published |-> {}]
    /\ server = [pc |-> "ended", why |-> "connect"]
    /\ async = [pending |-> FALSE, cancelled |-> FALSE, answered |-> FALSE]
    /\ build \in Builds /\ stopper = NoOne
    /\ traps = MaxTraps /\ faults = MaxFaults
    /\ misread = FALSE /\ early = {} /\ doubled = FALSE

HandlerStep(f) ==
    \/ HandoffWait(f) \/ GuardCount(f) \/ GuardOwn(f)
    \/ Claim(f) \/ GateAcquire(f) \/ StateLock(f) \/ StopTarget(f)
    \/ PublishHandoff(f) \/ EndStop(f) \/ FailClient(f) \/ Release(f)
    \/ ChainBegin(f) \/ ChainEnd(f) \/ GuardLeave(f) \/ HandoffFinish(f)

ServerStep == ServerListens \/ ServerAccepts \/ ServerEnters \/ ServerReturns \/ ServerEnds

LifeStep ==
    \/ StopCloses \/ StopNetwork \/ StopJoins \/ QuiesceAdmissions \/ QuiesceGuard
    \/ ReleaseHandlers

Next ==
    \/ \E f \in Frames : (\E ty \in Types : Trap(f, ty)) \/ HandlerStep(f)
    \/ \E t \in Apps : AppLocks(t) \/ AppUnlocks(t)
    \/ LeaseExpires
    \/ ServerStep \/ ServerInterrupted \/ ServerLost
    \/ LifeStep \/ StartBegins \/ \E call \in {"stop", "shutdown"} : StopBegins(call)

Spec == Init /\ [][Next]_vars

(* What a thread does of itself: its handlers, the end of a critical section *)
(* of the application, the loop of the server and the trap it ends in.       *)
OwnStep(t) ==
    \/ \E f \in Frames : Thread(f) = t /\ HandlerStep(f)
    \/ t \in Apps /\ AppUnlocks(t)
    \/ t = Server /\ (ServerStep \/ \E ty \in Types : Trap(<<Server, 1>>, ty))

(* Every thread that may run again and again does: a stopped handler gets a *)
(* packet or loses its client, the application leaves its critical sections,*)
(* nobody is kept for ever from a state lock that is free again and again,  *)
(* nor by stops that follow one another.                                    *)
FairSpec == Spec /\ (\A t \in AllThreads : SF_vars(OwnStep(t))) /\ SF_vars(LifeStep)

-----------------------------------------------------------------------------
(* One handler at a time works on the target, and it has all three locks.   *)
OneInside ==
    \A f, g \in Frames :
        /\ frame[f].pc \in Locked =>
               /\ lock = Thread(f) /\ gate.owner = Thread(f)
               /\ frame[f].res = "primary" /\ guard.owner = frame[f].type
        /\ frame[f].res = "primary" /\ frame[g].res = "primary" => f = g

(* Once uvdb_stop_server has returned success no handler of that session is *)
(* left: none between its claim of the session and its release, none that   *)
(* would make the first fault of the next session a nested one.             *)
StopIsQuiet ==
    life.quiet => \A f \in Frames : /\ frame[f].pc \notin Inside
                                  /\ frame[f].served => frame[f].pc = "finish"

(* After a completed shutdown the kernel has the handlers it had before, and*)
(* a handler that is dispatched late uses no session and no debugger memory.*)
ShutdownIsFinal ==
    life.freed => /\ \A ty \in Types : slots[ty].kernel # "self"
                  /\ mask.installed = {} /\ ~session.up
                  /\ \A f \in Frames : frame[f].pc \notin Inside \cup {"claim", "gate"}

(* A fault that comes after the target was resumed, and finds the handler   *)
(* that resumed it on its way out, waits for it: it is not taken for a      *)
(* fault of the debugger, which would cost the session.                     *)
ResumeHandsOff == ~misread

(* No predecessor is run by two threads at a time, nor by its own fault.    *)
PredecessorAlone ==
    \A f, g \in Frames : frame[f].pc = "previous" /\ frame[g].pc = "previous"
                         /\ frame[f].type = frame[g].type => f = g

(* A Ctrl-C that a fault of the application has answered is not answered    *)
(* again by the server's own trap.                                          *)
InterruptOnce == ~doubled

(* Every lifecycle call returns, and every fault gets back to its thread:   *)
(* no wait of the one for the other is a deadlock.                          *)
InCall == life.pc # "idle"
CallsReturn == []<>~InCall
FaultsReturn == \A f \in Frames : []<>~Active(f)

=============================================================================
