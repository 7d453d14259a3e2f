---------------------------- MODULE DebugSession ----------------------------
(***************************************************************************)
(* What a debug session owes to the target: the software breakpoints        *)
(* (uvdb_breakpoint_patch.c and their table in uvdb.c), the live memory     *)
(* write (uvdb_memory_transaction.c and uvdb_memory_write_live), and the    *)
(* all-stop of the kernel companion under which both may touch the target   *)
(* (uvdb.c, build with UVDB_KERNEL_THREAD_CONTROL).                         *)
(*                                                                         *)
(* A stopped operation owns uvdb_stop_owner from uvdb_begin_stopped_operation*)
(* to its end, so that the lease keeper cannot get in between: an operation *)
(* is one step.  It works on a world `w` and yields a set of [w, r].        *)
(*                                                                         *)
(* Memory is a few cells; a cell is what one trap covers and what one chunk *)
(* of a write carries.                                                      *)
(***************************************************************************)
EXTENDS Integers, FiniteSets, Functions, TLC

CONSTANTS
    Cells,          \* addresses, an interval of numbers
    Data,           \* what a client may write
    Slots,          \* UVDB_MAX_BREAKPOINTS
    MaxFaults       \* bound: failing copies, kernel calls and lost connections

VARIABLES
    code,       \* [mem, slot, tx, rearm]: the target's memory and what is owed to it
    stop,       \* [lease, holder, token, failed]: the companion's stop and the client's view of it
    sock,       \* uvdb_socket: "none", "up", or "shut" (the peer or a shutdown ended it)
    at,         \* "out", or the thread in exception_handler
    begun,      \* that handler is past uvdb_kernel_begin_stop, in uvdb_main_loop
    life,       \* "serving", "stopping" (uvdb_server_stop), "joined", "stopped",
                \* "closing" (uvdb_shutdown_pending), "down"
    keeper,     \* the lease keeper runs
    faults,     \* faults left
    last,       \* how the target was let go last, "none" while it is stopped
    want,       \* history: the memory as the client wrote it, without traps
    tampered,   \* history: a breakpoint was set inside the range of a pending write
    raced       \* history: memory was written while peers could run, by a
                \* "packet" or a "cleanup", or "never"

vars == <<code, stop, sock, at, begun, life, keeper, faults, last, want, tampered, raced>>

Values == Data \cup {"udf", "torn"}
Ranges == {a .. b : a \in Cells, b \in Cells} \ {{}}
Slot == [st : {"empty", "pending", "installed"}, orig : Values, temp : BOOLEAN]
NoSlot(v) == [st |-> "empty", orig |-> v, temp |-> FALSE]
Blank == CHOOSE v \in Data : TRUE

Kernel == [lease : {"none", "live", "partial", "orphan"}, holder : {"server", "app"},
           token : BOOLEAN, failed : BOOLEAN]
NoTx == [st |-> "idle", orig |-> [c \in {} |-> Blank]]

World == [code |-> code, stop |-> stop, faults |-> faults, want |-> want,
          tampered |-> tampered, raced |-> raced, sock |-> sock,
          last |-> "none", phase |-> "packet"]
Returns(w, r) == {[w |-> w, r |-> r]}

(* The outcomes of F where S ended with r; the others stay. *)
When(S, r, F(_)) == UNION {IF o.r = r THEN F(o.w) ELSE {o} : o \in S}
Bind(S, F(_)) == UNION {F(o) : o \in S}

Faulty(w) == [w EXCEPT !.faults = @ - 1]
Maybe(w, S) == IF w.faults > 0 THEN S ELSE {}

-----------------------------------------------------------------------------
(* breakpoint_patch_read, breakpoint_patch_write: a write stops at a chunk  *)
(* that could not be copied, whole or in part; what it reports may also be  *)
(* wrong.  The cache is flushed without a result.                           *)
Peek(w) == Returns(w, "ok") \cup Maybe(w, Returns(Faulty(w), "short"))

Poke(w, f) ==
    LET Race(v) == IF v.stop.lease = "live" \/ v.raced = "packet" THEN v.raced ELSE v.phase
        Put(v, g) == [v EXCEPT !.code.mem = g @@ @, !.raced = Race(v)]
        Until(k) == Restrict(f, {c \in DOMAIN f : c < k})
        Torn(k) == [c \in {k} |-> "torn"]
    IN  Returns(Put(w, f), "ok")
        \cup Maybe(w, UNION {Returns(Put(Faulty(w), Until(k)), "short")
                             \cup Returns(Put(Faulty(w), Torn(k) @@ Until(k)), "short")
                             \cup Returns(Put(Faulty(w), Torn(k) @@ f), "ok") : k \in DOMAIN f})

(* A read that finds f there. *)
Verified(w, f) ==
    Bind(Peek(w), LAMBDA o :
        Returns(o.w, IF o.r = "ok" /\ Restrict(o.w.code.mem, DOMAIN f) = f THEN "ok" ELSE "bad"))

(* Write, flush, and read back whatever the write said. *)
PutBack(w, f) ==
    Bind(Poke(w, f), LAMBDA o :
        Bind(Verified(o.w, f), LAMBDA v :
            Returns(v.w, IF o.r = "ok" /\ v.r = "ok" THEN "ok" ELSE "pending")))

-----------------------------------------------------------------------------
(* The breakpoint table.  A slot is named by the cell it covers. *)

Used(w) == {c \in Cells : w.code.slot[c].st # "empty"}
Cleared(w, c) == [w EXCEPT !.code.slot[c] = NoSlot(Blank)]


RestoreSlot(w, c) ==
    When(PutBack([w EXCEPT !.code.slot[c].st = "pending"], [d \in {c} |-> w.code.slot[c].orig]),
         "ok", LAMBDA v : Returns(Cleared(v, c), "ok"))

(* uvdb_breakpoint_patch_install: the original is recorded before the first *)
(* byte may change, and put back when anything goes wrong.                  *)
InstallSlot(w, c, temp) ==
    LET rollback(v) == Bind(RestoreSlot(v, c), LAMBDA o :
                           Returns(o.w, IF o.r = "ok" THEN "err" ELSE "pending"))
        trap == [d \in {c} |-> "udf"]
    IN  Bind(Peek(w), LAMBDA o :
            IF o.r # "ok" THEN Returns(o.w, "err")
            ELSE Bind(Poke([o.w EXCEPT !.code.slot[c] =
                               [st |-> "pending", orig |-> w.code.mem[c], temp |-> temp]], trap),
                 LAMBDA p :
                     IF p.r # "ok" THEN rollback(p.w)
                     ELSE Bind(Verified(p.w, trap), LAMBDA v :
                              IF v.r # "ok" THEN rollback(v.w)
                              ELSE Returns([v.w EXCEPT !.code.slot[c].st = "installed"], "ok"))))

(* breakpoint_insert_internal *)
Insert(w, c, temp) ==
    IF c \in Used(w)
    THEN Returns(w, IF w.code.slot[c].st = "installed" THEN "ok" ELSE "pending")
    ELSE IF Cardinality(Used(w)) >= Slots THEN Returns(w, "err")
    ELSE InstallSlot(w, c, temp)

(* breakpoint_remove of every cell of C that has a slot; a failure does not *)
(* keep the others from being tried.                                        *)
RECURSIVE RemoveEach(_, _)
RemoveEach(w, C) ==
    IF C = {} THEN Returns(w, "ok")
    ELSE LET c == CHOOSE d \in C : TRUE
         IN  Bind(RestoreSlot(w, c), LAMBDA o :
                 Bind(RemoveEach(o.w, C \ {c}), LAMBDA p :
                     Returns(p.w, IF o.r = "ok" THEN p.r ELSE "pending")))

Remove(w, C) == RemoveEach(w, C \cap Used(w))
Pending(w) == {c \in Cells : w.code.slot[c].st = "pending"}
Temporary(w) == {c \in Used(w) : w.code.slot[c].temp}

-----------------------------------------------------------------------------
(* The live memory write. *)

HasPending(k) == k.rearm # {} \/ k.tx.st # "idle"

(* uvdb_memory_write_rearm_breakpoints, in the order of the list: the first *)
(* breakpoint that cannot be set again ends it.                             *)
RECURSIVE RearmEach(_, _)
RearmEach(w, R) ==
    IF R = {} THEN Returns(w, "ok")
    ELSE LET r == CHOOSE q \in R : TRUE
             rest(v) == RearmEach(v, R \ {r})
         IN  IF r.cell \in Used(w)
             THEN IF w.code.slot[r.cell].st # "installed" THEN Returns(w, "bad")
                  ELSE rest([w EXCEPT !.code.slot[r.cell].temp = r.temp])
             ELSE Bind(Insert(w, r.cell, r.temp), LAMBDA o :
                      IF o.r = "ok" THEN rest(o.w) ELSE Returns(o.w, "bad"))

Rearmed(w) ==
    When(RearmEach(w, w.code.rearm), "ok", LAMBDA v : Returns([v EXCEPT !.code.rearm = {}], "ok"))

(* uvdb_memory_transaction_restore *)
Undo(w) ==
    When(PutBack(w, w.code.tx.orig), "ok", LAMBDA v : Returns([v EXCEPT !.code.tx = NoTx], "ok"))

(* uvdb_memory_write_restore_pending: traps out, bytes back, traps in. *)
RestoreWrite(w) ==
    IF ~HasPending(w.code) THEN Returns(w, "ok")
    ELSE When(Remove(w, {r.cell : r \in w.code.rearm}), "ok", LAMBDA v :
             When(IF v.code.tx.st = "idle" THEN Returns(v, "ok") ELSE Undo(v), "ok", Rearmed))

(* -1 and -2 of uvdb_memory_write_live *)
UndoneOr(S) == Bind(S, LAMBDA o : Returns(o.w, IF o.r = "ok" THEN "err" ELSE "pending"))

(* uvdb_memory_write_capture_breakpoints, _prepare, _apply, _commit.        *)
Apply(w, f) ==
    Bind(Poke(w, f), LAMBDA o :
        Bind(IF o.r = "ok" THEN Verified(o.w, f) ELSE Returns(o.w, "bad"), LAMBDA v :
            IF v.r = "ok"
            THEN Bind(RearmEach([v.w EXCEPT !.code.tx.st = "applied"], v.w.code.rearm), LAMBDA a :
                     IF a.r # "ok" THEN UndoneOr(RestoreWrite(a.w))
                     ELSE Returns([a.w EXCEPT !.code.tx = NoTx, !.code.rearm = {},
                                              !.want = f @@ @], "ok"))
            ELSE Bind(Undo(v.w), LAMBDA u :
                     IF u.r # "ok" THEN Returns(u.w, "pending")
                     ELSE UndoneOr(Rearmed(u.w)))))

WriteLive(w, f) ==
    LET hit == {c \in DOMAIN f : c \in Used(w)}
        listed == [w EXCEPT !.code.rearm = {[cell |-> c, temp |-> w.code.slot[c].temp] : c \in hit}]
    IN  IF HasPending(w.code) THEN Returns(w, "err")
        ELSE Maybe(w, Returns(Faulty(w), "err"))                \* no storage
             \cup Bind(Remove(listed, hit), LAMBDA o :
                 IF o.r # "ok"
                 THEN Bind(RestoreWrite(o.w), LAMBDA p : Returns(p.w, "pending"))
                 ELSE Bind(Peek(o.w), LAMBDA p :
                     IF p.r # "ok"
                     THEN UndoneOr(Rearmed(p.w))
                     ELSE Apply([p.w EXCEPT !.code.tx =
                                    [st |-> "prepared",
                                     orig |-> Restrict(p.w.code.mem, DOMAIN f)]], f)))

-----------------------------------------------------------------------------
(* The companion's stop as its client uses it (module KernelStop has its    *)
(* inside): a session is "partial" when it could not be resumed entirely,   *)
(* and an "orphan" when that happened to one that never got a token.        *)

KernelBegin(w, who) ==
    IF w.stop.lease # "none" THEN Returns(w, "err")
    ELSE Returns([w EXCEPT !.stop.lease = "live", !.stop.holder = who], "ok")
         \cup Maybe(w, Returns(Faulty(w), "err")
                       \cup Returns([Faulty(w) EXCEPT !.stop.lease = "orphan"], "err"))

(* A renewal suspends every thread but the controller and the keeper, its   *)
(* caller included.  A caller frozen so owns uvdb_stop_owner, the keeper    *)
(* cannot renew, and it goes on when the lease has run out.                 *)
KernelRenew(w, who) ==
    IF w.stop.lease \notin {"live", "partial"} THEN Returns(w, "err")
    ELSE Returns(IF who \in {w.stop.holder, "keeper"} THEN [w EXCEPT !.stop.lease = "live"]
                 ELSE [w EXCEPT !.stop.lease = "none"], "ok")
         \cup Maybe(w, Returns(Faulty(w), "err"))

KernelEnd(w) ==
    IF w.stop.lease \notin {"live", "partial"} THEN Returns(w, "err")
    ELSE Returns([w EXCEPT !.stop.lease = "none"], "ok")
         \cup Maybe(w, Returns([Faulty(w) EXCEPT !.stop.lease = "partial"], "err"))

(* uvdb_kernel_begin_stop; a thread that was suspended already makes the    *)
(* stop useless, though it stands.                                          *)
BeginStop(w, who) ==
    IF w.stop.token THEN Returns(w, IF w.stop.failed THEN "err" ELSE "ok")
    ELSE When(KernelBegin(w, who), "ok", LAMBDA v :
             LET p == [v EXCEPT !.stop.token = TRUE, !.stop.failed = FALSE]
             IN  Returns(p, "ok") \cup Maybe(p, Returns(Faulty(p), "err")))

(* uvdb_kernel_recover_stop *)
Recover(w, who) ==
    LET ok(v) == Returns([v EXCEPT !.stop.token = TRUE, !.stop.failed = FALSE], "ok")
    IN  Bind(IF w.stop.token THEN KernelRenew(w, who) ELSE Returns(w, "err"), LAMBDA o :
            IF o.r = "ok" THEN ok(o.w)
            ELSE Bind(KernelBegin(o.w, who), LAMBDA p :
                     IF p.r = "ok" THEN ok(p.w)
                     ELSE Returns([p.w EXCEPT !.stop.failed = TRUE], "err")))

(* uvdb_kernel_end_stop *)
EndStop(w, who) ==
    IF ~w.stop.token THEN Returns(w, IF w.stop.failed THEN "err" ELSE "ok")
    ELSE Bind(KernelEnd(w), LAMBDA o :
             IF o.r = "ok"
             THEN Returns([o.w EXCEPT !.stop.token = FALSE, !.stop.failed = FALSE], "ok")
             ELSE Bind(Recover(o.w, who), LAMBDA p : Returns(p.w, "err")))

(* uvdb_refresh_thread_inventory, as uvdb_begin_stopped_operation calls it: *)
(* the lease is renewed, then the threads are listed and read.              *)
Refresh(w, who) ==
    IF w.stop.failed THEN Returns(w, "err")
    ELSE Bind(IF w.stop.token THEN KernelRenew(w, who) ELSE Returns(w, "err"), LAMBDA o :
             IF o.r # "ok" THEN Returns([o.w EXCEPT !.stop.failed = TRUE], "err")
             ELSE Returns(o.w, "ok") \cup Maybe(o.w, Returns(Faulty(o.w), "err")))

Owes(w) == Used(w) # {} \/ HasPending(w.code)
RestoreAll(w) == When(RestoreWrite(w), "ok", LAMBDA v : Remove(v, Cells))

(* uvdb_fail_stopped_client_owned.  "kept": the stop and what is owed stay; *)
(* "released": the target runs.  Either way the socket is closed.           *)
CanRelease(coherent, owes) == coherent \/ ~owes

FailRelease(w, who) ==
    LET gone(v) == [v EXCEPT !.stop.token = FALSE, !.stop.failed = TRUE]       \* abandon
        ended(o) == Returns(IF o.r # "ok" /\ o.w.stop.token THEN gone(o.w) ELSE o.w, "released")
    IN  Bind(EndStop(w, who), LAMBDA o :
            IF o.r # "ok" /\ o.w.stop.token /\ ~o.w.stop.failed
            THEN Bind(Remove(o.w, Cells), LAMBDA p :
                     IF p.r # "ok" THEN Returns(p.w, "kept")
                     ELSE Bind(EndStop(p.w, who), ended))
            ELSE ended(o))

FailStopped(w, who) ==
    LET owes == Owes(w)
    IN  Bind(IF w.stop.token /\ ~w.stop.failed THEN Returns(w, "ok") ELSE Recover(w, who),
             LAMBDA o :
                 IF ~CanRelease(o.r = "ok", owes) THEN Returns(o.w, "kept")
                 ELSE Bind(IF o.r = "ok" THEN RestoreAll(o.w) ELSE Returns(o.w, "ok"), LAMBDA p :
                          IF p.r # "ok" THEN Returns(p.w, "kept") ELSE FailRelease(p.w, who)))

-----------------------------------------------------------------------------
(* The handler's steps.  An outcome ends "in" the main loop or "out" of the *)
(* handler, with w.last saying how the target was left.                     *)

Leave(w, how) == Returns([w EXCEPT !.last = how], "out")
Failed(w, who) ==
    Bind(FailStopped([w EXCEPT !.phase = "cleanup"], who), LAMBDA o : Leave([o.w EXCEPT !.sock = "none"], o.r))

(* uvdb_begin_stopped_operation, and an operation F that begins with it *)
Stopped(w, who) ==
    Bind(Refresh(w, who), LAMBDA o : IF o.r = "ok" THEN Returns(o.w, "ok") ELSE Failed(o.w, who))
WhileStopped(w, who, F(_)) ==
    Bind(Stopped(w, who), LAMBDA o : IF o.r = "ok" THEN F(o.w) ELSE Returns(o.w, o.r))

(* An operation whose uncertain end costs the client its connection. *)
Answered(S, who) ==
    Bind(S, LAMBDA o : IF o.r = "pending" THEN Failed(o.w, who) ELSE Returns(o.w, "in"))

(* exception_handler up to uvdb_main_loop *)
Entered(w, who) ==
    Bind(BeginStop(w, who), LAMBDA o :
        IF o.r # "ok" THEN Failed(o.w, who)
        ELSE WhileStopped(o.w, who, LAMBDA v : Answered(Remove(v, Temporary(v)), who)))

Inserted(w, c, temp) ==
    Insert([w EXCEPT !.tampered = @ \/ (c \notin Used(w) /\ c \in DOMAIN w.code.tx.orig)], c, temp)

(* uvdb_apply_resume_plan and uvdb_finish_resume_packet.  step is the set   *)
(* of the cell to step to, if any; hold: the peers stay stopped.            *)
LetGo(w, who, hold) ==
    LET sent(v) == Leave(v, IF hold THEN "held" ELSE "resumed")
                   \cup Maybe(v, Failed(Faulty(v), who))
    IN  IF hold THEN sent(w)
        ELSE Bind(EndStop(w, who), LAMBDA o : IF o.r = "ok" THEN sent(o.w) ELSE Failed(o.w, who))

Resumed(w, who, step, hold) ==
    Bind(Remove(w, Pending(w)), LAMBDA o :
        IF o.r # "ok" THEN Failed(o.w, who)
        ELSE IF step = {} THEN LetGo(o.w, who, hold)
        ELSE Bind(Inserted(o.w, CHOOSE c \in step : TRUE, TRUE), LAMBDA p :
                 IF p.r = "pending" THEN Failed(p.w, who)
                 ELSE IF p.r = "err" THEN Returns(p.w, "in")
                 ELSE LetGo(p.w, who, hold)))

(* The D packet *)
Detached(w, who) ==
    Bind(RestoreAll(w), LAMBDA o :
        IF o.r # "ok" THEN Failed(o.w, who)
        ELSE Bind(EndStop(o.w, who), LAMBDA p :
                 IF p.r # "ok" THEN Failed(p.w, who)
                 ELSE Leave([p.w EXCEPT !.sock = "none"], "detached")))

-----------------------------------------------------------------------------
(* Actions *)

Install(w) ==
    /\ code' = w.code /\ stop' = w.stop /\ faults' = w.faults /\ sock' = w.sock
    /\ want' = w.want /\ tampered' = w.tampered /\ raced' = w.raced /\ last' = w.last

(* A thread runs unless a live stop holds it. *)
Runs(who) == stop.lease # "live" \/ stop.holder = who

(* The threads that trap: the application, or the server for a new client,  *)
(* a Ctrl-C or a lost connection.  The handler first looks whether there is  *)
(* a client (uvdb_exception_session_claimable), then stops the peers.       *)
Trap(who) ==
    /\ at = "out" /\ sock # "none" /\ life = "serving" /\ Runs(who)
    /\ at' = who /\ begun' = FALSE
    /\ UNCHANGED <<code, stop, sock, life, keeper, faults, last, want, tampered, raced>>

Moves(S) ==
    /\ \E o \in S : Install(o.w) /\ begun' = (o.r = "in") /\ at' = IF o.r = "in" THEN at ELSE "out"
    /\ UNCHANGED <<life, keeper>>

Enter == at # "out" /\ ~begun /\ Runs(at) /\ Moves(Entered(World, at))

(* One packet of the client. *)
Packet(Op(_)) == begun /\ sock = "up" /\ ~stop.failed /\ Moves(WhileStopped(World, at, Op))

SetBreakpoint(c) == Packet(LAMBDA w : Answered(Inserted(w, c, FALSE), at))
ClearBreakpoint(c) == Packet(LAMBDA w : Answered(Remove(w, {c}), at))
WriteMemory(R, v) == Packet(LAMBDA w : Answered(WriteLive(w, [c \in R |-> v]), at))
Continue == Packet(LAMBDA w : Resumed(w, at, {}, FALSE))
Step(c, hold) == (hold => at = "app") /\ Packet(LAMBDA w : Resumed(w, at, {c}, hold))
Detach == Packet(LAMBDA w : Detached(w, at))

(* recv_packet fails, or the lease keeper reported a failure. *)
ClientLost == begun /\ (sock # "up" \/ stop.failed) /\ Moves(Failed(World, at))

(* real_uvdb_enter on the server's thread, up to the accepted client. *)
Connect ==
    /\ life = "serving" /\ sock = "none" /\ at # "server" /\ Runs("server")
    /\ sock' = "up"
    /\ UNCHANGED <<code, stop, at, begun, life, keeper, faults, last, want, tampered, raced>>

(* The service loop, when the trap for a lost connection was not handled    *)
(* (exception_handler found the protocol or the state lock taken).          *)
Sever ==
    /\ sock = "shut" /\ at # "server" /\ life = "serving" /\ Runs("server")
    /\ sock' = "none"
    /\ UNCHANGED <<code, stop, at, begun, life, keeper, faults, last, want, tampered, raced>>

PeerLoss ==
    /\ sock = "up" /\ faults > 0
    /\ sock' = "shut" /\ faults' = faults - 1
    /\ UNCHANGED <<code, stop, at, begun, life, keeper, last, want, tampered, raced>>

(* uvdb_lease_renew_once *)
KeeperRenew ==
    /\ keeper /\ stop.token /\ ~stop.failed
    /\ \E o \in KernelRenew(World, "keeper") :
          Install(IF o.r = "ok" THEN [o.w EXCEPT !.last = last]
                  ELSE [o.w EXCEPT !.stop.failed = TRUE, !.last = last,
                                   !.sock = IF @ = "up" THEN "shut" ELSE @])
    /\ UNCHANGED <<at, begun, life, keeper>>

(* The companion's watchdog ends a stop nobody renews, or (a fault) one     *)
(* whose keeper was late.                                                   *)
LeaseExpires ==
    LET renewed == keeper /\ stop.token /\ ~stop.failed
    IN  /\ stop.lease # "none" /\ (renewed => faults > 0)
        /\ faults' = IF renewed THEN faults - 1 ELSE faults
        /\ stop' = [stop EXCEPT !.lease = "none"]
        /\ UNCHANGED <<code, sock, at, begun, life, keeper, last, want, tampered, raced>>

(* uvdb_stop_server: it closes the gates and wakes the service thread,      *)
(* joins it,                                                                *)
StopRequest ==
    /\ life = "serving" /\ ~(at = "app" /\ begun) /\ Runs("app")
    /\ life' = "stopping" /\ sock' = IF sock = "up" THEN "shut" ELSE sock
    /\ UNCHANGED <<code, stop, at, begun, keeper, faults, last, want, tampered, raced>>

ServerExit ==
    /\ life = "stopping" /\ at # "server" /\ Runs("server")
    /\ life' = "joined"
    /\ UNCHANGED <<code, stop, sock, at, begun, keeper, faults, last, want, tampered, raced>>

(* and settles what the last client left.                                   *)
Settled(w) ==
    IF ~(Owes(w) \/ w.stop.token \/ w.stop.failed) THEN Returns(w, "ok")
    ELSE When(Recover(w, "app"), "ok", LAMBDA v :
             When(RestoreAll(v), "ok", LAMBDA u : EndStop(u, "app")))

StopFinish ==
    /\ life \in {"joined", "closing"} /\ at = "out" /\ Runs("app")
    /\ \E o \in Settled([World EXCEPT !.sock = "none", !.last = "kept", !.phase = "cleanup"]) :
          LET done == o.r = "ok" /\ ~Owes(o.w)
          IN  /\ Install(IF done THEN [o.w EXCEPT !.last = "stopped"] ELSE o.w)
              /\ life' = IF done /\ life = "joined" THEN "stopped" ELSE life
              /\ keeper' = (keeper /\ ~done)
    /\ UNCHANGED <<at, begun>>

(* uvdb_shutdown: the same, but with one more try at EndStop, and with the  *)
(* keeper let go when only the stop is left.                                *)
Down(w) ==
    LET owed == Owes(w) \/ w.stop.token
        ends(v) == IF ~v.stop.token THEN Returns(v, "ok")
                   ELSE Bind(EndStop(v, "app"), LAMBDA o :
                            IF o.r # "ok" /\ o.w.stop.token /\ ~o.w.stop.failed
                            THEN EndStop(o.w, "app") ELSE {o})
    IN  When(IF owed THEN Recover(w, "app") ELSE Returns(w, "ok"), "ok",
             LAMBDA v : When(RestoreAll(v), "ok", ends))

Shutdown ==
    /\ life \in {"joined", "stopped", "closing"} /\ at = "out" /\ Runs("app")
    /\ \E o \in Down([World EXCEPT !.sock = "none", !.last = "kept", !.phase = "cleanup"]) :
          /\ Install(IF o.r = "ok"
                     THEN [o.w EXCEPT !.last = "stopped", !.stop.failed = FALSE]
                     ELSE o.w)
          /\ life' = IF o.r = "ok" THEN "down" ELSE "closing"
          /\ keeper' = (keeper /\ o.r # "ok" /\ Owes(o.w))
    /\ UNCHANGED <<at, begun>>

StartServer ==
    /\ life = "stopped" /\ ~keeper
    /\ life' = "serving" /\ keeper' = TRUE /\ stop' = [stop EXCEPT !.failed = FALSE]
    /\ UNCHANGED <<code, sock, at, begun, faults, last, want, tampered, raced>>

Init ==
    /\ code = [mem |-> [c \in Cells |-> Blank], slot |-> [c \in Cells |-> NoSlot(Blank)],
               tx |-> NoTx, rearm |-> {}]
    /\ stop = [lease |-> "none", holder |-> "server", token |-> FALSE, failed |-> FALSE]
    /\ sock = "none" /\ at = "out" /\ begun = FALSE /\ life = "serving" /\ keeper = TRUE
    /\ faults = MaxFaults /\ last = "none"
    /\ want = [c \in Cells |-> Blank] /\ tampered = FALSE /\ raced = "never"

Next ==
    \/ \E who \in {"server", "app"} : Trap(who)
    \/ Enter
    \/ \E c \in Cells : SetBreakpoint(c) \/ ClearBreakpoint(c)
    \/ \E R \in Ranges, v \in Data : WriteMemory(R, v)
    \/ Continue \/ Detach
    \/ \E c \in Cells, hold \in BOOLEAN : Step(c, hold)
    \/ ClientLost \/ Connect \/ Sever \/ PeerLoss
    \/ KeeperRenew \/ LeaseExpires
    \/ StopRequest \/ ServerExit \/ StopFinish \/ Shutdown \/ StartServer

Spec == Init /\ [][Next]_vars

(* Threads that may run do; the watchdog ends stops nobody renews; an       *)
(* application whose stop or shutdown failed calls it again.  A client, a   *)
(* trap and a first call to stop are never owed.                            *)
Progress ==
    \/ Enter \/ ClientLost \/ ServerExit
    \/ ~(keeper /\ stop.token /\ ~stop.failed) /\ LeaseExpires
    \/ life = "joined" /\ StopFinish
    \/ life = "closing" /\ Shutdown

FairSpec == Spec /\ WF_vars(Progress)

-----------------------------------------------------------------------------
(* Properties *)

TypeOK ==
    /\ code.mem \in [Cells -> Values] /\ code.slot \in [Cells -> Slot]
    /\ code.tx.st \in {"idle", "prepared", "applied"}
    /\ IF code.tx.st = "idle" THEN code.tx = NoTx ELSE DOMAIN code.tx.orig \in Ranges
    /\ code.rearm \subseteq [cell : Cells, temp : BOOLEAN]
    /\ stop \in Kernel /\ sock \in {"none", "up", "shut"}
    /\ at \in {"out", "server", "app"} /\ begun \in BOOLEAN
    /\ life \in {"serving", "stopping", "joined", "stopped", "closing", "down"}
    /\ keeper \in BOOLEAN /\ faults \in 0 .. MaxFaults
    /\ last \in {"none", "kept", "released", "held", "resumed", "detached", "stopped"}
    /\ want \in [Cells -> Data] /\ tampered \in BOOLEAN
    /\ raced \in {"never", "packet", "cleanup"}

Owed == Owes(World)

(* Where the original of a cell is kept. *)
Original(c) ==
    IF c \in DOMAIN code.tx.orig THEN code.tx.orig[c]
    ELSE IF code.slot[c].st # "empty" THEN code.slot[c].orig
    ELSE code.mem[c]

(* Whatever failed, and however often: every byte the client believes in is *)
(* in memory or in the slot or transaction that puts it back, unless a      *)
(* breakpoint was set inside the range of a write still to be undone        *)
(* (uvdb_memory_transaction.c:47, uvdb_breakpoint_patch.c:55).              *)
Recoverable == tampered \/ \A c \in Cells : want[c] = Original(c)

(* A client that was told OK, or a server that stopped, leaves no trap, no  *)
(* half-written byte and no obligation behind (uvdb.c:4904, uvdb.c:1692).   *)
EndsClean ==
    last \in {"detached", "stopped", "released"} =>
        ~Owed /\ (tampered \/ code.mem = want)

(* A packet writes executable memory only while the companion holds every   *)
(* peer, even if the lease has run out since the last one (uvdb.c:3791).    *)
WrittenStopped == raced # "packet"

(* The stop was kept for a restoration that failed, and the only thread     *)
(* that could retry it is one the stop suspends.                            *)
Marooned ==
    /\ at = "out" /\ Owed /\ keeper /\ stop.token /\ ~stop.failed
    /\ ~Runs(IF life = "stopping" THEN "server" ELSE "app")

(* A stop that was asked for ends, with nothing owed, unless it is marooned *)
(* (uvdb_stop_server, uvdb_shutdown).                                       *)
StopPending == life \in {"stopping", "joined", "closing"}
Waiting == StopPending /\ ~Marooned
StopEndsOrMaroons == []<>~Waiting

(* "never resume while any slot remains uncertain" (uvdb.c:4335). *)
ResumedCertain == last \in {"resumed", "held"} => \A c \in Cells : code.slot[c].st # "pending"

(* The restoration obligation of a write "prevents resume"                  *)
(* (docs/debugger-core-hardening.md:45).                                    *)
PendingPreventsResume == last = "resumed" => ~HasPending(code)

=============================================================================
