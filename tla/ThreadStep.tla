----------------------------- MODULE ThreadStep -----------------------------
(***************************************************************************)
(* Which thread a client steps, and where the step stops: the thread       *)
(* selection and resume planning of uvdb_thread_control.c, the step        *)
(* planner of uvdb.c (breakpoint_insert_step) and the exclusive-sequence   *)
(* scanner of uvdb_exclusive_step.c, run against application threads that  *)
(* really execute the code being planned.                                  *)
(*                                                                         *)
(* The processor has no single-step mode the server may use: to step, the  *)
(* server predicts from the saved registers where the thread goes next and *)
(* puts a temporary trap there.  An instruction is abstracted to what the  *)
(* planner tells apart, and addresses count halfwords.  The server is the  *)
(* build with kernel thread control: a stop suspends every application     *)
(* thread, and a step of the stopped thread alone keeps its peers          *)
(* suspended.  Failures of the stop session belong to DebugSession.        *)
(***************************************************************************)
EXTENDS Integers, Sequences, FiniteSets, SequencesExt, FiniteSetsExt

CONSTANTS
    Threads,      \* the application threads, positive integers
    Programs,     \* name -> [thumb, code, entry, mem, alt, loop]: what the threads execute
    Packets,      \* the client packets to consider, see Packet below
    MaxPoints,    \* UVDB_MAX_BREAKPOINTS
    InstrLimit,   \* the scanner's instruction_limit
    UnitLimit     \* the scanner's byte_limit, in halfwords

VARIABLES
    prog,         \* the name of the program of this behaviour
    th,           \* per thread: pc, z (the flags), it (IT slots left), mon, live
    mem,          \* the words a PC load or a table branch reads
    points,       \* patched address -> "client" or "temp": uvdb_breakpoints
    sel,          \* uvdb_selection: stopped, general, resume
    exc,          \* uvdb_exception_thread (Controller: the server's own thread)
    runs,         \* the threads that may execute; none while stopped
    step,         \* the step in progress: thread, alone, phase
    ghost         \* what the client was told or asked for, and what raced

vars == <<prog, th, mem, points, sel, exc, runs, step, ghost>>

AnyThread == 0
AllThreads == -1
Controller == 0
Refuse == -1
NotThis == -2
Prog == Programs[prog]
NoStep == [thread |-> 0, alone |-> FALSE, phase |-> "none"]

----------------------------------------------------------------------------
(* Instructions: op, cond, to (a target, a word or the IT slots), n units. *)

Passed(cond, z) == cond = "al" \/ (cond = "eq" /\ z) \/ (cond = "ne" /\ ~z)

\* What safe_memcpy returns for an address: the trap hides what it replaced.
Seen(a) ==
    IF a \in DOMAIN points
      THEN [op |-> "udf", cond |-> "al", to |-> 0, n |-> IF Prog.thumb THEN 1 ELSE 2]
      ELSE IF a \in DOMAIN Prog.code THEN Prog.code[a]
      ELSE [op |-> "unreadable", cond |-> "al", to |-> 0, n |-> 1]

WordAt(w) == IF w \in DOMAIN mem THEN mem[w] ELSE Refuse

\* A misaligned target is negative; a step never traps where it starts.
SetTarget(to, pc) == IF to < 0 \/ to = pc THEN Refuse ELSE to

MayBlock(i) == i.op = "svc"

ArmMayWritePc(i) == i.op \in {"b", "ldm", "ldr", "rfe"}

Thumb16MayWritePc(i) == i.n = 1 /\ i.op \in {"b", "cbz", "pop"}

Thumb32MayWritePc(i) == i.n = 2 /\ i.op \in {"b", "tbb", "ldm", "ldr", "rfe"}

ArmStartsExclusive(i) == i.op = "ldrex"

Thumb32StartsNone(i) == FALSE
Thumb32StartsExclusive(i) == i.n = 2 /\ i.op = "ldrex"

\* A PC write only in the last slot of an IT block, and no CBZ in any.
ItPlacement(i, it) ==
    it = << >> \/ (i.op # "cbz" /\ (Thumb16MayWritePc(i) \/ Thumb32MayWritePc(i)
                                      => Len(it) = 1))

----------------------------------------------------------------------------
(* Planning: the address of the temporary trap, Refuse or NotThis.         *)

ArmDirectStepIf(taken, i, t) ==
    IF i.op # "b" THEN NotThis
    ELSE IF taken THEN SetTarget(i.to, t.pc) ELSE t.pc + i.n
ArmDirectStepTaken(i, t) == ArmDirectStepIf(TRUE, i, t)
ArmDirectStep(i, t) == ArmDirectStepIf(Passed(i.cond, t.z), i, t)

ArmLoadPc(i, t) ==
    IF i.op # "ldr" \/ ~Passed(i.cond, t.z) THEN NotThis
    ELSE SetTarget(WordAt(i.to), t.pc)

Thumb16DirectStep(i, t) ==
    IF i.n # 1 \/ i.op \notin {"b", "cbz"} THEN NotThis
    ELSE IF Passed(i.cond, t.z) THEN SetTarget(i.to, t.pc) ELSE t.pc + 1

Thumb32BranchStep(i, t) ==
    IF i.n # 2 \/ i.op # "b" THEN NotThis
    ELSE IF Passed(i.cond, t.z) THEN SetTarget(i.to, t.pc) ELSE t.pc + 2

Thumb32LoadPc(i, t) ==
    IF i.n # 2 \/ i.op # "ldr" THEN NotThis ELSE SetTarget(WordAt(i.to), t.pc)

\* Past the slots that will be skipped, so that the trap is in one that runs.
RECURSIVE AfterIt(_, _, _)
AfterIt(a, slots, z) ==
    IF slots = << >> \/ Passed(Head(slots), z) THEN a
    ELSE IF Seen(a).op = "unreadable" THEN Refuse
    ELSE AfterIt(a + Seen(a).n, Tail(slots), z)

\* The store must be unconditional: what lies between may change the flags.
ArmCloses(i, load) ==
    i.op = "clrex" \/ (i.op = "strex" /\ i.cond = "al" /\ i.to = load.to)

ThumbCloses(i, load) == i.op = "clrex" \/ (i.op = "strex" /\ i.to = load.to)

\* The straight line from pc up to the first instruction that ends the scan.
ScanUntil(pc, stops, thumb) ==
    LET at[k \in 1..InstrLimit] ==
            IF k = 1 THEN pc ELSE at[k - 1] + Seen(at[k - 1]).n
        ends == {k \in 2..InstrLimit :
                    Seen(at[k]).op \in stops \cup {"ldrex", "strex", "clrex", "unreadable"}}
    IN IF ends = {} THEN Refuse
       ELSE LET last == at[Min(ends)]
                next == last + Seen(last).n
                closes == IF thumb THEN ThumbCloses(Seen(last), Seen(pc))
                                   ELSE ArmCloses(Seen(last), Seen(pc))
            IN IF next - pc <= UnitLimit /\ closes
                 THEN next ELSE Refuse

ScanArm(t) ==
    IF Passed(Seen(t.pc).cond, t.z)
      THEN ScanUntil(t.pc, {"b", "ldm", "ldr", "rfe", "svc"}, FALSE) ELSE Refuse

ScanThumb(t) ==
    IF t.it = << >>
      THEN ScanUntil(t.pc, {"b", "cbz", "pop", "tbb", "ldm", "ldr", "rfe", "svc", "it"},
                     TRUE)
      ELSE Refuse

ExclusiveSequence(t, hold) ==
    IF ~hold THEN Refuse
    ELSE SetTarget(IF Prog.thumb THEN ScanThumb(t) ELSE ScanArm(t), t.pc)

\* The 32-bit transfers: a branch, a table, a register list or a word.
PlanThumbTransfer(i, t) ==
    IF Thumb32BranchStep(i, t) # NotThis THEN Thumb32BranchStep(i, t)
    ELSE IF i.op \in {"tbb", "ldm"} THEN SetTarget(WordAt(i.to), t.pc)
    ELSE IF Thumb32LoadPc(i, t) # NotThis THEN Thumb32LoadPc(i, t)
    ELSE Refuse

PlanThumb(t, hold) ==
    LET i == Seen(t.pc)
    IN CASE i.op = "unreadable" \/ (hold /\ MayBlock(i)) -> Refuse
         [] Thumb32StartsExclusive(i) ->
              IF t.it # << >> THEN Refuse ELSE ExclusiveSequence(t, hold)
         [] ~ItPlacement(i, t.it) -> Refuse
         [] t.it # << >> /\ ~Passed(Head(t.it), t.z) ->
              AfterIt(t.pc + i.n, Tail(t.it), t.z)
         [] Thumb16DirectStep(i, t) # NotThis -> Thumb16DirectStep(i, t)
         [] i.op = "it" -> AfterIt(t.pc + 1, i.to, t.z)
         [] i.op = "pop" -> SetTarget(WordAt(i.to), t.pc)
         [] Thumb32MayWritePc(i) -> PlanThumbTransfer(i, t)
         [] OTHER -> IF t.it = << >> THEN t.pc + i.n
                     ELSE AfterIt(t.pc + i.n, Tail(t.it), t.z)

PlanArm(t, hold) ==
    LET i == Seen(t.pc)
    IN CASE i.op = "unreadable" \/ (hold /\ MayBlock(i)) -> Refuse
         [] ArmStartsExclusive(i) ->
              IF Passed(i.cond, t.z) THEN ExclusiveSequence(t, hold) ELSE t.pc + i.n
         [] ArmDirectStep(i, t) # NotThis -> ArmDirectStep(i, t)
         [] i.op = "ldm" /\ Passed(i.cond, t.z) -> SetTarget(WordAt(i.to), t.pc)
         [] ArmLoadPc(i, t) # NotThis -> ArmLoadPc(i, t)
         [] ArmMayWritePc(i) /\ Passed(i.cond, t.z) -> Refuse
         [] OTHER -> t.pc + i.n

Plan(t, hold) == IF Prog.thumb THEN PlanThumb(t, hold) ELSE PlanArm(t, hold)

----------------------------------------------------------------------------
(* Threads, selection and resume plans.                                    *)

Alive == {t \in Threads : th[t].live}

\* uvdb_inventory after a refresh: the stopped thread first, then the kernel's list.
Inventory(stopped) ==
    LET listed == SetToSortSeq(Alive, <)
    IN IF stopped \in Alive THEN <<stopped>> \o SelectSeq(listed, LAMBDA t : t # stopped)
       ELSE listed

Present(id) == id \in Alive

\* A selector that names a vanished thread resolves to nothing.
ResolveSelector(id) ==
    IF id > 0 THEN (IF Present(id) THEN id ELSE AllThreads)
    ELSE IF sel.stopped > 0 /\ Present(sel.stopped) THEN sel.stopped
    ELSE Inventory(sel.stopped)[1]

\* uvdb_thread_selection_plan_legacy: {} when it refuses.
PlanLegacy(stepping) ==
    IF \/ sel.resume > 0 /\ (~stepping \/ sel.resume # sel.stopped)
       \/ stepping /\ sel.resume = AllThreads /\ Cardinality(Alive) > 1
       \/ ResolveSelector(sel.resume) <= 0
      THEN {}
      ELSE {[kind |-> IF stepping THEN "step" ELSE "continue",
             thread |-> IF stepping THEN ResolveSelector(sel.resume) ELSE AllThreads,
             alone |-> sel.resume > 0]}

ActionMatches(a, t) ==
    a.thread = AllThreads \/ (IF a.thread = AnyThread THEN t = Inventory(sel.stopped)[1] ELSE a.thread = t)

\* Each visible thread takes its first matching action; at most one may step.
ParseVCont(actions) ==
    LET matching(t) == {k \in DOMAIN actions : ActionMatches(actions[k], t)}
        steppers == {t \in Alive : /\ matching(t) # {}
                                   /\ actions[Min(matching(t))].kind = "step"}
    IN IF \/ \E k \in DOMAIN actions : actions[k].thread > 0 /\ ~Present(actions[k].thread)
          \/ \E t \in Alive : matching(t) = {}
          \/ Cardinality(steppers) > 1
         THEN {}
         ELSE {[kind |-> IF steppers = {} THEN "continue" ELSE "step",
                thread |-> IF steppers = {} THEN AllThreads ELSE CHOOSE t \in steppers : TRUE,
                alone |-> FALSE]}

\* uvdb_resume_plan_validate.
Valid(plan, jump) ==
    plan.alone => plan.kind = "step" /\ jump = AllThreads /\ plan.thread > 0 /\ plan.thread = exc

----------------------------------------------------------------------------
(* The client, while the target is stopped.                                *)

\* breakpoint_insert_internal: an address that is already patched is kept as it is.
Insert(at, owner) ==
    IF at \in DOMAIN points THEN {points}
    ELSE IF Cardinality(DOMAIN points) < MaxPoints
    THEN {[a \in DOMAIN points \cup {at} |-> IF a = at THEN owner ELSE points[a]]}
    ELSE {}

Ids(plan) == IF plan.alone THEN {plan.thread} ELSE Threads

\* uvdb_apply_resume_plan, and uvdb_finish_resume_packet when it succeeds.
Apply(plan, jump, asked) ==
    LET from == IF jump = AllThreads THEN th[plan.thread] ELSE [th[plan.thread] EXCEPT !.pc = jump]
        at == Plan(from, plan.alone)
        patched == IF plan.kind = "continue" THEN {points}
                   ELSE IF at = Refuse THEN {} ELSE Insert(at, "temp")
    IN IF Valid(plan, jump) /\ patched # {}
         THEN /\ points' \in patched
              /\ runs' = Ids(plan)
              /\ th' = IF jump = AllThreads THEN th ELSE [th EXCEPT ![exc].pc = jump]
              /\ sel' = [sel EXCEPT !.stopped = AllThreads]
              /\ step' = IF plan.kind = "continue" THEN NoStep
                         ELSE [thread |-> plan.thread, alone |-> plan.alone, phase |-> "none"]
              /\ ghost' = [ghost EXCEPT !.asked = asked, !.read = 0]
              /\ exc' = AllThreads
              /\ UNCHANGED <<prog, mem>>
         ELSE /\ ghost' = [ghost EXCEPT !.read = 0]
              /\ UNCHANGED <<prog, th, mem, points, sel, exc, runs, step>>

Refused ==
    /\ ghost' = [ghost EXCEPT !.read = 0]
    /\ UNCHANGED <<prog, th, mem, points, sel, exc, runs, step>>

\* H: the answer is OK only for a thread of the inventory, or none in particular.
Select(p) ==
    /\ p.id <= 0 \/ Present(p.id)
    /\ sel' = IF p.op = "g" THEN [sel EXCEPT !.general = p.id] ELSE [sel EXCEPT !.resume = p.id]
    /\ ghost' = [IF p.op = "g" THEN [ghost EXCEPT !.hg = p.id] ELSE [ghost EXCEPT !.hc = p.id]
                 EXCEPT !.read = 0]
    /\ UNCHANGED <<prog, th, mem, points, exc, runs, step>>

\* g and p: the registers of the thread the general selector names.
Read(p) ==
    /\ ghost' = [ghost EXCEPT !.read = ResolveSelector(sel.general)]
    /\ UNCHANGED <<prog, th, mem, points, sel, exc, runs, step>>

\* c and s, with the address of a jump or AllThreads.
Legacy(p) ==
    LET plans == PlanLegacy(p.stepping)
        jumps == p.jump = AllThreads \/ ResolveSelector(sel.resume) = exc
        asked == IF ghost.hc > 0 THEN ghost.hc ELSE sel.stopped
    IN IF plans # {} /\ jumps
         THEN \E plan \in plans :
                Apply(plan, p.jump, IF p.stepping THEN {asked} ELSE {})
         ELSE Refused

VCont(p) ==
    LET first(t) == Min({k \in DOMAIN p.actions :
                           \/ p.actions[k].thread \in {AllThreads, t}
                           \/ p.actions[k].thread = AnyThread /\ t = sel.stopped})
        plans == ParseVCont(p.actions)
    IN IF plans # {}
         THEN \E plan \in plans :
                Apply(plan, AllThreads, {t \in Alive : p.actions[first(t)].kind = "step"})
         ELSE Refused

\* Z0 and z0, at an instruction as long as the trap that replaces it.
SetPoint(p) ==
    /\ p.at \in DOMAIN Prog.code /\ (Prog.thumb => Prog.code[p.at].n = 1)
    /\ points' \in Insert(p.at, "client")
    /\ ghost' = [ghost EXCEPT !.want = @ \cup {p.at}, !.read = 0]
    /\ UNCHANGED <<prog, th, mem, sel, exc, runs, step>>

ClearPoint(p) ==
    /\ p.at \in DOMAIN points
    /\ points' = [a \in DOMAIN points \ {p.at} |-> points[a]]
    /\ ghost' = [ghost EXCEPT !.want = @ \ {p.at}, !.read = 0]
    /\ UNCHANGED <<prog, th, mem, sel, exc, runs, step>>

Client(p) ==
    /\ runs = {} /\ p \in Packets
    /\ \/ p.kind = "H" /\ Select(p)
       \/ p.kind = "g" /\ Read(p)
       \/ p.kind = "legacy" /\ Legacy(p)
       \/ p.kind = "vCont" /\ VCont(p)
       \/ p.kind = "Z" /\ SetPoint(p)
       \/ p.kind = "z" /\ ClearPoint(p)

----------------------------------------------------------------------------
(* The threads and the exception handler.                                  *)

Skipped(t) == th[t].it # << >> /\ ~Passed(Head(th[t].it), th[t].z)

\* How far the step has come: one instruction, or one exclusive sequence.
Phase(t, i) ==
    IF t # step.thread \/ step.phase = "raced" THEN step.phase
    ELSE CASE step.phase = "none" -> IF i.op = "ldrex" THEN "open" ELSE "done"
           [] step.phase = "open" ->
                IF i.op \in {"strex", "clrex"} THEN "done"
                ELSE IF i.op \in {"b", "cbz", "pop", "tbb", "ldm", "ldr", "rfe", "svc", "ldrex"}
                  THEN "over" ELSE "open"
           [] OTHER -> "over"

\* A thread executes the instruction at its PC; SVC returns only if peers run.
Exec(t) ==
    /\ t \in runs /\ th[t].live
    /\ th[t].pc \in DOMAIN Prog.code
    /\ th[t].pc \in DOMAIN points => Skipped(t)
    /\ LET me == th[t]
           i == Prog.code[me.pc]
           runsIt == ~Skipped(t) /\ Passed(i.cond, me.z)
           next == IF ~runsIt THEN me.pc + Seen(me.pc).n
                   ELSE IF i.op \in {"b", "cbz", "rfe"} THEN i.to
                   ELSE IF i.op \in {"pop", "tbb", "ldm", "ldr"} THEN WordAt(i.to)
                   ELSE me.pc + i.n
       IN /\ (runsIt /\ i.op = "svc") => runs = Threads
          /\ th' = [th EXCEPT ![t] =
               [pc |-> next, live |-> TRUE,
                z |-> IF ~runsIt THEN me.z
                      ELSE IF i.op = "cmp" THEN ~me.z
                      ELSE IF i.op = "strex" THEN me.mon ELSE me.z,
                mon |-> IF ~runsIt THEN me.mon
                        ELSE i.op = "ldrex" \/ (me.mon /\ i.op \notin {"strex", "clrex"}),
                it |-> IF me.it # << >> THEN Tail(me.it)
                       ELSE IF i.op = "it" THEN i.to ELSE << >>]]
          /\ mem' = IF runsIt /\ i.op = "poke" THEN [mem EXCEPT ![i.to] = Prog.alt[i.to]] ELSE mem
          /\ step' = [step EXCEPT !.phase =
               IF step.thread > 0 /\ step.thread # t /\ mem' # mem THEN "raced"
               ELSE IF Skipped(t) THEN @ ELSE Phase(t, i)]
          /\ UNCHANGED <<prog, points, sel, exc, runs, ghost>>

\* uvdb_exception: the target stops, the inventory is refreshed, temporary
\* traps are removed.  The exception also clears every exclusive monitor.
Stop(t) ==
    /\ exc' = t
    /\ sel' = [sel EXCEPT !.stopped =
                 IF t = Controller THEN Inventory(AllThreads)[1] ELSE t]
    /\ points' = [a \in {p \in DOMAIN points : points[p] # "temp"} |-> points[a]]
    /\ th' = [u \in Threads |-> [th[u] EXCEPT !.mon = FALSE]]
    /\ runs' = {}
    /\ step' = NoStep
    /\ ghost' = [ghost EXCEPT !.asked = {}]
    /\ UNCHANGED <<prog, mem>>

Trap(t) ==
    /\ t \in runs /\ th[t].live
    /\ th[t].pc \in DOMAIN points => ~Skipped(t)
    /\ th[t].pc \in DOMAIN points \/ th[t].pc \notin DOMAIN Prog.code
    /\ Stop(t)

Interrupt ==
    /\ runs = Threads
    /\ Stop(Controller)

Exit(t) ==
    /\ runs = Threads /\ th[t].live /\ Alive # {t}
    /\ th' = [th EXCEPT ![t].live = FALSE, ![t].mon = FALSE, ![t].it = << >>]
    /\ step' = IF t = step.thread THEN NoStep ELSE step
    /\ ghost' = IF t = step.thread THEN [ghost EXCEPT !.asked = {}] ELSE ghost
    /\ UNCHANGED <<prog, mem, points, sel, exc, runs>>

Init ==
    /\ prog \in DOMAIN Programs
    /\ th = [t \in Threads |-> [pc |-> Prog.entry[t], z |-> FALSE, it |-> << >>,
                                mon |-> FALSE, live |-> TRUE]]
    /\ mem = Prog.mem
    /\ points = [a \in {} |-> "temp"]
    /\ exc \in {Controller} \cup Threads
    /\ sel = [stopped |-> IF exc = Controller THEN Min(Threads) ELSE exc,
              general |-> AnyThread, resume |-> AllThreads]
    /\ runs = {}
    /\ step = NoStep
    /\ ghost = [hc |-> AllThreads, hg |-> AnyThread, read |-> 0, asked |-> {}, want |-> {}]

Next ==
    \/ \E p \in Packets : Client(p)
    \/ \E t \in Threads : Exec(t) \/ Trap(t) \/ Exit(t)
    \/ Interrupt

Spec == Init /\ [][Next]_vars

\* A runnable thread runs, and the client goes on sending its packets.
FairSpec ==
    /\ Spec
    /\ \A t \in Threads : WF_vars(Exec(t)) /\ WF_vars(Trap(t))
    /\ \A p \in Packets : WF_vars(Client(p))

----------------------------------------------------------------------------
(* Properties.                                                             *)

\* The state is well formed and no more traps are placed than there are slots
\* (breakpoint_insert_internal).
TypeOK ==
    /\ DOMAIN points \subseteq Nat /\ Range(points) \subseteq {"client", "temp"}
    /\ Cardinality(DOMAIN points) <= MaxPoints
    /\ runs \subseteq Threads /\ Alive # {}
    /\ sel.stopped \in {AllThreads} \cup Threads
    /\ sel.general \in {AllThreads, AnyThread} \cup Threads
    /\ sel.resume \in {AllThreads, AnyThread} \cup Threads
    /\ exc \in {AllThreads, Controller} \cup Threads
    /\ step.phase \in {"none", "open", "done", "over", "raced"}

\* A step executes one instruction, or one exclusive sequence from its load to
\* just after its store, and the trap is there: the thread never runs on, unless
\* a peer changed the word its target was read from (breakpoint_insert_step).
StepExact == step.phase # "over"

\* Only the thread the client named is stepped, a step the client addressed to
\* one thread lets no other run, and registers read for a named thread are its
\* own: a selector whose thread has exited is never widened
\* (uvdb_thread_selection_reconcile, resolve_selector, uvdb_rsp_parse_vcont).
AskedIsServed ==
    /\ step.thread > 0 => ghost.asked = {step.thread}
    /\ step.alone => runs = {step.thread}
    /\ (ghost.read > 0 /\ ghost.hg > 0) => ghost.read = ghost.hg

\* The client's breakpoints survive the steps that land on them, and no
\* temporary trap survives a stop (breakpoint_remove_temporary).
PointsKept ==
    /\ {a \in DOMAIN points : points[a] = "client"} = ghost.want
    /\ runs = {} => DOMAIN points = ghost.want

\* A step with the peers suspended ends: nothing it lets the thread execute can
\* wait for a peer (uvdb_step_instruction_may_block).
RunsAlone == step.alone /\ runs # {}
AloneEnds == []<>~RunsAlone

\* A client that keeps stepping the stopped thread alone gets it out of a
\* load-exclusive/store-exclusive retry loop (breakpoint_insert_exclusive_sequence).
Retries(t) == th[t].pc \in Prog.loop /\ (exc = t \/ runs = {t})
LeavesRetryLoop == \A t \in Threads : []<>~Retries(t)

=============================================================================
