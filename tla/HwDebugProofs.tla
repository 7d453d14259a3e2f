--------------------------- MODULE HwDebugProofs ---------------------------
(***************************************************************************)
(* The hardware-debug engine with its pinned workers, for any number of     *)
(* cores, points, processes, leases and faults: what it leaves behind, what *)
(* it tells its owner, and that each of its calls is one step of HwEngine.  *)
(***************************************************************************)
EXTENDS HwDebug, WellFoundedInduction, TLAPS

-----------------------------------------------------------------------------
(* The inductive invariant *)

Kinds == {"none", "claim", "apply", "restore"}
Sessions == [active : BOOLEAN, pid : Procs \cup {NoProc}, tok : 0 .. MaxHwToken,
             deadline : 0 .. MaxTime, points : SUBSET Points]
Befores == [session : Sessions, ready : BOOLEAN, known : {"saved", "armed", "torn"},
            nextHw : 1 .. MaxHwToken + 1]

Types == TypeOK /\ before \in Befores

(* One command at a time: a worker that is awake, or will be, belongs to the *)
(* command in flight and has not completed it.                              *)
Awake(c) == event[c] \/ worker[c].pc \in {"woken", "chosen", "ran"}

Commands ==
    /\ op.pc \in {"events", "await"} => cmd.inflight /\ cmd.kind = op.kind
    /\ op.pc = "events" <=> op.unset # {}
    /\ op.unset \cap cmd.complete = {}
    /\ cmd.inflight => cmd.kind # "none"
    /\ op.pc \in {"idle", "dispatch"} /\ cmd.inflight => ~ready
    /\ \A c \in Cores :
          /\ Awake(c) => cmd.inflight /\ c \notin cmd.complete /\ c \notin op.unset
          /\ worker[c].pc \in {"woken", "chosen", "ran"} => ~event[c]
          /\ worker[c].pc \in {"chosen", "ran"} => worker[c].gen = cmd.gen
          /\ worker[c].pc = "ran" => worker[c].kind = cmd.kind

(* The command went well on core c. *)
WentWell(c) ==
    \/ c \in cmd.complete /\ cmd.result[c] = "ok"
    \/ worker[c].pc = "ran" /\ worker[c].res = "ok"

(* What the comparators of a core carry. *)
CoreSound(c) ==
    /\ ~snapshot[c] => regs[c] = {}
    /\ cmd.inflight /\ WentWell(c) =>
          /\ cmd.kind = "restore" => regs[c] = {}
          /\ cmd.kind = "claim" => regs[c] = {} /\ snapshot[c]
          /\ cmd.kind = "apply" => regs[c] = session.points /\ snapshot[c]
    /\ cmd.inflight /\ cmd.kind = "claim" /\ c \notin cmd.complete /\ worker[c].pc # "ran" =>
          ~snapshot[c]

(* The call that holds the lock, and what it found when it took it. *)
Acquiring ==
    /\ before.session = NoSession /\ before.ready /\ before.known = "saved" /\ known = "saved"
    /\ nextHw = before.nextHw + 1 /\ session.tok = before.nextHw /\ session.points = {}
    /\ op.lease \in HwLeases /\ clock + op.lease <= MaxTime
    /\ session.deadline - op.lease \in 0 .. clock
    /\ op.kind \in {"claim", "restore"}
    /\ op.kind = "claim" => ready
    /\ op.kind = "claim" /\ op.pc = "dispatch" => \A c \in Cores : ~snapshot[c]

Updating ==
    /\ before.session.active /\ before.session.deadline > 0
    /\ session = [before.session EXCEPT !.points = session.points]
    /\ before.known = known /\ known # "torn" /\ nextHw = before.nextHw
    /\ op.lease = 0
    /\ \/ op.kind = "apply" /\ op.first = "none" /\ ready = before.ready
       \/ op.kind = "restore" /\ op.first \notin {"none", "ok"}

RestoringOnly ==
    /\ before.session = session /\ before.known = known /\ nextHw = before.nextHw
    /\ op.kind = "restore" /\ op.first = "none" /\ ready = before.ready
    /\ op.lease = 0

CallSound ==
    /\ op.pc = "idle" => op = Unlocked
    /\ op.pc # "idle" =>
          /\ session.active
          /\ CASE op.call = "acquire" -> Acquiring
               [] op.call = "update" -> Updating
               [] OTHER -> RestoringOnly

(* Sessions, and what outlives a call that timed out. *)
SessionSound ==
    /\ session.active => session.pid \in Procs /\ session.tok > 0
    /\ op.pc = "idle" /\ ~session.active =>
          session = NoSession /\ known = "saved" /\ ~cmd.inflight
                /\ \A c \in Cores : regs[c] = {}
    /\ cmd.inflight /\ cmd.kind = "apply" => session.points = payload
    /\ cmd.inflight /\ cmd.kind = "apply" /\ op.pc \in {"idle", "dispatch"} =>
          \/ known = "torn"
          \/ op.call = "update" /\ op.kind = "restore"

Inv ==
    /\ Types
    /\ Commands
    /\ \A c \in Cores : CoreSound(c)
    /\ CallSound
    /\ SessionSound
    /\ ToldTheTruth

-----------------------------------------------------------------------------
(* A set of cores has a least one. *)
LEMMA MinIs ==
    ASSUME NEW S, S \subseteq Nat, S # {}
    PROVE  Min(S) \in S
  <1>1. PICK x \in S : \A y \in S : ~ (<<y, x>> \in OpToRel(<, Nat))
    BY NatLessThanWellFounded, WFMin, Zenon
  <1>2. \A y \in S : ~ (y < x)
    BY <1>1, Zenon DEF OpToRel
  <1>3. \A y \in S : x <= y
    BY <1>2
  <1> QED
    BY <1>1, <1>3, Zenon DEF Min

(* finish_inflight_command says "ok" only when every core did. *)
LEMMA ResultOk ==
    ASSUME HwConstants, CommandResult = "ok"
    PROVE  \A c \in Cores : cmd.result[c] = "ok"
  <1> DEFINE failed == {c \in Cores : cmd.result[c] # "ok"}
  <1>1. CASE failed = {}
    BY <1>1, Zenon
  <1>2. CASE failed # {}
    <2>1. failed \subseteq Nat
      BY DEF HwConstants, Cores
    <2>2. Min(failed) \in failed
      BY <1>2, <2>1, MinIs, Zenon
    <2>3. CommandResult = cmd.result[Min(failed)]
      BY <1>2, Zenon DEF CommandResult
    <2> QED
      BY <2>2, <2>3, Zenon
  <1> QED
    BY <1>1, <1>2, Zenon

LEMMA ResultType ==
    ASSUME HwConstants, TypeOK
    PROVE  CommandResult \in Results
  <1> DEFINE failed == {c \in Cores : cmd.result[c] # "ok"}
  <1>0. cmd.result \in [Cores -> Results]
    BY Zenon DEF TypeOK
  <1>1. CASE failed = {}
    BY <1>1, Zenon DEF CommandResult, Results
  <1>2. CASE failed # {}
    <2>1. failed \subseteq Nat
      BY DEF HwConstants, Cores
    <2>2. Min(failed) \in failed
      BY <1>2, <2>1, MinIs, Zenon
    <2>3. CommandResult = cmd.result[Min(failed)]
      BY <1>2, Zenon DEF CommandResult
    <2> QED
      BY <1>0, <2>2, <2>3, Zenon
  <1> QED
    BY <1>1, <1>2, Zenon

-----------------------------------------------------------------------------
(* The pinned workers *)

Workers == [pc : {"wait", "woken", "chosen", "ran", "gone"},
            seen : 0 .. LastGen, gen : 0 .. LastGen, kind : Kinds, res : Results]

(* Worker c becomes w and the others stay as they are. *)
Becomes(c, w) ==
    /\ worker' \in [Cores -> Workers] /\ worker'[c] = w
    /\ \A d \in Cores \ {c} : worker'[d] = worker[d]

LEMMA WorkerBecomes ==
    ASSUME TypeOK, NEW c \in Cores, NEW w \in Workers, worker' = [worker EXCEPT ![c] = w]
    PROVE  Becomes(c, w)
  BY Zenon DEF TypeOK, Workers, Kinds, Becomes

LEMMA AsleepType ==
    ASSUME NEW n \in 0 .. LastGen, HwConstants
    PROVE  Asleep(n) \in Workers /\ Asleep(n).pc = "wait"
  BY DEF Asleep, Workers, Kinds, Results, HwConstants

LEMMA PcType ==
    ASSUME TypeOK, NEW c \in Cores, NEW pc \in {"wait", "woken", "chosen", "ran", "gone"}
    PROVE  /\ [worker[c] EXCEPT !.pc = pc] \in Workers
           /\ [worker[c] EXCEPT !.pc = pc].pc = pc
           /\ [worker[c] EXCEPT !.pc = pc].gen = worker[c].gen
           /\ [worker[c] EXCEPT !.pc = pc].kind = worker[c].kind
           /\ [worker[c] EXCEPT !.pc = pc].res = worker[c].res
  <1>1. worker[c] \in Workers
    BY Zenon DEF TypeOK, Workers, Kinds
  <1> QED
    BY <1>1, Zenon DEF Workers

(* What no worker touches. *)
CallersState == <<clock, session, ready, nextHw, op, stopping, known, before, payload>>

(* A worker that runs nothing: it wakes, goes back to sleep, chooses the    *)
(* command in flight or is gone.                                            *)
LEMMA WorkerQuiet ==
    ASSUME Inv, NEW c \in Cores, NEW w, Becomes(c, w),
           UNCHANGED CallersState, UNCHANGED <<regs, snapshot, cmd>>,
           worker[c].pc # "ran", w.pc # "ran",
           w.pc \in {"woken", "chosen"} => Awake(c) /\ ~event'[c],
           w.pc = "chosen" => w.gen = cmd.gen,
           event' \in [Cores -> BOOLEAN], \A d \in Cores : event'[d] => event[d],
           faults' \in 0 .. MaxFaults
    PROVE  Inv'
  <1> USE DEF CallersState
  <1>1. Types'
    BY DEF Inv, Types, TypeOK, Becomes, Workers, Kinds
  <1>2. Commands'
    <2>1. \A d \in Cores : Awake(d)' => Awake(d)
      BY Zenon DEF Awake, Becomes
    <2> QED
      BY <2>1 DEF Inv, Commands, Becomes
  <1>3. \A d \in Cores : CoreSound(d)'
    <2> TAKE d \in Cores
    <2>1. CoreSound(d)
      BY Zenon DEF Inv
    <2>2. WentWell(d)' => WentWell(d)
      BY Zenon DEF WentWell, Becomes
    <2>3. worker'[d].pc # "ran" => worker[d].pc # "ran"
      BY Zenon DEF Becomes
    <2> QED
      BY <2>1, <2>2, <2>3, Zenon DEF CoreSound
  <1>4. CallSound'
    BY Zenon DEF Inv, CallSound, Acquiring, Updating, RestoringOnly
  <1>5. SessionSound'
    BY Zenon DEF Inv, SessionSound
  <1>6. ToldTheTruth'
    BY Zenon DEF Inv, ToldTheTruth
  <1> QED
    BY <1>1, <1>2, <1>3, <1>4, <1>5, <1>6, Zenon DEF Inv

LEMMA SpendType ==
    ASSUME TypeOK, HwConstants, NEW bad, Spend(bad)
    PROVE  faults' \in 0 .. MaxFaults
  BY DEF TypeOK, HwConstants, Spend

LEMMA QuietSteps ==
    ASSUME HwConstants, Inv, NEW c \in Cores,
           WorkerWakes(c) \/ WorkerDies(c) \/ WorkerStops(c) \/ WorkerChooses(c)
    PROVE  Inv'
  <1>t. /\ TypeOK /\ worker[c] \in Workers /\ event \in [Cores -> BOOLEAN]
        /\ faults \in 0 .. MaxFaults /\ worker \in [Cores -> Workers]
        /\ cmd.gen \in 0 .. LastGen
    BY Zenon DEF Inv, Types, TypeOK, Workers, Kinds
  <1>u. UNCHANGED CallersState /\ UNCHANGED <<regs, snapshot, cmd>>
    BY Zenon DEF WorkerWakes, WorkerDies, WorkerStops, WorkerChooses, WorkerKept, CallersState
  <1>1. CASE WorkerWakes(c)
    <2>1. worker' = [worker EXCEPT ![c] = [worker[c] EXCEPT !.pc = "woken"]]
      BY <1>1, <1>t, Zenon DEF WorkerWakes
    <2>2. Becomes(c, [worker[c] EXCEPT !.pc = "woken"])
      BY <1>t, <2>1, PcType, WorkerBecomes, Zenon
    <2>3. worker[c].pc = "wait" /\ Awake(c) /\ event' = [event EXCEPT ![c] = FALSE]
          /\ UNCHANGED faults
      BY <1>1, Zenon DEF WorkerWakes, Awake
    <2> QED
      BY <1>t, <1>u, <2>2, <2>3, PcType, WorkerQuiet, Zenon
  <1>2. CASE WorkerDies(c) \/ WorkerStops(c)
    <2>1. worker' = [worker EXCEPT ![c] = [worker[c] EXCEPT !.pc = "gone"]]
      BY <1>2, <1>t, Zenon DEF WorkerDies, WorkerStops
    <2>2. Becomes(c, [worker[c] EXCEPT !.pc = "gone"])
      BY <1>t, <2>1, PcType, WorkerBecomes, Zenon
    <2>3. worker[c].pc \in {"wait", "woken"} /\ UNCHANGED event /\ faults' \in 0 .. MaxFaults
      BY <1>2, <1>t, SpendType, Zenon DEF WorkerDies, WorkerStops
    <2> QED
      BY <1>t, <1>u, <2>2, <2>3, PcType, WorkerQuiet, Zenon
  <1>3. CASE WorkerChooses(c)
    <2>0. worker[c].pc = "woken" /\ UNCHANGED <<event, faults>> /\ Awake(c) /\ ~event[c]
      BY <1>3, Zenon DEF WorkerChooses, Awake, Inv, Commands
    <2>1. CASE cmd.gen = worker[c].seen
      <3>1. worker' = [worker EXCEPT ![c] = Asleep(worker[c].seen)]
        BY <1>3, <1>t, <2>1, Zenon DEF WorkerChooses
      <3>2. worker[c].seen \in 0 .. LastGen
        BY <1>t, Zenon DEF Workers
      <3>3. Becomes(c, Asleep(worker[c].seen))
        BY <1>t, <3>1, <3>2, AsleepType, WorkerBecomes, Zenon
      <3> QED
        BY <1>t, <1>u, <2>0, <3>2, <3>3, AsleepType, WorkerQuiet, Zenon
    <2>2. CASE cmd.gen # worker[c].seen
      <3> DEFINE w == [worker[c] EXCEPT !.pc = "chosen", !.gen = cmd.gen]
      <3>1. worker' = [worker EXCEPT ![c] = w]
        BY <1>3, <1>t, <2>2, Zenon DEF WorkerChooses
      <3>2. w \in Workers /\ w.pc = "chosen" /\ w.gen = cmd.gen
        BY <1>t, Zenon DEF Workers
      <3> HIDE DEF w
      <3>3. Becomes(c, w)
        BY <1>t, <3>1, <3>2, WorkerBecomes, Zenon
      <3> QED
        BY <1>t, <1>u, <2>0, <3>2, <3>3, WorkerQuiet, Zenon
    <2> QED
      BY <2>1, <2>2, Zenon
  <1> QED
    BY <1>1, <1>2, <1>3, Zenon

LEMMA OutcomeIs ==
    ASSUME NEW r, NEW s, NEW res, NEW bad
    PROVE  LET x == Outcome(r, s, res, bad) IN x.regs = r /\ x.snap = s /\ x.res = res
  BY Zenon DEF Outcome

(* What execute_command leaves on a core. *)
LEMMA Executed ==
    ASSUME HwConstants, Inv, NEW c \in Cores, worker[c].pc = "chosen",
           NEW o \in ExecuteCommand(c, cmd.kind)
    PROVE  /\ o.regs \in (SUBSET Points) \cup {Torn} /\ o.snap \in BOOLEAN /\ o.res \in Results
           /\ ~o.snap => o.regs = {}
           /\ o.res = "ok" =>
                 /\ cmd.kind = "restore" => o.regs = {}
                 /\ cmd.kind = "claim" => o.regs = {} /\ o.snap
                 /\ cmd.kind = "apply" => o.regs = session.points /\ o.snap
  <1> DEFINE yes == TRUE
             no == FALSE
  <1>y. yes /\ yes \in BOOLEAN /\ ~no /\ no \in BOOLEAN
    BY Zenon
  <1>t. /\ session.points \in SUBSET Points /\ regs[c] \in (SUBSET Points) \cup {Torn}
        /\ snapshot[c] \in BOOLEAN /\ cmd.kind \in Kinds
    BY Zenon DEF Inv, Types, TypeOK, Kinds
  <1>p. cmd.inflight /\ c \notin cmd.complete /\ cmd.kind # "none"
    BY Zenon DEF Inv, Commands, Awake
  <1>s. /\ ~snapshot[c] => regs[c] = {}
        /\ cmd.kind = "claim" => regs[c] = {}
    BY <1>p, Zenon DEF Inv, CoreSound
  <1>0. {} \in (SUBSET Points) \cup {Torn} /\ Torn \in (SUBSET Points) \cup {Torn}
    BY Zenon
  <1> HIDE DEF yes, no
  <1>1. ASSUME NEW x \in RestoreCore(c)
        PROVE  /\ x.regs \in (SUBSET Points) \cup {Torn} /\ x.snap = snapshot[c] /\ x.res \in Results
               /\ ~x.snap => x.regs = {}
               /\ x.res = "ok" => x.regs = {}
    <2>1. CASE ~snapshot[c]
      <3>1. x = Outcome(regs[c], no, "ok", no)
        BY <1>1, <2>1, Zenon DEF RestoreCore, yes, no
      <3>2. x.regs = regs[c] /\ ~x.snap /\ x.res = "ok" /\ x.snap \in BOOLEAN
        BY <1>y, <3>1, OutcomeIs
      <3> QED
        BY <1>t, <1>s, <2>1, <3>2, Zenon DEF Results
    <2>2. CASE snapshot[c]
      <3>1. \/ x = Outcome({}, yes, "ok", no) \/ x = Outcome(Torn, yes, "restore", yes)
            \/ x = Outcome(regs[c], yes, "core", yes)
        BY <1>1, <2>2, Zenon DEF RestoreCore, yes, no
      <3>2. /\ x.snap = yes
            /\ \/ x.regs = {} /\ x.res = "ok"
               \/ x.regs = Torn /\ x.res = "restore"
               \/ x.regs = regs[c] /\ x.res = "core"
        BY <3>1, OutcomeIs
      <3> QED
        BY <1>y, <1>t, <1>0, <2>2, <3>2, Zenon DEF Results
    <2> QED
      BY <2>1, <2>2, Zenon
  <1>2. CASE cmd.kind = "restore"
    <2>1. o \in RestoreCore(c)
      BY <1>2, Zenon DEF ExecuteCommand
    <2> QED
      BY <1>1, <1>2, <1>t, <2>1, Zenon
  <1>3. CASE cmd.kind = "claim"
    <2>1. o \in ClaimCore(c)
      BY <1>3, Zenon DEF ExecuteCommand
    <2>2. \/ o = Outcome(regs[c], yes, "ok", no) \/ o = Outcome(regs[c], no, "busy", yes)
          \/ o = Outcome(regs[c], no, "core", yes) \/ o = Outcome({}, yes, "core", yes)
          \/ o = Outcome(Torn, yes, "restore", yes)
      BY <2>1, Zenon DEF ClaimCore, yes, no
    <2>3. /\ o.snap = yes \/ o.snap = no
          /\ \/ o.regs = regs[c] /\ o.snap = yes /\ o.res = "ok"
             \/ o.regs = regs[c] /\ o.res = "busy"
             \/ o.regs = regs[c] /\ o.res = "core"
             \/ o.regs = {} /\ o.res = "core"
             \/ o.regs = Torn /\ o.snap = yes /\ o.res = "restore"
      BY <2>2, OutcomeIs
    <2> QED
      BY <1>y, <1>3, <1>t, <1>s, <1>0, <2>3, Zenon DEF Results
  <1>4. CASE cmd.kind = "apply"
    <2>1. o \in ApplyCore(c)
      BY <1>4, Zenon DEF ExecuteCommand
    <2>2. CASE ~snapshot[c]
      <3>1. o = Outcome(regs[c], no, "core", no)
        BY <2>1, <2>2, Zenon DEF ApplyCore, yes, no
      <3> QED
        BY <1>4, <1>y, <1>t, <1>s, <2>2, <3>1, OutcomeIs DEF Results
    <2>3. CASE snapshot[c] /\ session.points = {}
      <3>1. o \in RestoreCore(c)
        BY <2>1, <2>3, Zenon DEF ApplyCore, yes, no
      <3> QED
        BY <1>1, <1>4, <2>3, <3>1, Zenon
    <2>4. CASE snapshot[c] /\ session.points # {}
      <3>1. o \in {Outcome(session.points, yes, "ok", no), Outcome({}, yes, "core", yes),
                   Outcome({}, yes, "busy", yes), Outcome(Torn, yes, "restore", yes),
                   Outcome(regs[c], yes, "core", yes)}
        BY <2>1, <2>4, Zenon DEF ApplyCore, yes, no
      <3>2. /\ o.snap = yes
            /\ \/ o.regs = session.points /\ o.res = "ok"
               \/ o.regs = {} /\ o.res = "core"
               \/ o.regs = {} /\ o.res = "busy"
               \/ o.regs = Torn /\ o.res = "restore"
               \/ o.regs = regs[c] /\ o.res = "core"
        BY <3>1, OutcomeIs
      <3> QED
        BY <1>y, <1>4, <1>t, <1>0, <3>2, Zenon DEF Results
    <2> QED
      BY <1>t, <2>2, <2>3, <2>4, Zenon
  <1> QED
    BY <1>t, <1>p, <1>2, <1>3, <1>4, Zenon DEF Kinds

LEMMA RunStep ==
    ASSUME HwConstants, Inv, NEW c \in Cores, WorkerRuns(c)
    PROVE  Inv'
  <1> USE DEF CallersState
  <1>t. /\ TypeOK /\ worker[c] \in Workers /\ worker \in [Cores -> Workers]
        /\ regs \in [Cores -> (SUBSET Points) \cup {Torn}] /\ snapshot \in [Cores -> BOOLEAN]
        /\ cmd.kind \in Kinds
    BY Zenon DEF Inv, Types, TypeOK, Workers, Kinds
  <1>u. UNCHANGED CallersState /\ UNCHANGED <<cmd, event>> /\ worker[c].pc = "chosen"
    BY Zenon DEF WorkerRuns, WorkerKept
  <1>p. cmd.inflight /\ c \notin cmd.complete /\ c \notin op.unset /\ worker[c].gen = cmd.gen
        /\ ~event[c]
    BY <1>u, Zenon DEF Inv, Commands, Awake
  <1>1. PICK o \in ExecuteCommand(c, cmd.kind) :
          /\ Spend(o.bad)
          /\ regs' = [regs EXCEPT ![c] = o.regs]
          /\ snapshot' = [snapshot EXCEPT ![c] = o.snap]
          /\ worker' = [worker EXCEPT ![c].pc = "ran", ![c].kind = cmd.kind, ![c].res = o.res]
    BY Zenon DEF WorkerRuns
  <1> DEFINE w == [worker[c] EXCEPT !.pc = "ran", !.kind = cmd.kind, !.res = o.res]
  <1>2. /\ o.regs \in (SUBSET Points) \cup {Torn} /\ o.snap \in BOOLEAN /\ o.res \in Results
        /\ ~o.snap => o.regs = {}
        /\ o.res = "ok" =>
              /\ cmd.kind = "restore" => o.regs = {}
              /\ cmd.kind = "claim" => o.regs = {} /\ o.snap
              /\ cmd.kind = "apply" => o.regs = session.points /\ o.snap
    BY <1>u, Executed, Zenon
  <1>3. worker' = [worker EXCEPT ![c] = w]
    BY <1>t, <1>1, Zenon
  <1>4. w \in Workers /\ w.pc = "ran" /\ w.kind = cmd.kind /\ w.res = o.res /\ w.gen = worker[c].gen
    BY <1>t, <1>2, Zenon DEF Workers
  <1> HIDE DEF w
  <1>5. Becomes(c, w)
    BY <1>t, <1>3, <1>4, WorkerBecomes, Zenon
  <1>6. /\ regs' \in [Cores -> (SUBSET Points) \cup {Torn}] /\ snapshot' \in [Cores -> BOOLEAN]
        /\ regs'[c] = o.regs /\ snapshot'[c] = o.snap
        /\ \A d \in Cores \ {c} : regs'[d] = regs[d] /\ snapshot'[d] = snapshot[d]
    BY <1>t, <1>1, <1>2, Zenon
  <1>7. faults' \in 0 .. MaxFaults
    BY <1>t, <1>1, SpendType, Zenon
  <1>11. Types'
    BY <1>u, <1>5, <1>6, <1>7 DEF Inv, Types, TypeOK, Becomes, Workers, Kinds
  <1>12. Commands'
    <2>1. \A d \in Cores : Awake(d)' => Awake(d)
      BY <1>u, <1>5, Zenon DEF Awake, Becomes
    <2> QED
      BY <1>u, <1>p, <1>4, <1>5, <2>1 DEF Inv, Commands, Becomes
  <1>13. ASSUME NEW d \in Cores PROVE CoreSound(d)'
    <2>1. CASE d = c
      BY <1>u, <1>p, <1>2, <1>4, <1>5, <1>6, <2>1, Zenon DEF CoreSound, WentWell, Becomes
    <2>2. CASE d # c
      <3>1. CoreSound(d)
        BY Zenon DEF Inv
      <3> QED
        BY <1>u, <1>5, <1>6, <2>2, <3>1, Zenon DEF CoreSound, WentWell, Becomes
    <2> QED
      BY <2>1, <2>2, Zenon
  <1>14. op.pc \in {"idle", "dispatch"} => ~ready
    BY <1>p, Zenon DEF Inv, Commands
  <1>15. CallSound'
    BY <1>u, <1>14, Zenon DEF Inv, CallSound, Acquiring, Updating, RestoringOnly
  <1>16. SessionSound'
    BY <1>u, <1>p, Zenon DEF Inv, SessionSound
  <1>17. ToldTheTruth'
    BY <1>u, <1>14, Zenon DEF ToldTheTruth
  <1> QED
    BY <1>11, <1>12, <1>13, <1>15, <1>16, <1>17, Zenon DEF Inv

(* A core reports the result of the command: by its worker, or by the caller *)
(* that could not set its event flag.                                       *)
Reports(c, res) ==
    /\ cmd' = [cmd EXCEPT !.result[c] = res, !.complete = @ \cup {c}]

LEMMA Reported ==
    ASSUME TypeOK, NEW c \in Cores, NEW res \in Results, Reports(c, res)
    PROVE  /\ cmd'.gen = cmd.gen /\ cmd'.kind = cmd.kind /\ cmd'.inflight = cmd.inflight
           /\ cmd'.complete = cmd.complete \cup {c} /\ cmd'.result \in [Cores -> Results]
           /\ cmd'.result[c] = res
           /\ \A d \in Cores \ {c} : cmd'.result[d] = cmd.result[d]
           /\ cmd' \in [gen : 0 .. LastGen, kind : {"none", "claim", "apply", "restore"},
                        inflight : BOOLEAN, complete : SUBSET Cores, result : [Cores -> Results]]
  <1> DEFINE r == [cmd.result EXCEPT ![c] = res]
             s == cmd.complete \cup {c}
  <1>1. /\ cmd \in [gen : 0 .. LastGen, kind : {"none", "claim", "apply", "restore"},
                    inflight : BOOLEAN, complete : SUBSET Cores, result : [Cores -> Results]]
        /\ cmd.result \in [Cores -> Results] /\ cmd.complete \in SUBSET Cores
    BY Zenon DEF TypeOK
  <1>2. cmd' = [cmd EXCEPT !.result = r, !.complete = s]
    BY <1>1, Zenon DEF Reports
  <1>3. /\ r \in [Cores -> Results] /\ r[c] = res /\ s \in SUBSET Cores
        /\ \A d \in Cores \ {c} : r[d] = cmd.result[d]
    BY <1>1, Zenon
  <1>4. s = cmd.complete \cup {c}
    BY Zenon
  <1> HIDE DEF r, s
  <1>5. /\ cmd'.gen = cmd.gen /\ cmd'.kind = cmd.kind /\ cmd'.inflight = cmd.inflight
        /\ cmd'.complete = s /\ cmd'.result = r
        /\ cmd' \in [gen : 0 .. LastGen, kind : {"none", "claim", "apply", "restore"},
                     inflight : BOOLEAN, complete : SUBSET Cores, result : [Cores -> Results]]
    BY <1>1, <1>2, <1>3, Zenon
  <1> QED
    BY <1>3, <1>4, <1>5, Zenon

LEMMA CompleteStep ==
    ASSUME HwConstants, Inv, NEW c \in Cores, WorkerCompletes(c)
    PROVE  Inv'
  <1> USE DEF CallersState
  <1>t. /\ TypeOK /\ worker[c] \in Workers /\ worker \in [Cores -> Workers]
        /\ worker[c].res \in Results /\ worker[c].gen \in 0 .. LastGen
    BY Zenon DEF Inv, Types, TypeOK, Workers, Kinds
  <1>u. UNCHANGED CallersState /\ UNCHANGED <<regs, snapshot, event, faults>>
        /\ worker[c].pc = "ran" /\ Reports(c, worker[c].res)
    BY Zenon DEF WorkerCompletes, WorkerKept, Reports
  <1>p. cmd.inflight /\ c \notin cmd.complete /\ c \notin op.unset /\ ~event[c]
    BY <1>u, Zenon DEF Inv, Commands, Awake
  <1>1. worker' = [worker EXCEPT ![c] = Asleep(worker[c].gen)]
    BY <1>t, Zenon DEF WorkerCompletes
  <1>2. Becomes(c, Asleep(worker[c].gen)) /\ worker'[c].pc = "wait"
    BY <1>t, <1>1, AsleepType, WorkerBecomes, Zenon DEF Becomes
  <1>3. /\ cmd'.gen = cmd.gen /\ cmd'.kind = cmd.kind /\ cmd'.inflight = cmd.inflight
        /\ cmd'.complete = cmd.complete \cup {c}
        /\ cmd'.result[c] = worker[c].res
        /\ \A d \in Cores \ {c} : cmd'.result[d] = cmd.result[d]
    BY <1>t, <1>u, Reported, Zenon
  <1>4. cmd' \in [gen : 0 .. LastGen, kind : {"none", "claim", "apply", "restore"},
                  inflight : BOOLEAN, complete : SUBSET Cores, result : [Cores -> Results]]
    BY <1>t, <1>u, Reported, Zenon
  <1>11. Types'
    BY <1>u, <1>2, <1>4 DEF Inv, Types, TypeOK, Becomes, Workers, Kinds
  <1>12. Commands'
    <2>1. \A d \in Cores : Awake(d)' => Awake(d) /\ d # c
      BY <1>u, <1>p, <1>2, Zenon DEF Awake, Becomes
    <2> QED
      BY <1>u, <1>p, <1>2, <1>3, <2>1 DEF Inv, Commands, Becomes
  <1>13. ASSUME NEW d \in Cores PROVE CoreSound(d)'
    <2>1. CoreSound(d)
      BY Zenon DEF Inv
    <2>2. WentWell(d)' => WentWell(d)
      BY <1>u, <1>2, <1>3, Zenon DEF WentWell, Becomes
    <2>3. d \notin cmd'.complete /\ worker'[d].pc # "ran" =>
              d \notin cmd.complete /\ worker[d].pc # "ran"
      BY <1>2, <1>3, Zenon DEF Becomes
    <2> QED
      BY <1>u, <1>3, <2>1, <2>2, <2>3, Zenon DEF CoreSound
  <1>14. CallSound'
    BY <1>u, Zenon DEF Inv, CallSound, Acquiring, Updating, RestoringOnly
  <1>15. SessionSound'
    BY <1>u, <1>3, Zenon DEF Inv, SessionSound
  <1>16. ToldTheTruth'
    BY <1>u, Zenon DEF Inv, ToldTheTruth
  <1> QED
    BY <1>11, <1>12, <1>13, <1>14, <1>15, <1>16, Zenon DEF Inv

-----------------------------------------------------------------------------
(* The call that holds the lock *)

CommandRecords == [gen : 0 .. LastGen, kind : {"none", "claim", "apply", "restore"},
              inflight : BOOLEAN, complete : SUBSET Cores, result : [Cores -> Results]]

Calls == [call : {"none", "acquire", "renew", "update", "release", "watchdog", "recover", "stop"},
          pc : {"idle", "dispatch", "events", "await"}, kind : Kinds,
          lease : HwLeases \cup {0}, first : Results \cup {"none"}, unset : SUBSET Cores]

LEMMA Landed ==
    ASSUME TypeOK, cmd' = [cmd EXCEPT !.inflight = FALSE]
    PROVE  /\ cmd' \in CommandRecords /\ ~cmd'.inflight
           /\ cmd'.complete = cmd.complete /\ cmd'.kind = cmd.kind /\ cmd'.gen = cmd.gen
  BY Zenon DEF TypeOK, CommandRecords

LEMMA SettleStep ==
    ASSUME HwConstants, Inv, Settle
    PROVE  Inv'
  <1>t. TypeOK
    BY Zenon DEF Inv, Types
  <1>u. /\ op.pc = "dispatch" /\ cmd.complete = Cores
        /\ UNCHANGED <<clock, callVars, regs, event, worker, faults, payload>>
    BY Zenon DEF Settle
  <1>1. /\ cmd' \in CommandRecords /\ ~cmd'.inflight
        /\ cmd'.complete = cmd.complete /\ cmd'.kind = cmd.kind /\ cmd'.gen = cmd.gen
    BY <1>t, Landed, Zenon DEF Settle
  <1>2. Types'
    BY <1>u, <1>1 DEF Inv, Types, TypeOK, CommandRecords, callVars
  <1>3. Commands'
    <2>1. \A c \in Cores : ~Awake(c)
      BY <1>u, Zenon DEF Inv, Commands
    <2> QED
      BY <1>u, <1>1, <2>1, Zenon DEF Inv, Commands, Awake, callVars
  <1>4. \A c \in Cores : CoreSound(c)'
    BY <1>u, <1>1, Zenon DEF Inv, CoreSound, callVars
  <1>5. CallSound'
    BY <1>u, Zenon DEF Inv, CallSound, Acquiring, Updating, RestoringOnly, callVars
  <1>6. SessionSound'
    BY <1>u, <1>1, Zenon DEF Inv, SessionSound, callVars
  <1>7. ToldTheTruth'
    BY <1>u, Zenon DEF ToldTheTruth, callVars
  <1> QED
    BY <1>2, <1>3, <1>4, <1>5, <1>6, <1>7, Zenon DEF Inv

LEMMA PublishStep ==
    ASSUME HwConstants, Inv, Publish
    PROVE  Inv'
  <1>t. TypeOK /\ op \in Calls /\ cmd.gen \in 0 .. LastGen
    BY Zenon DEF Inv, Types, TypeOK, Calls, Kinds
  <1>u. /\ op.pc = "dispatch" /\ ~cmd.inflight
        /\ UNCHANGED <<clock, session, ready, nextHw, snapshot, stopping, known, before, regs,
                       event, worker, faults>>
        /\ payload' = IF op.kind = "apply" THEN session.points ELSE {}
    BY Zenon DEF Publish
  <1>k. /\ session.active /\ op.kind \in {"claim", "apply", "restore"}
        /\ op.kind = "claim" => \A c \in Cores : ~snapshot[c]
    BY <1>u, Zenon DEF Inv, CallSound, Acquiring, Updating, RestoringOnly
  <1>1. /\ cmd'.kind = op.kind /\ cmd'.inflight /\ cmd'.complete = {}
        /\ cmd'.gen = NextGeneration
        /\ cmd'.result = [c \in Cores |-> "ok"]
    BY Zenon DEF Publish
  <1>2. NextGeneration \in 0 .. LastGen
    BY <1>t DEF NextGeneration, HwConstants
  <1>3. cmd' \in CommandRecords
    <2>1. [c \in Cores |-> "ok"] \in [Cores -> Results]
      BY Zenon DEF Results
    <2> QED
      BY <1>2, <1>k, <2>1, Zenon DEF Publish, CommandRecords
  <1>4. /\ op'.pc = "events" /\ op'.unset = Cores /\ op'.kind = op.kind /\ op'.call = op.call
        /\ op'.lease = op.lease /\ op'.first = op.first /\ op' \in Calls
    BY <1>t, Zenon DEF Publish, Calls
  <1>c. Cores # {}
    BY DEF Cores, HwConstants
  <1>11. Types'
    BY <1>u, <1>3, <1>4, Zenon DEF Inv, Types, TypeOK, CommandRecords, Calls, Kinds
  <1>w. \A c \in Cores : ~event[c] /\ worker[c].pc \notin {"woken", "chosen", "ran"}
    BY <1>u, Zenon DEF Inv, Commands, Awake
  <1>12. Commands'
    BY <1>u, <1>k, <1>c, <1>1, <1>4, <1>w, Zenon DEF Commands, Awake
  <1>13. ASSUME NEW c \in Cores PROVE CoreSound(c)'
    <2>1. ~WentWell(c)'
      BY <1>u, <1>1, <1>w, Zenon DEF WentWell
    <2>2. CoreSound(c)
      BY Zenon DEF Inv
    <2> QED
      BY <1>u, <1>k, <1>1, <2>1, <2>2, Zenon DEF CoreSound
  <1>14. CallSound'
    BY <1>u, <1>4, Zenon DEF Inv, CallSound, Acquiring, Updating, RestoringOnly
  <1>15. SessionSound'
    BY <1>u, <1>1, <1>4, <1>k, Zenon DEF Inv, SessionSound
  <1>16. ToldTheTruth'
    BY <1>4, Zenon DEF ToldTheTruth
  <1> QED
    BY <1>11, <1>12, <1>13, <1>14, <1>15, <1>16, Zenon DEF Inv

LEMMA SetEventStep ==
    ASSUME HwConstants, Inv, SetEvent
    PROVE  Inv'
  <1> DEFINE c == Min(op.unset)
  <1>t. TypeOK /\ op \in Calls /\ event \in [Cores -> BOOLEAN] /\ faults \in 0 .. MaxFaults
        /\ op.unset \subseteq Cores /\ cmd \in CommandRecords
    BY Zenon DEF Inv, Types, TypeOK, Calls, Kinds, CommandRecords
  <1>u. /\ op.pc = "events"
        /\ UNCHANGED <<clock, session, ready, nextHw, snapshot, stopping, known, before, regs,
                       worker, payload>>
        /\ op' = [op EXCEPT !.unset = @ \ {c}, !.pc = IF op.unset = {c} THEN "await" ELSE @]
        /\ \/ event' = [event EXCEPT ![c] = TRUE] /\ UNCHANGED <<cmd, faults>>
           \/ Spend(TRUE) /\ Reports(c, "core") /\ UNCHANGED event
    BY Zenon DEF SetEvent, Reports
  <1>c. c \in op.unset
    <2>1. op.unset \subseteq Nat /\ op.unset # {}
      BY <1>t, <1>u DEF Inv, Commands, Cores, HwConstants
    <2> QED
      BY <2>1, MinIs, Zenon
  <1> HIDE DEF c
  <1>d. c \in Cores
    BY <1>c, <1>t, Zenon
  <1>1. /\ op'.unset = op.unset \ {c} /\ op'.pc \in {"events", "await"}
        /\ op'.pc = "events" <=> op'.unset # {}
        /\ op'.kind = op.kind /\ op'.call = op.call
        /\ op'.lease = op.lease /\ op'.first = op.first /\ op' \in Calls
    <2>1. CASE op.unset = {c}
      BY <1>t, <1>u, <2>1, Zenon DEF Calls
    <2>2. CASE op.unset # {c}
      <3>1. op.unset \ {c} # {} /\ op.unset \ {c} \in SUBSET Cores
        BY <1>c, <2>2, <1>t, Zenon
      <3> QED
        BY <1>t, <1>u, <2>2, <3>1, Zenon DEF Calls
    <2> QED
      BY <2>1, <2>2, Zenon
  <1>p. /\ cmd.inflight /\ cmd.kind = op.kind /\ c \notin cmd.complete /\ ~event[c]
        /\ worker[c].pc \notin {"woken", "chosen", "ran"}
    BY <1>u, <1>c, <1>d, Zenon DEF Inv, Commands, Awake
  <1>14. CallSound'
    BY <1>u, <1>1 DEF Inv, CallSound, Acquiring, Updating, RestoringOnly
  <1>16. ToldTheTruth'
    BY <1>1, Zenon DEF ToldTheTruth
  <1>2. CASE event' = [event EXCEPT ![c] = TRUE] /\ UNCHANGED <<cmd, faults>>
    <2>0. event' \in [Cores -> BOOLEAN] /\ \A d \in Cores : event'[d] => event[d] \/ d = c
      BY <1>t, <1>d, <1>2, Zenon
    <2>a. /\ UNCHANGED <<clock, session, ready, nextHw, snapshot, stopping, known, before, regs,
                         worker, payload>>
          /\ UNCHANGED <<cmd, faults>> /\ event' \in [Cores -> BOOLEAN] /\ op' \in Calls
      BY <1>u, <1>1, <1>2, <2>0, Zenon
    <2>1. Types'
      BY <2>a DEF Inv, Types, TypeOK, Calls, Kinds
    <2>2. Commands'
      BY <1>u, <1>1, <1>2, <1>p, <2>0, Zenon DEF Inv, Commands, Awake
    <2>3. \A d \in Cores : CoreSound(d)'
      BY <1>u, <1>2, Zenon DEF Inv, CoreSound, WentWell
    <2>4. SessionSound'
      BY <1>u, <1>1, <1>2, Zenon DEF Inv, SessionSound
    <2> QED
      BY <1>14, <1>16, <2>1, <2>2, <2>3, <2>4, Zenon DEF Inv
  <1>3. CASE Spend(TRUE) /\ Reports(c, "core") /\ UNCHANGED event
    <2>0. "core" \in Results
      BY Zenon DEF Results
    <2>1. /\ cmd'.gen = cmd.gen /\ cmd'.kind = cmd.kind /\ cmd'.inflight = cmd.inflight
          /\ cmd'.complete = cmd.complete \cup {c}
          /\ cmd'.result[c] = "core"
          /\ \A d \in Cores \ {c} : cmd'.result[d] = cmd.result[d]
      BY <1>t, <1>d, <1>3, <2>0, Reported, Zenon
    <2>2. cmd' \in CommandRecords
      BY <1>t, <1>d, <1>3, <2>0, Reported, Zenon DEF CommandRecords
    <2>3. faults' \in 0 .. MaxFaults
      BY <1>t, <1>3, SpendType, Zenon
    <2>4. Types'
      BY <1>u, <1>1, <1>3, <2>2, <2>3, Zenon DEF Inv, Types, TypeOK, Calls, Kinds, CommandRecords
    <2>5. Commands'
      BY <1>u, <1>1, <1>3, <1>p, <2>1, Zenon DEF Inv, Commands, Awake
    <2>6. ASSUME NEW d \in Cores PROVE CoreSound(d)'
      <3>1. CoreSound(d)
        BY Zenon DEF Inv
      <3>2. WentWell(d)' => WentWell(d)
        BY <1>u, <1>p, <2>1, Zenon DEF WentWell
      <3> QED
        BY <1>u, <2>1, <3>1, <3>2, Zenon DEF CoreSound
    <2>7. SessionSound'
      BY <1>u, <1>1, <2>1, Zenon DEF Inv, SessionSound
    <2> QED
      BY <1>14, <1>16, <2>4, <2>5, <2>6, <2>7, Zenon DEF Inv
  <1> QED
    BY <1>u, <1>2, <1>3, Zenon

(* The command of the call has ended: all cores reported, or the call no    *)
(* longer waits for them.                                                   *)
Ends(res) ==
    /\ UNCHANGED <<clock, regs, event, worker, payload>>
    /\ op.pc \in {"await", "dispatch"} /\ res \in Results /\ cmd.inflight
    /\ faults' \in 0 .. MaxFaults
    /\ cmd' \in CommandRecords
    /\ cmd'.complete = cmd.complete /\ cmd'.kind = cmd.kind /\ cmd'.gen = cmd.gen
    /\ \/ /\ ~cmd'.inflight /\ op.pc = "await" /\ cmd.complete = Cores
          /\ res = CommandResult /\ ready' = StaysReady(res)
       \/ /\ cmd' = cmd /\ res = "core" /\ ready' = FALSE

LEMMA EndsOne ==
    ASSUME HwConstants, Inv, Await
    PROVE  Ends(CommandResult) /\ After(CommandResult)
  <1>t. TypeOK /\ faults \in 0 .. MaxFaults
    BY Zenon DEF Inv, Types, TypeOK
  <1>1. CommandResult \in Results
    BY <1>t, ResultType, Zenon
  <1>2. /\ cmd' \in CommandRecords /\ ~cmd'.inflight
        /\ cmd'.complete = cmd.complete /\ cmd'.kind = cmd.kind /\ cmd'.gen = cmd.gen
    BY <1>t, Landed, Zenon DEF Await
  <1>3. cmd.inflight
    BY Zenon DEF Await, Inv, Commands
  <1> QED
    BY <1>t, <1>1, <1>2, <1>3, Zenon DEF Await, Ends

LEMMA EndsTwo ==
    ASSUME HwConstants, Inv, TimeOut
    PROVE  Ends("core") /\ After("core")
  <1>t. TypeOK /\ faults \in 0 .. MaxFaults /\ cmd \in CommandRecords
    BY Zenon DEF Inv, Types, TypeOK, CommandRecords
  <1>1. faults' \in 0 .. MaxFaults
    BY <1>t, SpendType, Zenon DEF TimeOut
  <1>2. cmd.inflight
    BY Zenon DEF TimeOut, Inv, Commands
  <1> QED
    BY <1>t, <1>1, <1>2, Zenon DEF TimeOut, Ends, Results

(* The state of the command after it ended: no core is awake but for a      *)
(* command that is still in flight.                                         *)
LEMMA EndsCommand ==
    ASSUME HwConstants, Inv, NEW res, Ends(res), op' \in Calls,
           op'.pc \in {"idle", "dispatch"}, op'.unset = {}, ready' \in BOOLEAN
    PROVE  Commands'
  <1>1. \A c \in Cores : Awake(c)' => cmd'.inflight /\ Awake(c)
    BY Zenon DEF Ends, Awake, Inv, Commands
  <1> QED
    BY <1>1, Zenon DEF Inv, Commands, Ends

LEMMA StaysReadyType ==
    ASSUME Inv, NEW res
    PROVE  /\ StaysReady(res) \in BOOLEAN
           /\ op.kind # "restore" => StaysReady(res) = ready
           /\ op.kind = "restore" /\ res # "ok" => StaysReady(res) = FALSE
           /\ StaysReady(res) => ready
  BY Zenon DEF Inv, Types, TypeOK, StaysReady

LEMMA WhatIsCalled ==
    ASSUME Inv, op.pc # "idle"
    PROVE  /\ session.active
           /\ op.kind \in {"claim", "apply", "restore"}
           /\ op.kind = "claim" => op.call = "acquire" /\ Acquiring
           /\ op.kind = "apply" => op.call = "update" /\ Updating
           /\ op.call = "acquire" => Acquiring
           /\ op.call = "update" => Updating
           /\ op.call \notin {"acquire", "update"} => RestoringOnly
  BY Zenon DEF Inv, CallSound, Acquiring, Updating, RestoringOnly

LEMMA FailureStep ==
    ASSUME HwConstants, Inv, NEW res, Ends(res), res # "ok", op.kind # "restore",
           AfterFailure(res)
    PROVE  Inv'
  <1>t. TypeOK /\ op \in Calls /\ ready \in BOOLEAN
    BY Zenon DEF Inv, Types, TypeOK, Calls, Kinds
  <1>0. res \in Results /\ op.pc \in {"await", "dispatch"}
    BY Zenon DEF Ends
  <1>1. /\ op'.kind = "restore" /\ op'.pc = "dispatch" /\ op'.first = res
        /\ op'.call = op.call /\ op'.lease = op.lease /\ op'.unset = op.unset /\ op' \in Calls
    BY <1>t, <1>0, Zenon DEF AfterFailure, Calls, Kinds
  <1>2. /\ UNCHANGED <<session, nextHw, snapshot, stopping, known, before>>
        /\ UNCHANGED <<clock, regs, event, worker, payload>>
    BY Zenon DEF AfterFailure, Ends
  <1>3. op.unset = {}
    BY <1>0, Zenon DEF Inv, Commands
  <1>4. ready' \in BOOLEAN /\ (ready' => ready)
    BY StaysReadyType, Zenon DEF Ends
  <1>5. Types'
    BY <1>1, <1>2, <1>4 DEF Inv, Types, TypeOK, Ends, CommandRecords, Calls, Kinds
  <1>6. Commands'
    BY <1>1, <1>3, <1>4, EndsCommand, Zenon
  <1>7. ASSUME NEW c \in Cores PROVE CoreSound(c)'
    <2>1. CoreSound(c)
      BY Zenon DEF Inv
    <2> QED
      BY <1>2, <2>1, Zenon DEF CoreSound, WentWell, Ends
  <1>8. CallSound'
    <2>1. /\ session.active /\ op.kind \in {"claim", "apply"}
          /\ op.kind = "claim" => op.call = "acquire" /\ Acquiring
          /\ op.kind = "apply" => op.call = "update" /\ Updating
      BY <1>0, WhatIsCalled, Zenon
    <2>2. res \notin {"none", "ok"}
      BY <1>0, Zenon DEF Results
    <2>3. CASE op.kind = "claim"
      BY <1>1, <1>2, <2>1, <2>3, Zenon DEF CallSound, Acquiring
    <2>4. CASE op.kind = "apply"
      BY <1>1, <1>2, <2>1, <2>2, <2>4, Zenon DEF CallSound, Updating
    <2> QED
      BY <2>1, <2>3, <2>4, Zenon
  <1>9. SessionSound'
    <2>1. cmd'.inflight /\ cmd.kind = "apply" => op.call = "update"
      <3>1. CASE op.pc = "await"
        BY <3>1, WhatIsCalled, Zenon DEF Inv, Commands
      <3>2. CASE op.pc = "dispatch"
        BY <1>0, <3>2, WhatIsCalled, Zenon DEF Inv, Commands, Ends, Acquiring
      <3> QED
        BY <1>0, <3>1, <3>2, Zenon
    <2> QED
      BY <1>1, <1>2, <2>1, Zenon DEF Inv, SessionSound, Ends
  <1>10. ToldTheTruth'
    BY <1>1, Zenon DEF ToldTheTruth
  <1> QED
    BY <1>5, <1>6, <1>7, <1>8, <1>9, <1>10, Zenon DEF Inv

LEMMA UnlockedIs ==
    ASSUME HwConstants
    PROVE  /\ Unlocked \in Calls /\ Unlocked.pc = "idle" /\ Unlocked.unset = {}
           /\ Unlocked.call = "none" /\ Unlocked.lease = 0
           /\ Nothing \in Befores /\ NoSession \in Sessions /\ ~NoSession.active
           /\ NoSession.points = {}
  <1>1. NoSession \in Sessions
    BY DEF NoSession, Sessions, HwConstants
  <1>2. Nothing \in Befores
    BY <1>1 DEF Nothing, Befores, HwConstants
  <1> QED
    BY <1>1, <1>2, Zenon DEF Unlocked, Calls, Kinds, Results, NoSession

(* Every core ended well when the result is "ok". *)
LEMMA AllWell ==
    ASSUME HwConstants, Inv, NEW res, Ends(res), res = "ok", NEW c \in Cores
    PROVE  /\ op.kind = "restore" => regs[c] = {}
           /\ op.kind = "claim" => regs[c] = {} /\ snapshot[c]
           /\ op.kind = "apply" => regs[c] = session.points /\ snapshot[c]
           /\ ~cmd'.inflight
  <1>1. /\ op.pc = "await" /\ cmd.complete = Cores /\ CommandResult = "ok" /\ ~cmd'.inflight
    BY Zenon DEF Ends
  <1>2. WentWell(c)
    BY <1>1, ResultOk, Zenon DEF WentWell
  <1>3. cmd.inflight /\ cmd.kind = op.kind
    BY <1>1, Zenon DEF Inv, Commands
  <1> QED
    BY <1>1, <1>2, <1>3, Zenon DEF Inv, CoreSound

LEMMA ClaimedStep ==
    ASSUME HwConstants, Inv, NEW res, Ends(res), res = "ok", op.kind = "claim", AfterClaim
    PROVE  Inv'
  <1>t. TypeOK /\ session \in Sessions /\ ready \in BOOLEAN
    BY Zenon DEF Inv, Types, TypeOK, Sessions
  <1>a. /\ session.active /\ op.call = "acquire" /\ Acquiring
    BY WhatIsCalled, Zenon DEF Ends
  <1>0. UNCHANGED <<clock, regs, event, worker, payload>> /\ ready' = ready /\ ready = TRUE
    BY <1>a, <1>t, StaysReadyType, Zenon DEF Ends, Acquiring
  <1>1. op' = Unlocked /\ before' = Nothing /\ UNCHANGED <<nextHw, snapshot, stopping, known>>
    BY Zenon DEF AfterClaim, Unlock
  <1>2. clock + op.lease \in 0 .. MaxTime
    <2>1. clock \in 0 .. MaxTime /\ MaxTime \in Nat
      BY <1>t, Zenon DEF TypeOK, HwConstants
    <2>2. op.lease \in Nat /\ clock + op.lease <= MaxTime
      BY <1>a, Zenon DEF Acquiring, HwConstants
    <2> QED
      BY <2>1, <2>2
  <1>3. /\ session' \in Sessions /\ session'.active = session.active /\ session'.pid = session.pid
        /\ session'.tok = session.tok /\ session'.points = session.points
    BY <1>t, <1>2, Zenon DEF AfterClaim, Sessions
  <1>w. \A c \in Cores : regs[c] = {} /\ snapshot[c] /\ ~cmd'.inflight
    BY AllWell, Zenon
  <1>f. ~cmd'.inflight
    BY Zenon DEF Ends
  <1>5. Types'
    BY <1>0, <1>1, <1>3, UnlockedIs, SMTT(20)
    DEF Inv, Types, TypeOK, Ends, CommandRecords, Calls, Kinds, Sessions
  <1>6. Commands'
    BY <1>0, <1>1, <1>t, UnlockedIs, EndsCommand, Zenon
  <1>7. \A c \in Cores : CoreSound(c)'
    BY <1>0, <1>1, <1>f, Zenon DEF Inv, CoreSound
  <1>8. CallSound'
    BY <1>1, UnlockedIs, Zenon DEF CallSound
  <1>9. SessionSound'
    BY <1>a, <1>1, <1>3, <1>f, Zenon DEF Inv, SessionSound
  <1>10. ToldTheTruth'
    BY <1>a, <1>0, <1>1, <1>3, <1>w, Zenon DEF ToldTheTruth, Acquiring
  <1> QED
    BY <1>5, <1>6, <1>7, <1>8, <1>9, <1>10, Zenon DEF Inv

LEMMA AppliedStep ==
    ASSUME HwConstants, Inv, NEW res, Ends(res), res = "ok", op.kind = "apply", AfterApply
    PROVE  Inv'
  <1>t. TypeOK /\ session \in Sessions /\ ready \in BOOLEAN
    BY Zenon DEF Inv, Types, TypeOK, Sessions
  <1>a. /\ session.active /\ op.call = "update" /\ Updating
    BY WhatIsCalled, Zenon DEF Ends
  <1>0. UNCHANGED <<clock, regs, event, worker, payload>> /\ ready' = ready
    BY <1>t, StaysReadyType, Zenon DEF Ends
  <1>1. op' = Unlocked /\ before' = Nothing /\ UNCHANGED <<session, nextHw, snapshot, stopping>>
    BY Zenon DEF AfterApply, Unlock
  <1>2. known' \in {"saved", "armed"} /\ (known' = "armed") = (session.points # {})
    BY Zenon DEF AfterApply
  <1>w. \A c \in Cores : regs[c] = session.points /\ snapshot[c]
    BY AllWell, Zenon
  <1>f. ~cmd'.inflight
    BY Zenon DEF Ends
  <1>5. Types'
    BY <1>0, <1>1, <1>2, UnlockedIs
    DEF Inv, Types, TypeOK, Ends, CommandRecords, Calls, Kinds, Sessions
  <1>6. Commands'
    BY <1>0, <1>1, <1>t, UnlockedIs, EndsCommand, Zenon
  <1>7. \A c \in Cores : CoreSound(c)'
    BY <1>0, <1>1, <1>f, Zenon DEF Inv, CoreSound
  <1>8. CallSound'
    BY <1>1, UnlockedIs, Zenon DEF CallSound
  <1>9. SessionSound'
    BY <1>a, <1>1, <1>f, Zenon DEF Inv, SessionSound
  <1>10. ToldTheTruth'
    BY <1>a, <1>0, <1>1, <1>2, <1>w, Zenon DEF ToldTheTruth
  <1> QED
    BY <1>5, <1>6, <1>7, <1>8, <1>9, <1>10, Zenon DEF Inv

LEMMA RestoredStep ==
    ASSUME HwConstants, Inv, NEW res, Ends(res), res = "ok", op.kind = "restore",
           AfterRestore(res)
    PROVE  Inv'
  <1>t. TypeOK /\ stopping \in BOOLEAN
    BY Zenon DEF Inv, Types, TypeOK
  <1>0. UNCHANGED <<clock, regs, event, worker, payload>> /\ ready' \in BOOLEAN
    BY StaysReadyType, Zenon DEF Ends
  <1>1. /\ op' = Unlocked /\ before' = Nothing /\ UNCHANGED nextHw
        /\ session' = NoSession /\ known' = "saved"
        /\ snapshot' = [c \in Cores |-> FALSE]
        /\ stopping' \in BOOLEAN
    BY <1>t, Zenon DEF AfterRestore, ClearSession, Unlock
  <1>2. snapshot' \in [Cores -> BOOLEAN]
    BY <1>1, Zenon
  <1>w. \A c \in Cores : regs[c] = {}
    BY AllWell, Zenon
  <1>f. ~cmd'.inflight
    BY Zenon DEF Ends
  <1>5. Types'
    BY <1>0, <1>1, <1>2, UnlockedIs
    DEF Inv, Types, TypeOK, Ends, CommandRecords, Calls, Kinds, Sessions
  <1>6. Commands'
    BY <1>0, <1>1, UnlockedIs, EndsCommand, Zenon
  <1>7. \A c \in Cores : CoreSound(c)'
    BY <1>0, <1>w, <1>f, Zenon DEF CoreSound
  <1>8. CallSound'
    BY <1>1, UnlockedIs, Zenon DEF CallSound
  <1>9. SessionSound'
    BY <1>0, <1>1, <1>w, <1>f, UnlockedIs, Zenon DEF SessionSound
  <1>10. ToldTheTruth'
    BY <1>1, UnlockedIs, Zenon DEF ToldTheTruth
  <1> QED
    BY <1>5, <1>6, <1>7, <1>8, <1>9, <1>10, Zenon DEF Inv

LEMMA NotRestoredStep ==
    ASSUME HwConstants, Inv, NEW res, Ends(res), res # "ok", op.kind = "restore",
           AfterRestore(res)
    PROVE  Inv'
  <1>t. TypeOK /\ known \in {"saved", "armed", "torn"}
    BY Zenon DEF Inv, Types, TypeOK
  <1>0. UNCHANGED <<clock, regs, event, worker, payload>> /\ ready' = FALSE
    BY StaysReadyType, Zenon DEF Ends
  <1>1. /\ op' = Unlocked /\ before' = Nothing
        /\ UNCHANGED <<nextHw, session, snapshot, stopping>>
        /\ known' = IF op.call = "update" /\ op.first # "none" THEN "torn" ELSE known
    BY Zenon DEF AfterRestore, Unlock
  <1>a. session.active /\ (op.call = "update" => Updating)
    BY WhatIsCalled, Zenon DEF Ends
  <1>2. known' \in {"saved", "armed", "torn"}
    BY <1>1, <1>t, Zenon
  <1>3. UNCHANGED <<nextHw, session, snapshot, stopping>>
    BY <1>1, Zenon
  <1>4. op' \in Calls /\ before' \in Befores
    BY <1>1, UnlockedIs, Zenon
  <1>5. Types'
    BY <1>0, <1>2, <1>3, <1>4, ZenonT(60)
    DEF Inv, Types, TypeOK, Ends, CommandRecords, Calls, Kinds, Sessions
  <1>6. Commands'
    BY <1>0, <1>1, UnlockedIs, EndsCommand, Zenon
  <1>7. \A c \in Cores : CoreSound(c)'
    BY <1>0, <1>1, ZenonT(60) DEF Inv, CoreSound, WentWell, Ends
  <1>8. CallSound'
    BY <1>1, UnlockedIs, Zenon DEF CallSound
  <1>9. SessionSound'
    <2>1. cmd'.inflight /\ cmd.kind = "apply" => known' = "torn"
      <3>1. op.call = "update" => op.first # "none"
        BY <1>a, Zenon DEF Updating
      <3> QED
        BY <1>1, <3>1, Zenon DEF Inv, SessionSound, Commands, Ends
    <2> QED
      BY <1>0, <1>1, <1>a, <2>1, Zenon DEF Inv, SessionSound, Ends
  <1>10. ToldTheTruth'
    BY <1>0, Zenon DEF ToldTheTruth
  <1> QED
    BY <1>5, <1>6, <1>7, <1>8, <1>9, <1>10, Zenon DEF Inv

LEMMA EndSteps ==
    ASSUME HwConstants, Inv, Await \/ TimeOut
    PROVE  Inv'
  <1>1. PICK res : Ends(res) /\ After(res)
    BY EndsOne, EndsTwo, Zenon
  <1>2. op.kind \in {"claim", "apply", "restore"}
    BY <1>1, WhatIsCalled, Zenon DEF Ends
  <1>3. CASE op.kind = "restore"
    BY <1>1, <1>3, RestoredStep, NotRestoredStep, Zenon DEF After
  <1>4. CASE op.kind # "restore" /\ res # "ok"
    BY <1>1, <1>4, FailureStep, Zenon DEF After
  <1>5. CASE op.kind = "claim" /\ res = "ok"
    BY <1>1, <1>5, ClaimedStep, Zenon DEF After
  <1>6. CASE op.kind = "apply" /\ res = "ok"
    BY <1>1, <1>6, AppliedStep, Zenon DEF After
  <1> QED
    BY <1>2, <1>3, <1>4, <1>5, <1>6, Zenon

-----------------------------------------------------------------------------
(* The entry points *)

LEMMA TickStep ==
    ASSUME HwConstants, Inv, Tick
    PROVE  Inv'
  <1>u. UNCHANGED <<callVars, regs, cmd, event, worker, faults, payload>>
    BY Zenon DEF Tick
  <1>1. clock \in Nat /\ MaxTime \in Nat /\ op.lease \in Nat /\ clock' = clock + 1
        /\ clock + op.lease < MaxTime
    <2>1. clock \in 0 .. MaxTime /\ op.lease \in HwLeases \cup {0}
      BY Zenon DEF Inv, Types, TypeOK
    <2>2. clock \in Nat /\ MaxTime \in Nat
      BY <2>1 DEF HwConstants
    <2>3. \A l \in HwLeases : l \in Nat
      BY Zenon DEF HwConstants
    <2>4. op.lease \in Nat
      BY <2>1, <2>3
    <2> QED
      BY <2>2, <2>4, Zenon DEF Tick
  <1>2. clock' \in 0 .. MaxTime
    BY <1>1
  <1>3. Types'
    BY <1>u, <1>2 DEF Inv, Types, TypeOK, callVars
  <1>4. Commands' /\ SessionSound' /\ ToldTheTruth'
    BY <1>u, Zenon DEF Inv, Commands, Awake, SessionSound, ToldTheTruth, callVars
  <1>5. \A c \in Cores : CoreSound(c)'
    BY <1>u, Zenon DEF Inv, CoreSound, WentWell, callVars
  <1>6. Acquiring => Acquiring'
    <2>1. ASSUME session.deadline - op.lease \in 0 .. clock
          PROVE  session'.deadline - op'.lease \in 0 .. clock'
      BY <1>u, <1>1, <2>1 DEF callVars
    <2>2. clock' + op'.lease <= MaxTime
      BY <1>u, <1>1 DEF callVars
    <2> QED
      BY <1>u, <2>1, <2>2, Zenon DEF Acquiring, callVars
  <1>7. CallSound'
    BY <1>u, <1>6, Zenon DEF Inv, CallSound, Updating, RestoringOnly, callVars
  <1> QED
    BY <1>3, <1>4, <1>5, <1>7, Zenon DEF Inv

(* Taking the lock: the call, and what it has found. *)
LEMMA Locked ==
    ASSUME HwConstants, Inv, NEW kind \in Kinds, NEW lease \in HwLeases \cup {0},
           NEW call \in {"acquire", "renew", "update", "release", "watchdog", "recover", "stop"},
           Lock(call, kind, lease)
    PROVE  /\ op = Unlocked /\ op.pc = "idle" /\ op.call = "none"
           /\ op'.call = call /\ op'.pc = "dispatch" /\ op'.kind = kind /\ op'.lease = lease
           /\ op'.first = "none" /\ op'.unset = {}
           /\ op' \in Calls /\ before' \in Befores
           /\ before'.session = session /\ before'.ready = ready /\ before'.known = known
           /\ before'.nextHw = nextHw
           /\ UNCHANGED <<clock, stopping, regs, cmd, event, worker, faults, payload>>
  <1>1. op = Unlocked /\ op.pc = "idle" /\ op.call = "none"
    BY UnlockedIs, Zenon DEF Lock, Inv, CallSound
  <1>2. /\ op'.call = call /\ op'.pc = "dispatch" /\ op'.kind = kind /\ op'.lease = lease
        /\ op'.first = "none" /\ op'.unset = {} /\ op' \in Calls
    BY Zenon DEF Lock, Calls
  <1>3. /\ before' \in Befores
        /\ before'.session = session /\ before'.ready = ready /\ before'.known = known
        /\ before'.nextHw = nextHw
    <2>1. session \in Sessions /\ ready \in BOOLEAN /\ known \in {"saved", "armed", "torn"}
          /\ nextHw \in 1 .. MaxHwToken + 1
      BY Zenon DEF Inv, Types, TypeOK, Sessions
    <2> QED
      BY <2>1, Zenon DEF Lock, Befores
  <1>4. UNCHANGED <<clock, stopping, regs, cmd, event, worker, faults, payload>>
    BY Zenon DEF Lock
  <1> QED
    BY <1>1, <1>2, <1>3, <1>4, Zenon

LEMMA RestoringStep ==
    ASSUME HwConstants, Inv, session.active,
           NEW call \in {"renew", "release", "watchdog", "recover", "stop"}, Restoring(call)
    PROVE  Inv'
  <1>0. "restore" \in Kinds /\ 0 \in HwLeases \cup {0}
    BY Zenon DEF Kinds
  <1>l. /\ op = Unlocked /\ op.pc = "idle" /\ op.call = "none"
        /\ op'.call = call /\ op'.pc = "dispatch" /\ op'.kind = "restore" /\ op'.lease = 0
        /\ op'.first = "none" /\ op'.unset = {}
        /\ op' \in Calls /\ before' \in Befores
        /\ before'.session = session /\ before'.ready = ready /\ before'.known = known
        /\ before'.nextHw = nextHw
        /\ UNCHANGED <<clock, stopping, regs, cmd, event, worker, faults, payload>>
    BY <1>0, Locked DEF Restoring
  <1>u. UNCHANGED <<session, ready, nextHw, snapshot, known>>
    BY Zenon DEF Restoring
  <1>1. Types'
    BY <1>l, <1>u DEF Inv, Types, TypeOK, Calls, Kinds
  <1>2. Commands'
    BY <1>l, <1>u, Zenon DEF Inv, Commands, Awake
  <1>3. \A c \in Cores : CoreSound(c)'
    BY <1>l, <1>u, Zenon DEF Inv, CoreSound, WentWell
  <1>4. CallSound'
    BY <1>l, <1>u, Zenon DEF CallSound, RestoringOnly
  <1>5. SessionSound'
    BY <1>l, <1>u, Zenon DEF Inv, SessionSound
  <1>6. ToldTheTruth'
    BY <1>l, Zenon DEF ToldTheTruth
  <1> QED
    BY <1>1, <1>2, <1>3, <1>4, <1>5, <1>6, Zenon DEF Inv

LEMMA AcquireStep ==
    ASSUME HwConstants, Inv, NEW p \in Procs, NEW lease \in HwLeases, Acquire(p, lease)
    PROVE  Inv'
  <1>0. "claim" \in Kinds /\ lease \in HwLeases \cup {0}
    BY Zenon DEF Kinds
  <1>l. /\ op = Unlocked /\ op.pc = "idle" /\ op.call = "none"
        /\ op'.call = "acquire" /\ op'.pc = "dispatch" /\ op'.kind = "claim"
        /\ op'.lease = lease /\ op'.first = "none" /\ op'.unset = {}
        /\ op' \in Calls /\ before' \in Befores
        /\ before'.session = session /\ before'.ready = ready /\ before'.known = known
        /\ before'.nextHw = nextHw
        /\ UNCHANGED <<clock, stopping, regs, cmd, event, worker, faults, payload>>
    BY <1>0, Locked, ZenonT(60) DEF Acquire
  <1>u. /\ ready /\ ~session.active /\ nextHw' = nextHw + 1 /\ UNCHANGED <<ready, known>>
        /\ nextHw <= MaxHwToken /\ clock + lease <= MaxTime
        /\ session' = [active |-> TRUE, pid |-> p, tok |-> nextHw, deadline |-> clock + lease,
                       points |-> {}]
        /\ snapshot' = [c \in Cores |-> FALSE]
    BY Zenon DEF Acquire
  <1>n. /\ clock \in Nat /\ lease \in Nat /\ MaxTime \in Nat /\ MaxHwToken \in Nat
        /\ nextHw \in 1 .. MaxHwToken + 1
    BY DEF Inv, Types, TypeOK, HwConstants
  <1>m. /\ nextHw \in 1 .. MaxHwToken /\ nextHw' \in 1 .. MaxHwToken + 1
        /\ clock + lease \in 0 .. MaxTime /\ (clock + lease) - lease \in 0 .. clock
    BY <1>u, <1>n
  <1>1. /\ session' \in Sessions /\ session'.active /\ session'.pid = p /\ session'.tok = nextHw
        /\ session'.deadline = clock + lease /\ session'.points = {}
    BY <1>u, <1>m, SMTT(20) DEF Sessions
  <1>2. snapshot' \in [Cores -> BOOLEAN] /\ \A c \in Cores : ~snapshot'[c]
    BY <1>u, Zenon
  <1>3. /\ session = NoSession /\ known = "saved" /\ ~cmd.inflight
        /\ \A c \in Cores : regs[c] = {}
    BY <1>l, <1>u, Zenon DEF Inv, SessionSound
  <1>4. Types'
    BY <1>l, <1>u, <1>m, <1>1, <1>2, Zenon DEF Inv, Types, TypeOK, Calls, Kinds, Sessions
  <1>5. Commands'
    BY <1>l, <1>u, <1>3, Zenon DEF Inv, Commands, Awake
  <1>6. \A c \in Cores : CoreSound(c)'
    BY <1>l, <1>3, Zenon DEF CoreSound
  <1>7. Acquiring'
    BY <1>l, <1>u, <1>m, <1>1, <1>2, <1>3, Zenon DEF Acquiring
  <1>8. CallSound'
    BY <1>l, <1>1, <1>7, Zenon DEF CallSound
  <1>9. SessionSound'
    BY <1>l, <1>1, <1>3, <1>m, SMTT(20) DEF SessionSound
  <1>10. ToldTheTruth'
    BY <1>l, Zenon DEF ToldTheTruth
  <1> QED
    BY <1>4, <1>5, <1>6, <1>8, <1>9, <1>10, Zenon DEF Inv

LEMMA UpdateStep ==
    ASSUME HwConstants, Inv, NEW p \in Procs, NEW pts \in SUBSET Points,
           Update(p, session.tok, pts)
    PROVE  Inv'
  <1>0. "apply" \in Kinds /\ 0 \in HwLeases \cup {0}
    BY Zenon DEF Kinds
  <1>l. /\ op = Unlocked /\ op.pc = "idle" /\ op.call = "none"
        /\ op'.call = "update" /\ op'.pc = "dispatch" /\ op'.kind = "apply"
        /\ op'.lease = 0 /\ op'.first = "none" /\ op'.unset = {}
        /\ op' \in Calls /\ before' \in Befores
        /\ before'.session = session /\ before'.ready = ready /\ before'.known = known
        /\ before'.nextHw = nextHw
        /\ UNCHANGED <<clock, stopping, regs, cmd, event, worker, faults, payload>>
    BY <1>0, Locked, ZenonT(60) DEF Update
  <1>u. /\ session.active /\ ~(clock >= session.deadline) /\ known # "torn"
        /\ session' = [session EXCEPT !.points = pts]
        /\ UNCHANGED <<ready, nextHw, snapshot, known>>
    BY Zenon DEF Update, Owns, Expired
  <1>t. session \in Sessions /\ clock \in Nat /\ session.deadline \in Nat
    BY DEF Inv, Types, TypeOK, Sessions, HwConstants
  <1>1. /\ session' \in Sessions /\ session'.active /\ session'.pid = session.pid
        /\ session'.tok = session.tok /\ session'.points = pts
    BY <1>t, <1>u, Zenon DEF Sessions
  <1>2. session' = [session EXCEPT !.points = session'.points]
    BY <1>u, <1>1, Zenon
  <1>3. session.deadline > 0
    BY <1>u, <1>t
  <1>4. ~(cmd.inflight /\ cmd.kind = "apply")
    BY <1>l, <1>u, Zenon DEF Inv, SessionSound
  <1>5. Types'
    BY <1>l, <1>u, <1>1, Zenon DEF Inv, Types, TypeOK, Calls, Kinds, Sessions
  <1>6. Commands'
    BY <1>l, <1>u, Zenon DEF Inv, Commands, Awake
  <1>7. ASSUME NEW c \in Cores PROVE CoreSound(c)'
    <2>1. CoreSound(c)
      BY Zenon DEF Inv
    <2> QED
      BY <1>l, <1>u, <1>4, <2>1, Zenon DEF CoreSound, WentWell
  <1>8. CallSound'
    BY <1>l, <1>u, <1>1, <1>2, <1>3, Zenon DEF CallSound, Updating
  <1>9. SessionSound'
    BY <1>l, <1>1, <1>4, <1>u, Zenon DEF Inv, SessionSound
  <1>10. ToldTheTruth'
    BY <1>l, Zenon DEF ToldTheTruth
  <1> QED
    BY <1>5, <1>6, <1>7, <1>8, <1>9, <1>10, Zenon DEF Inv

LEMMA RenewStep ==
    ASSUME HwConstants, Inv, NEW p \in Procs, NEW lease \in HwLeases,
           Renew(p, session.tok, lease)
    PROVE  Inv'
  <1>u. /\ session.active /\ op.pc = "idle" /\ clock + lease <= MaxTime
        /\ session' = [session EXCEPT !.deadline = clock + lease]
        /\ UNCHANGED <<clock, ready, nextHw, snapshot, op, stopping, known, before, regs, cmd,
                       event, worker, faults, payload>>
    BY Zenon DEF Renew, Owns
  <1>t. session \in Sessions /\ clock \in Nat /\ lease \in Nat /\ MaxTime \in Nat
    BY DEF Inv, Types, TypeOK, Sessions, HwConstants
  <1>m. clock + lease \in 0 .. MaxTime
    BY <1>t, <1>u
  <1>1. /\ session' \in Sessions /\ session'.active = session.active
        /\ session'.pid = session.pid
        /\ session'.tok = session.tok /\ session'.points = session.points
    BY <1>t, <1>m, <1>u, Zenon DEF Sessions
  <1>2. Types'
    BY <1>u, <1>1 DEF Inv, Types, TypeOK, Sessions
  <1>3. Commands'
    BY <1>u, Zenon DEF Inv, Commands, Awake
  <1>4. \A c \in Cores : CoreSound(c)'
    BY <1>u, <1>1, Zenon DEF Inv, CoreSound, WentWell
  <1>5. CallSound'
    BY <1>u, Zenon DEF Inv, CallSound
  <1>6. SessionSound'
    BY <1>u, <1>1, Zenon DEF Inv, SessionSound
  <1>7. ToldTheTruth'
    BY <1>u, <1>1, Zenon DEF Inv, ToldTheTruth
  <1> QED
    BY <1>2, <1>3, <1>4, <1>5, <1>6, <1>7, Zenon DEF Inv

(* vdHwDebugStop without a session. *)
StopsIdle ==
    /\ op.pc = "idle" /\ ~stopping /\ ~session.active
    /\ stopping' = TRUE /\ ready' = FALSE
    /\ UNCHANGED <<clock, session, nextHw, snapshot, op, known, before, regs, cmd, event,
                   worker, faults, payload>>

LEMMA StopsIdleStep ==
    ASSUME HwConstants, Inv, StopsIdle
    PROVE  Inv'
  <1>1. Types'
    <2>1. stopping' \in BOOLEAN /\ ready' \in BOOLEAN
      BY Zenon DEF StopsIdle
    <2>2. UNCHANGED <<clock, session, nextHw, snapshot, op, known, before, regs, cmd, event,
                      worker, faults, payload>>
      BY Zenon DEF StopsIdle
    <2> QED
      BY <2>1, <2>2 DEF Inv, Types, TypeOK
  <1> USE DEF StopsIdle
  <1>2. Commands'
    BY Zenon DEF Inv, Commands, Awake
  <1>3. \A c \in Cores : CoreSound(c)'
    BY Zenon DEF Inv, CoreSound, WentWell
  <1>4. CallSound'
    BY Zenon DEF Inv, CallSound
  <1>5. SessionSound'
    BY Zenon DEF Inv, SessionSound
  <1>6. ToldTheTruth'
    BY Zenon DEF ToldTheTruth
  <1> QED
    BY <1>1, <1>2, <1>3, <1>4, <1>5, <1>6, Zenon DEF Inv

(* The calls that restore the session they find. *)
Restores ==
    \E call \in {"renew", "release", "watchdog", "recover", "stop"} :
        session.active /\ session.pid \in Procs /\ session.tok > 0 /\ Restoring(call)

(* The step is one of a worker, of a call that goes on or ends, or of an    *)
(* entry point.                                                             *)
StepKinds ==
    \/ Tick
    \/ \E c \in Cores : \/ WorkerWakes(c) \/ WorkerDies(c) \/ WorkerStops(c) \/ WorkerChooses(c)
                        \/ WorkerRuns(c) \/ WorkerCompletes(c)
    \/ Settle
    \/ Publish
    \/ SetEvent
    \/ Await \/ TimeOut
    \/ \E p \in Procs, l \in HwLeases : Acquire(p, l)
    \/ \E p \in Procs, l \in HwLeases : Renew(p, session.tok, l)
    \/ \E p \in Procs, pts \in SUBSET Points : Update(p, session.tok, pts)
    \/ Restores
    \/ StopsIdle

LEMMA EveryStep ==
    ASSUME Inv, Next
    PROVE  StepKinds
  <1>0. session.active => session.pid \in Procs /\ session.tok > 0
    BY Zenon DEF Inv, SessionSound
  <1>1. CASE Tick \/ CallStep
    BY <1>1, Zenon DEF CallStep, StepKinds
  <1>2. ASSUME NEW c \in Cores, WorkerStep(c) \/ WorkerDies(c)
        PROVE  StepKinds
    BY <1>2, Zenon DEF WorkerStep, StepKinds
  <1>3. CASE Entry
    <2>1. CASE \E p \in Procs, l \in HwLeases : Acquire(p, l)
      BY <2>1, Zenon DEF StepKinds
    <2>2. CASE \E p \in Procs, l \in HwLeases : Renew(p, session.tok, l)
      BY <2>2, Zenon DEF StepKinds
    <2>3. CASE \E p \in Procs, pts \in SUBSET Points :
                   OnePoint(pts) /\ Update(p, session.tok, pts)
      BY <2>3, Zenon DEF StepKinds
    <2>4. CASE FindsExpired
      BY <1>0, <2>4, Zenon DEF FindsExpired, Expired, Restores, StepKinds
    <2>5. CASE \E p \in Procs : Release(p, session.tok) \/ Recover(p, session.tok)
      BY <1>0, <2>5, Zenon DEF Release, Recover, Owns, Restores, StepKinds
    <2>6. CASE Stop
      BY <1>0, <2>6, Zenon DEF Stop, Restores, StopsIdle, StepKinds
    <2> QED
      BY <1>3, <2>1, <2>2, <2>3, <2>4, <2>5, <2>6, Zenon DEF Entry
  <1>4. ASSUME NEW now \in 0 .. clock, WatchdogRestores(now)
        PROVE  StepKinds
    BY <1>0, <1>4, Zenon DEF WatchdogRestores, Expired, Restores, StepKinds
  <1> QED
    BY <1>1, <1>2, <1>3, <1>4, Zenon DEF Next

LEMMA InitInv ==
    ASSUME HwConstants, Init
    PROVE  Inv
  <1>0. Cores # {} /\ 0 \in 0 .. LastGen
    BY DEF Cores, HwConstants
  <1>1. Types
    <2>1. cmd \in CommandRecords
      BY <1>0, Zenon DEF Init, CommandRecords, Results
    <2>2. worker \in [Cores -> Workers]
      BY <1>0, AsleepType, Zenon DEF Init
    <2>3. /\ regs \in [Cores -> (SUBSET Points) \cup {Torn}] /\ snapshot \in [Cores -> BOOLEAN]
          /\ event \in [Cores -> BOOLEAN]
      BY Zenon DEF Init
    <2>4. clock \in 0 .. MaxTime /\ faults \in 0 .. MaxFaults /\ nextHw \in 1 .. MaxHwToken + 1
      BY DEF Init, HwConstants
    <2>5. session \in Sessions /\ op \in Calls /\ before \in Befores
      BY UnlockedIs, Zenon DEF Init
    <2>6. /\ ready \in BOOLEAN /\ stopping \in BOOLEAN
          /\ known \in {"saved", "armed", "torn"} /\ payload \subseteq Points
      BY Zenon DEF Init
    <2> QED
      BY <2>1, <2>2, <2>3, <2>4, <2>5, <2>6, Zenon
      DEF Types, TypeOK, CommandRecords, Workers, Kinds, Sessions, Calls
  <1>2. /\ \A c \in Cores : /\ ~event[c] /\ worker[c].pc = "wait" /\ regs[c] = {}
        /\ ~cmd.inflight /\ op = Unlocked /\ session = NoSession /\ known = "saved"
    BY <1>0, AsleepType, Zenon DEF Init
  <1>3. Commands
    BY <1>2, UnlockedIs, Zenon DEF Commands, Awake
  <1>4. \A c \in Cores : CoreSound(c)
    BY <1>2, Zenon DEF CoreSound
  <1>5. CallSound /\ SessionSound /\ ToldTheTruth
    BY <1>2, UnlockedIs, Zenon DEF CallSound, SessionSound, ToldTheTruth
  <1> QED
    BY <1>1, <1>3, <1>4, <1>5, Zenon DEF Inv

LEMMA InvStep ==
    ASSUME HwConstants, Inv, [Next]_vars
    PROVE  Inv'
  <1>1. CASE UNCHANGED vars
    <2> USE <1>1 DEF vars, callVars
    <2>1. Types'
      BY SMTT(20) DEF Inv, Types, TypeOK
    <2>2. Commands'
      BY Zenon DEF Inv, Commands, Awake
    <2>3. \A c \in Cores : CoreSound(c)'
      BY Zenon DEF Inv, CoreSound, WentWell
    <2>4. CallSound'
      BY Zenon DEF Inv, CallSound, Acquiring, Updating, RestoringOnly
    <2>5. SessionSound' /\ ToldTheTruth'
      BY Zenon DEF Inv, SessionSound, ToldTheTruth
    <2> QED
      BY <2>1, <2>2, <2>3, <2>4, <2>5, Zenon DEF Inv
  <1>2. CASE Next
    <2>1. StepKinds
      BY <1>2, EveryStep, Zenon
    <2>2. ASSUME NEW c \in Cores,
                 \/ WorkerWakes(c) \/ WorkerDies(c) \/ WorkerStops(c) \/ WorkerChooses(c)
                 \/ WorkerRuns(c) \/ WorkerCompletes(c)
          PROVE  Inv'
      BY <2>2, QuietSteps, RunStep, CompleteStep, Zenon
    <2>3. CASE Tick \/ Settle \/ Publish \/ SetEvent \/ Await \/ TimeOut \/ StopsIdle
      BY <2>3, TickStep, SettleStep, PublishStep, SetEventStep, EndSteps, StopsIdleStep, Zenon
    <2>4. ASSUME NEW p \in Procs, NEW l \in HwLeases,
                 Acquire(p, l) \/ Renew(p, session.tok, l)
          PROVE  Inv'
      BY <2>4, AcquireStep, RenewStep, Zenon
    <2>5. ASSUME NEW p \in Procs, NEW pts \in SUBSET Points, Update(p, session.tok, pts)
          PROVE  Inv'
      BY <2>5, UpdateStep, Zenon
    <2>6. CASE Restores
      BY <2>6, RestoringStep, Zenon DEF Restores
    <2> QED
      BY <2>1, <2>2, <2>3, <2>4, <2>5, <2>6, Zenon DEF StepKinds
  <1> QED
    BY <1>1, <1>2, Zenon

LEMMA Invariance == ASSUME HwConstants PROVE Spec => []Inv
  BY InitInv, InvStep, PTL DEF Spec

(* hw_debug.c:719-860, 1138-1151: whatever timed out, failed or was late, an *)
(* engine that is unlocked without a session has every core as it was found, *)
(* no command in flight and no worker running one.                          *)
THEOREM EngineReleasedClean == ASSUME HwConstants PROVE Spec => []ReleasedClean
  <1>1. Inv => ReleasedClean
    BY Zenon DEF Inv, SessionSound, Commands, Awake, ReleasedClean
  <1> QED
    BY <1>1, Invariance, PTL

(* hw_debug.c:745-750, 783-793: no worker ever runs or completes another     *)
(* command than the one it was woken for.                                   *)
THEOREM EngineOneGeneration == ASSUME HwConstants PROVE Spec => []OneGeneration
  <1>1. Inv => OneGeneration
    BY Zenon DEF Inv, Commands, Awake, OneGeneration
  <1> QED
    BY <1>1, Invariance, PTL

(* hw_debug.c:1327-1331: the points that an APPLY in flight reads are the   *)
(* ones it was published with, its caller gone or not.                      *)
THEOREM EnginePayloadImmutable == ASSUME HwConstants PROVE Spec => []PayloadImmutable
  <1>1. Inv => PayloadImmutable
    BY Zenon DEF Inv, SessionSound, PayloadImmutable
  <1> QED
    BY <1>1, Invariance, PTL

(* hw_debug.c:526-629, 1320-1345: every core carries what a healthy engine  *)
(* last told the owner of its session.                                      *)
THEOREM EngineToldTheTruth == ASSUME HwConstants PROVE Spec => []ToldTheTruth
  <1>1. Inv => ToldTheTruth
    BY Zenon DEF Inv
  <1> QED
    BY <1>1, Invariance, PTL

-----------------------------------------------------------------------------
(* The refinement of HwEngine: each call is one step, taken when it drops   *)
(* the lock; until then its callers see the state in which it took it.      *)

LEMMA SeenHeld ==
    ASSUME op.pc # "idle"
    PROVE  /\ HwSeen = HwOf(before.session, before.known)
           /\ ReadySeen = before.ready /\ NextHwSeen = before.nextHw
  BY Zenon DEF HwSeen, ReadySeen, NextHwSeen, Held

LEMMA SeenIdle ==
    ASSUME op.pc = "idle"
    PROVE  /\ HwSeen = HwOf(session, known)
           /\ ReadySeen = ready /\ NextHwSeen = nextHw
  BY Zenon DEF HwSeen, ReadySeen, NextHwSeen, Held

LEMMA SeenUnlocked ==
    ASSUME op' = Unlocked, HwConstants
    PROVE  /\ HwSeen' = HwOf(session', known')
           /\ ReadySeen' = ready' /\ NextHwSeen' = nextHw'
  <1>1. op'.pc = "idle"
    BY UnlockedIs, Zenon
  <1> QED
    BY <1>1, Zenon DEF HwSeen, ReadySeen, NextHwSeen, Held, HwOf

(* What its callers do not see of an engine. *)
Unseen == UNCHANGED <<HwSeen, ReadySeen, NextHwSeen>>

LEMMA HoldsOn ==
    ASSUME op.pc # "idle", op'.pc # "idle", UNCHANGED before
    PROVE  Unseen
  BY Zenon DEF Unseen, HwSeen, ReadySeen, NextHwSeen, Held, HwOf

LEMMA LocksUp ==
    ASSUME op.pc = "idle", op'.pc = "dispatch",
           before'.session = session, before'.ready = ready, before'.known = known,
           before'.nextHw = nextHw
    PROVE  Unseen
  BY Zenon DEF Unseen, HwSeen, ReadySeen, NextHwSeen, Held, HwOf

LEMMA NothingSeen ==
    ASSUME UNCHANGED <<op, before, session, ready, known, nextHw>>
    PROVE  Unseen
  BY Zenon DEF Unseen, HwSeen, ReadySeen, NextHwSeen, Held, HwOf

(* The operations of HwEngine, one by one. *)
LEMMA OpAcquire ==
    ASSUME UNCHANGED clock, NEW now \in 0 .. clock, NEW p \in Procs, NEW k \in Engine!HwTokens,
           NEW l \in HwLeases, NEW o \in Engine!AcquireOutcomes, Engine!Acquire(p, l, now, o)
    PROVE  Engine!EngineNext
  BY Zenon DEF Engine!EngineNext, Engine!EngineOperation

LEMMA OpRenew ==
    ASSUME UNCHANGED clock, NEW now \in 0 .. clock, NEW p \in Procs, NEW k \in Engine!HwTokens,
           NEW ok \in BOOLEAN, NEW l \in HwLeases, Engine!Renew(p, k, l, now, ok)
    PROVE  Engine!EngineNext
  BY Zenon DEF Engine!EngineNext, Engine!EngineOperation

LEMMA OpUpdate ==
    ASSUME UNCHANGED clock, NEW now \in 0 .. clock, NEW p \in Procs, NEW k \in Engine!HwTokens,
           NEW r \in {"ok", "other", "restore"}, NEW a \in {"saved", "armed"},
           Engine!Update(p, k, now, r, a)
    PROVE  Engine!EngineNext
  BY Zenon DEF Engine!EngineNext, Engine!EngineOperation

LEMMA OpRelease ==
    ASSUME UNCHANGED clock, NEW now \in 0 .. clock, NEW p \in Procs, NEW k \in Engine!HwTokens,
           NEW ok \in BOOLEAN, Engine!Release(p, k, ok)
    PROVE  Engine!EngineNext
  BY Zenon DEF Engine!EngineNext, Engine!EngineOperation

LEMMA OpStop ==
    ASSUME UNCHANGED clock, NEW now \in 0 .. clock, NEW p \in Procs, NEW k \in Engine!HwTokens,
           NEW ok \in BOOLEAN, Engine!EngineStop(ok)
    PROVE  Engine!EngineNext
  BY Zenon DEF Engine!EngineNext, Engine!EngineOperation

LEMMA NoHwIs ==
    ASSUME TRUE
    PROVE  /\ HwOf(NoSession, "saved") = Engine!NoHw
           /\ ~Engine!NoHw.active
  BY Zenon DEF HwOf, NoSession, Engine!NoHw

LEMMA HwOfIs ==
    ASSUME NEW s, NEW r
    PROVE  /\ HwOf(s, r).active = s.active /\ HwOf(s, r).pid = s.pid /\ HwOf(s, r).tok = s.tok
           /\ HwOf(s, r).deadline = s.deadline /\ HwOf(s, r).regs = r
           /\ \A q : [HwOf(s, r) EXCEPT !.regs = q] = HwOf(s, q)
  BY DEF HwOf

(* Who called, when and with which session: the bound variables that        *)
(* EngineOperation wants.                                                   *)
LEMMA Caller ==
    ASSUME HwConstants, Inv, session.active
    PROVE  /\ session.pid \in Procs /\ session.tok \in Engine!HwTokens
           /\ clock \in 0 .. clock /\ 0 \in 0 .. clock
  <1>1. session.pid \in Procs /\ session.tok > 0
    BY Zenon DEF Inv, SessionSound
  <1>2. session.tok \in 0 .. MaxHwToken /\ clock \in 0 .. MaxTime
    BY Zenon DEF Inv, Types, TypeOK
  <1> QED
    BY <1>1, <1>2 DEF Engine!HwTokens, HwConstants

(* Acquire: claimed; busy or failed, both restored; or stuck. *)
LEMMA AcquireEnds ==
    ASSUME HwConstants, Inv, op.pc # "idle", op.call = "acquire", UNCHANGED <<clock, nextHw>>,
           op' = Unlocked, NEW now \in 0 .. clock, NEW o \in Engine!AcquireOutcomes,
           now + op.lease <= MaxTime,
           IF o \in {"claimed", "stuck"}
           THEN /\ session'.active = TRUE /\ session'.pid = session.pid
                /\ session'.tok = session.tok
                /\ session'.deadline = now + op.lease /\ known' = "saved"
           ELSE session' = NoSession /\ known' = "saved",
           IF o \in {"claimed", "busy"} THEN ready' = TRUE ELSE ready' = FALSE
    PROVE  Engine!EngineNext
  <1>a. session.active /\ Acquiring
    BY WhatIsCalled, Zenon
  <1>1. /\ HwSeen = HwOf(NoSession, "saved") /\ ReadySeen = TRUE /\ NextHwSeen = before.nextHw
    <2>1. ReadySeen = before.ready /\ before.ready \in BOOLEAN /\ before.ready
      BY <1>a, SeenHeld, Zenon DEF Acquiring, Inv, Types, Befores
    <2> QED
      BY <1>a, <2>1, SeenHeld, Zenon DEF Acquiring
  <1>2. HwSeen' = HwOf(session', known') /\ ReadySeen' = ready' /\ NextHwSeen' = nextHw'
    BY SeenUnlocked, Zenon
  <1>3. nextHw' = before.nextHw + 1 /\ session.tok = before.nextHw /\ before.nextHw <= MaxHwToken
    <2>1. nextHw \in 1 .. MaxHwToken + 1 /\ before.nextHw \in 1 .. MaxHwToken + 1
      BY Zenon DEF Inv, Types, TypeOK, Befores
    <2> QED
      BY <1>a, <2>1, SMTT(20) DEF Acquiring, HwConstants
  <1>4. Engine!Acquire(session.pid, op.lease, now, o)
    <2>1. CASE o \in {"claimed", "stuck"}
      <3>1. HwSeen' = [active |-> TRUE, pid |-> session.pid, tok |-> NextHwSeen,
                       deadline |-> now + op.lease, regs |-> "saved"]
        BY <1>1, <1>2, <1>3, <2>1, Zenon DEF HwOf
      <3> QED
        BY <1>1, <1>2, <1>3, <2>1, <3>1, NoHwIs, Zenon DEF Engine!Acquire, Engine!LeaseEnd
    <2>2. CASE o \notin {"claimed", "stuck"}
      BY <1>1, <1>2, <1>3, <2>2, NoHwIs, Zenon DEF Engine!Acquire, Engine!LeaseEnd
    <2> QED
      BY <2>1, <2>2, Zenon
  <1>5. op.lease \in HwLeases
    BY <1>a, Zenon DEF Acquiring
  <1> QED
    BY <1>a, <1>4, <1>5, Caller, OpAcquire, Zenon

(* Update: applied; failed and restored; or torn. *)
LEMMA UpdateEnds ==
    ASSUME HwConstants, Inv, op.pc # "idle", op.call = "update", UNCHANGED <<clock, nextHw>>,
           op' = Unlocked,
           \/ session' = session /\ known' \in {"saved", "armed"} /\ ready' = before.ready
           \/ session' = NoSession /\ known' = "saved" /\ ready' = FALSE
           \/ session' = session /\ known' = "torn" /\ ready' = FALSE
    PROVE  Engine!EngineNext
  <1>a. session.active /\ Updating
    BY WhatIsCalled, Zenon
  <1>0. HwOf(session, known') = HwOf(before.session, known')
        /\ session.pid = before.session.pid /\ session.tok = before.session.tok
    <2>1. before.session \in Sessions
      BY Zenon DEF Inv, Types, Befores
    <2>2. session = [before.session EXCEPT !.points = session.points]
      BY <1>a, Zenon DEF Updating
    <2>3. /\ session.active = before.session.active /\ session.pid = before.session.pid
          /\ session.tok = before.session.tok /\ session.deadline = before.session.deadline
      BY <2>1, <2>2, Zenon DEF Sessions
    <2> QED
      BY <2>3, Zenon DEF HwOf
  <1>1. /\ HwSeen = HwOf(before.session, before.known) /\ ReadySeen = before.ready
        /\ NextHwSeen = nextHw
    BY <1>a, SeenHeld, Zenon DEF Updating
  <1>2. HwSeen' = HwOf(session', known') /\ ReadySeen' = ready' /\ NextHwSeen' = nextHw'
    BY SeenUnlocked, Zenon
  <1>3. /\ HwSeen.active /\ HwSeen.pid = session.pid /\ HwSeen.tok = session.tok
        /\ HwSeen.deadline > 0
    BY <1>a, <1>0, <1>1, HwOfIs DEF Updating
  <1>4. Engine!Owns(session.pid, session.tok) /\ ~Engine!Expired(0)
    <2>1. HwSeen.deadline \in Nat
      BY <1>1, HwOfIs DEF Inv, Types, Befores, Sessions
    <2> QED
      BY <1>3, <2>1, SMTT(20) DEF Engine!Owns, Engine!Expired
  <1>5. CASE session' = session /\ known' \in {"saved", "armed"} /\ ready' = before.ready
    <2>1. HwSeen' = [HwSeen EXCEPT !.regs = known']
      BY <1>0, <1>1, <1>2, <1>5, HwOfIs
    <2>2. Engine!Update(session.pid, session.tok, 0, "ok", known')
      BY <1>1, <1>2, <1>4, <1>5, <2>1, Zenon DEF Engine!Update
    <2> QED
      BY <1>a, <1>5, <2>2, Caller, OpUpdate, Zenon
  <1>6. CASE session' = NoSession /\ known' = "saved" /\ ready' = FALSE
    <2>2. Engine!Update(session.pid, session.tok, 0, "other", "saved")
      BY <1>1, <1>2, <1>4, <1>6, NoHwIs, Zenon DEF Engine!Update
    <2> QED
      BY <1>a, <2>2, Caller, OpUpdate, Zenon
  <1>7. CASE session' = session /\ known' = "torn" /\ ready' = FALSE
    <2>1. HwSeen' = [HwSeen EXCEPT !.regs = "torn"]
      BY <1>0, <1>1, <1>2, <1>7, HwOfIs
    <2>2. Engine!Update(session.pid, session.tok, 0, "restore", "saved")
      BY <1>1, <1>2, <1>4, <1>7, <2>1, Zenon DEF Engine!Update
    <2> QED
      BY <1>a, <2>2, Caller, OpUpdate, Zenon
  <1> QED
    BY <1>5, <1>6, <1>7, Zenon

(* The calls that only restore. *)
LEMMA RestoreEnds ==
    ASSUME HwConstants, Inv, op.pc # "idle", op.call \notin {"acquire", "update"},
           UNCHANGED <<clock, nextHw>>, op' = Unlocked,
           \/ session' = NoSession /\ known' = "saved" /\ ready' = before.ready
           \/ session' = NoSession /\ known' = "saved" /\ op.call = "stop" /\ ready' = FALSE
           \/ session' = session /\ known' = known /\ ready' = FALSE
    PROVE  Engine!EngineNext
  <1>a. session.active /\ RestoringOnly
    BY WhatIsCalled, Zenon
  <1>y. TRUE \in BOOLEAN /\ FALSE \in BOOLEAN
    BY Zenon
  <1>1. /\ HwSeen = HwOf(session, known) /\ ReadySeen = before.ready /\ NextHwSeen = nextHw
    BY <1>a, SeenHeld, Zenon DEF RestoringOnly
  <1>2. HwSeen' = HwOf(session', known') /\ ReadySeen' = ready' /\ NextHwSeen' = nextHw'
    BY SeenUnlocked, Zenon
  <1>3. Engine!Owns(session.pid, session.tok)
    BY <1>a, <1>1, HwOfIs DEF Engine!Owns
  <1>4. CASE session' = NoSession /\ known' = "saved" /\ ready' = before.ready
    <2>1. Engine!Release(session.pid, session.tok, TRUE)
      BY <1>1, <1>2, <1>3, <1>4, NoHwIs, Zenon DEF Engine!Release, Engine!Restore, Engine!RestoreOk
    <2> QED
      BY <1>a, <1>y, <2>1, Caller, OpRelease, Zenon
  <1>5. CASE session' = NoSession /\ known' = "saved" /\ op.call = "stop" /\ ready' = FALSE
    <2>1. Engine!EngineStop(TRUE)
      BY <1>1, <1>2, <1>5, NoHwIs, Zenon DEF Engine!EngineStop
    <2> QED
      BY <1>a, <1>y, <2>1, Caller, OpStop, Zenon
  <1>6. CASE session' = session /\ known' = known /\ ready' = FALSE
    <2>1. Engine!Release(session.pid, session.tok, FALSE)
      BY <1>1, <1>2, <1>3, <1>6, Zenon DEF Engine!Release, Engine!Restore, Engine!RestoreFailed
    <2> QED
      BY <1>a, <1>y, <2>1, Caller, OpRelease, Zenon
  <1> QED
    BY <1>4, <1>5, <1>6, Zenon

(* A call whose last command has ended. *)
LEMMA EndsSeen ==
    ASSUME HwConstants, Inv, Await \/ TimeOut
    PROVE  Engine!EngineNext \/ (Unseen /\ UNCHANGED clock)
  <1>1. PICK res : Ends(res) /\ After(res)
    BY EndsOne, EndsTwo, Zenon
  <1>0. /\ UNCHANGED clock /\ op.pc \in {"await", "dispatch"} /\ op.pc # "idle"
        /\ ready \in BOOLEAN /\ clock \in 0 .. clock
    BY <1>1 DEF Ends, Inv, Types, TypeOK, HwConstants
  <1>2. /\ op.kind \in {"claim", "apply", "restore"} /\ session.active
        /\ op.kind = "claim" => op.call = "acquire"
        /\ op.kind = "apply" => op.call = "update"
        /\ op.call = "acquire" => Acquiring
        /\ op.call = "update" => Updating
        /\ op.call \notin {"acquire", "update"} => RestoringOnly
    BY <1>0, WhatIsCalled, Zenon
  <1>o. {"claimed", "busy", "failed", "stuck"} \subseteq Engine!AcquireOutcomes
    BY Zenon DEF Engine!AcquireOutcomes
  <1>3. CASE op.kind # "restore" /\ res # "ok"
    <2>1. AfterFailure(res)
      BY <1>1, <1>3, Zenon DEF After
    <2>2. op'.pc # "idle" /\ UNCHANGED before
      BY <2>1, Zenon DEF AfterFailure, Inv, Types, TypeOK
    <2> QED
      BY <1>0, <2>2, HoldsOn, Zenon
  <1>4. CASE op.kind = "claim" /\ res = "ok"
    <2>1. AfterClaim
      BY <1>1, <1>4, Zenon DEF After
    <2>2. op' = Unlocked /\ UNCHANGED nextHw /\ known' = "saved" /\ ready' = TRUE
      BY <1>0, <1>1, <1>2, <1>4, <2>1, StaysReadyType, Zenon DEF AfterClaim, Unlock, Ends, Acquiring
    <2>3. /\ session'.active = TRUE /\ session'.pid = session.pid /\ session'.tok = session.tok
          /\ session'.deadline = clock + op.lease
      <3>1. session \in Sessions
        BY Zenon DEF Inv, Types, TypeOK, Sessions
      <3> QED
        BY <1>2, <2>1, <3>1, Zenon DEF AfterClaim, Sessions
    <2>4. clock + op.lease <= MaxTime /\ op.call = "acquire"
      BY <1>2, <1>4, Zenon DEF Acquiring
    <2> QED
      BY <1>0, <1>o, <2>2, <2>3, <2>4, AcquireEnds, Zenon
  <1>5. CASE op.kind = "apply" /\ res = "ok"
    <2>1. AfterApply
      BY <1>1, <1>5, Zenon DEF After
    <2>2. /\ op' = Unlocked /\ UNCHANGED nextHw /\ known' \in {"saved", "armed"}
          /\ session' = session
      BY <2>1, Zenon DEF AfterApply, Unlock
    <2>3. ready' = before.ready /\ op.call = "update"
      BY <1>1, <1>2, <1>5, StaysReadyType DEF Ends, Updating
    <2> QED
      BY <1>0, <2>2, <2>3, UpdateEnds, Zenon
  <1>6. CASE op.kind = "restore" /\ res = "ok"
    <2>1. AfterRestore(res)
      BY <1>1, <1>6, Zenon DEF After
    <2>2. /\ op' = Unlocked /\ UNCHANGED nextHw /\ known' = "saved" /\ session' = NoSession
      BY <1>6, <2>1, Zenon DEF AfterRestore, ClearSession, Unlock
    <2>3. ready' = StaysReady(res)
      BY <1>1, <1>6, Zenon DEF Ends
    <2>4. CASE op.call = "acquire"
      <3>1. clock + op.lease <= MaxTime
        BY <1>2, <2>4, Zenon DEF Acquiring
      <3>2. CASE ready' = TRUE
        BY <1>0, <1>o, <2>2, <2>4, <3>1, <3>2, AcquireEnds, Zenon
      <3>3. CASE ready' = FALSE
        BY <1>0, <1>o, <2>2, <2>4, <3>1, <3>3, AcquireEnds, Zenon
      <3> QED
        BY <2>3, <3>2, <3>3, StaysReadyType, Zenon
    <2>5. CASE op.call = "update"
      <3>1. op.first # "none"
        BY <1>2, <1>6, <2>5, Zenon DEF Updating
      <3>2. ready' = FALSE
        BY <1>6, <2>3, <2>5, <3>1, Zenon DEF StaysReady
      <3> QED
        BY <1>0, <2>2, <2>5, <3>2, UpdateEnds, Zenon
    <2>6. CASE op.call = "stop"
      <3>2. ready' = FALSE
        BY <1>6, <2>3, <2>6, Zenon DEF StaysReady
      <3> QED
        BY <1>0, <2>2, <2>6, <3>2, RestoreEnds, Zenon
    <2>7. CASE op.call \notin {"acquire", "update", "stop"}
      <3>1. op.first = "none" /\ ready = before.ready
        BY <1>2, <2>7, Zenon DEF RestoringOnly
      <3>2. ready' = ready
        BY <1>0, <1>6, <2>3, <2>7, <3>1, Zenon DEF StaysReady
      <3> QED
        BY <1>0, <2>2, <2>7, <3>1, <3>2, RestoreEnds, Zenon
    <2> QED
      BY <2>4, <2>5, <2>6, <2>7, Zenon
  <1>7. CASE op.kind = "restore" /\ res # "ok"
    <2>1. AfterRestore(res)
      BY <1>1, <1>7, Zenon DEF After
    <2>2. /\ op' = Unlocked /\ UNCHANGED <<nextHw, session>>
          /\ known' = IF op.call = "update" /\ op.first # "none" THEN "torn" ELSE known
      BY <1>7, <2>1, Zenon DEF AfterRestore, Unlock
    <2>3. ready' = FALSE
      BY <1>1, <1>7, StaysReadyType, Zenon DEF Ends
    <2>4. CASE op.call = "acquire"
      <3> DEFINE now == session.deadline - op.lease
      <3>1. now \in 0 .. clock /\ known' = "saved"
        BY <1>2, <2>2, <2>4, Zenon DEF Acquiring
      <3>2. session.deadline \in 0 .. MaxTime /\ op.lease \in Nat /\ session.active \in BOOLEAN
        BY <1>2, <2>4, Zenon DEF Inv, Types, TypeOK, Acquiring, HwConstants
      <3>3. now + op.lease = session.deadline /\ now + op.lease <= MaxTime
        BY <3>2 DEF HwConstants
      <3>4. session'.active = TRUE
        BY <1>2, <2>2, <3>2, Zenon
      <3> HIDE DEF now
      <3> QED
        BY <1>0, <1>o, <2>2, <2>3, <2>4, <3>1, <3>3, <3>4, AcquireEnds, Zenon
    <2>5. CASE op.call = "update"
      <3>1. known' = "torn"
        BY <1>2, <1>7, <2>2, <2>5, Zenon DEF Updating
      <3> QED
        BY <1>0, <2>2, <2>3, <2>5, <3>1, UpdateEnds, Zenon
    <2>6. CASE op.call \notin {"acquire", "update"}
      BY <1>0, <2>2, <2>3, <2>6, RestoreEnds, Zenon
    <2> QED
      BY <2>4, <2>5, <2>6, Zenon
  <1> QED
    BY <1>2, <1>3, <1>4, <1>5, <1>6, <1>7, Zenon

LEMMA StepSeen ==
    ASSUME HwConstants, Procs # {}, MaxHwToken > 0, Inv, [Next]_vars
    PROVE  Engine!EngineNext \/ (Unseen /\ UNCHANGED clock)
  <1>1. CASE UNCHANGED vars
    BY <1>1, NothingSeen, Zenon DEF vars, callVars
  <1>2. CASE Next
    <2>1. StepKinds
      BY <1>2, EveryStep, Zenon
    <2>2. CASE Tick
      <3>1. Unseen
        BY <2>2, NothingSeen, Zenon DEF Tick, callVars
      <3>2. clock < MaxTime
        <4>1. clock \in 0 .. MaxTime /\ op.lease \in HwLeases \cup {0}
          BY Zenon DEF Inv, Types, TypeOK
        <4>2. \A l \in HwLeases : l \in Nat
          BY Zenon DEF HwConstants
        <4>3. op.lease \in Nat
          BY <4>1, <4>2
        <4>4. clock \in Nat /\ MaxTime \in Nat
          BY <4>1 DEF HwConstants
        <4> QED
          BY <2>2, <4>3, <4>4 DEF Tick
      <3> QED
        BY <2>2, <3>1, <3>2, Zenon
        DEF Tick, Engine!EngineNext, Engine!Tick, Engine!engineVars, Unseen
    <2>3. ASSUME NEW c \in Cores,
                 \/ WorkerWakes(c) \/ WorkerDies(c) \/ WorkerStops(c) \/ WorkerChooses(c)
                 \/ WorkerRuns(c) \/ WorkerCompletes(c)
          PROVE  Unseen /\ UNCHANGED clock
      <3>1. WorkerKept
        BY <2>3, Zenon DEF WorkerWakes, WorkerDies, WorkerStops, WorkerChooses, WorkerRuns,
                    WorkerCompletes
      <3> QED
        BY <3>1, NothingSeen, Zenon DEF WorkerKept
    <2>4. CASE Settle
      BY <2>4, NothingSeen, Zenon DEF Settle, callVars
    <2>5. CASE Publish \/ SetEvent
      <3>1. op.pc # "idle" /\ op'.pc # "idle" /\ UNCHANGED before /\ UNCHANGED clock
        BY <2>5, Zenon DEF Publish, SetEvent, Inv, Types, TypeOK
      <3> QED
        BY <3>1, HoldsOn, Zenon
    <2>6. CASE Await \/ TimeOut
      BY <2>6, EndsSeen, Zenon
    <2>7. ASSUME NEW p \in Procs, NEW l \in HwLeases, Acquire(p, l)
          PROVE  Unseen /\ UNCHANGED clock
      <3>1. "claim" \in Kinds /\ l \in HwLeases \cup {0}
        BY Zenon DEF Kinds
      <3> QED
        BY <2>7, <3>1, Locked, LocksUp, Zenon DEF Acquire
    <2>8. ASSUME NEW p \in Procs, NEW l \in HwLeases, Renew(p, session.tok, l)
          PROVE  Engine!EngineNext
      <3>1. /\ session.active /\ session.pid = p /\ ~(clock >= session.deadline) /\ ready
            /\ op.pc = "idle" /\ clock + l <= MaxTime
            /\ session' = [session EXCEPT !.deadline = clock + l]
            /\ UNCHANGED <<clock, ready, nextHw, op, known, before>>
        BY <2>8, Zenon DEF Renew, Owns, Expired
      <3>2. session \in Sessions /\ ready \in BOOLEAN
        BY Zenon DEF Inv, Types, TypeOK, Sessions
      <3>3. /\ HwSeen = HwOf(session, known) /\ ReadySeen = ready /\ NextHwSeen = nextHw
        BY <3>1, SeenIdle, Zenon
      <3>4. /\ HwSeen' = HwOf(session', known') /\ ReadySeen' = ready' /\ NextHwSeen' = nextHw'
        BY <3>1, SeenUnlocked, Zenon DEF Inv, CallSound
      <3>5. HwSeen' = [HwSeen EXCEPT !.deadline = clock + l]
        <4>1. /\ session'.active = session.active /\ session'.pid = session.pid
              /\ session'.tok = session.tok /\ session'.deadline = clock + l /\ known' = known
          BY <3>1, <3>2, Zenon DEF Sessions
        <4>2. HwSeen' = [active |-> session.active, pid |-> session.pid, tok |-> session.tok,
                         deadline |-> clock + l, regs |-> known]
          BY <3>4, <4>1, Zenon DEF HwOf
        <4> QED
          BY <3>3, <4>2 DEF HwOf
      <3>6. Engine!Owns(p, session.tok) /\ ~Engine!Expired(clock)
        BY <3>1, <3>3, HwOfIs DEF Engine!Owns, Engine!Expired
      <3>7. Engine!Renew(p, session.tok, l, clock, TRUE)
        BY <3>1, <3>2, <3>3, <3>4, <3>5, <3>6, Zenon DEF Engine!Renew, Engine!LeaseEnd
      <3> QED
        BY <3>1, <3>7, Caller, OpRenew, Zenon
    <2>9. ASSUME NEW p \in Procs, NEW pts \in SUBSET Points, Update(p, session.tok, pts)
          PROVE  Unseen /\ UNCHANGED clock
      <3>1. "apply" \in Kinds /\ 0 \in HwLeases \cup {0}
        BY Zenon DEF Kinds
      <3> QED
        BY <2>9, <3>1, Locked, LocksUp, Zenon DEF Update
    <2>10. CASE Restores
      <3>1. "restore" \in Kinds /\ 0 \in HwLeases \cup {0}
        BY Zenon DEF Kinds
      <3>2. PICK call \in {"renew", "release", "watchdog", "recover", "stop"} :
                 Lock(call, "restore", 0)
        BY <2>10, Zenon DEF Restores, Restoring
      <3> QED
        BY <3>1, <3>2, Locked, LocksUp, Zenon
    <2>11. CASE StopsIdle
      <3>1. /\ op.pc = "idle" /\ op' = op /\ ready' = FALSE /\ UNCHANGED <<clock, session, known, nextHw>>
            /\ session = NoSession /\ known = "saved"
        BY <2>11, Zenon DEF StopsIdle, Inv, SessionSound
      <3>2. HwSeen = Engine!NoHw /\ NextHwSeen = nextHw
        BY <3>1, SeenIdle, NoHwIs, Zenon
      <3>3. HwSeen' = Engine!NoHw /\ NextHwSeen' = nextHw /\ ReadySeen' = FALSE
        BY <3>1, SeenUnlocked, NoHwIs, Zenon DEF Inv, CallSound
      <3>4. Engine!EngineStop(TRUE)
        BY <3>2, <3>3, Zenon DEF Engine!EngineStop
      <3>5. PICK p \in Procs : TRUE
        BY Zenon
      <3>6. 1 \in Engine!HwTokens /\ 0 \in 0 .. clock /\ TRUE \in BOOLEAN
        BY DEF Engine!HwTokens, HwConstants, Inv, Types, TypeOK
      <3> QED
        BY <3>1, <3>4, <3>5, <3>6, OpStop, Zenon
    <2> QED
      BY <2>1, <2>2, <2>3, <2>4, <2>5, <2>6, <2>7, <2>8, <2>9, <2>10, <2>11, Zenon DEF StepKinds
  <1> QED
    BY <1>1, <1>2, Zenon

(* hw_debug.c, all of its entry points: every call of the engine, with its  *)
(* commands, workers, event flags, timeouts and retries, is one atomic step *)
(* of the engine that module KernelStop is verified with.                   *)
THEOREM HwDebugImplementsEngine ==
    ASSUME HwConstants, Procs # {}, MaxHwToken > 0
    PROVE  Spec => Engine!EngineSpec
  <1>1. Init => Engine!EngineInit
    <2> SUFFICES ASSUME Init PROVE Engine!EngineInit
      BY Zenon
    <2>1. op.pc = "idle" /\ session = NoSession /\ known = "saved"
      BY UnlockedIs, Zenon DEF Init
    <2>2. HwSeen = Engine!NoHw /\ ReadySeen = ready /\ NextHwSeen = nextHw
      BY <2>1, SeenIdle, NoHwIs, Zenon
    <2> QED
      BY <2>2, Zenon DEF Init, Engine!EngineInit
  <1>2. Inv /\ [Next]_vars => [Engine!EngineNext]_<<clock, Engine!engineVars>>
    BY StepSeen, Zenon DEF Unseen, Engine!engineVars
  <1> QED
    BY <1>1, <1>2, Invariance, PTL DEF Spec, Engine!EngineSpec

=============================================================================
