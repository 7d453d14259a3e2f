----------------------------- MODULE MCRestore ------------------------------
(***************************************************************************)
(* What is given back or taken up again, for TLC: the redirection of stdout *)
(* and stderr, and the leases and services of the device on the smaller     *)
(* instances, under fairness.                                               *)
(*                                                                         *)
(* A behaviour is of one component, the one `part` names from the start:    *)
(* the components do not interact here, they are checked side by side.  The *)
(* component this module extends has its own variables.  The variables v1,  *)
(* v2, ... are the state of each of the others, in the order of its own     *)
(* declaration; those it does not need stay 0.                              *)
(***************************************************************************)
EXTENDS StdioRedirect, TLC

VARIABLES
    part,           \* the component this behaviour is of
    v1, v2, v3, v4, v5, v6, v7, v8, v9, v10, v11, v12, v13, v14, v15

partVars == <<v1, v2, v3, v4, v5, v6, v7, v8, v9, v10, v11, v12, v13, v14, v15>>
allVars == <<part, vars, partVars>>

\* One real session after another, every thread free to end; one fault.
Pmu == INSTANCE PmuProfiler WITH
    Threads <- {"t1", "t2"}, NoThread <- "nobody", Builds <- {TRUE},
    RealEvents <- {TRUE}, Unload <- FALSE, MaxGeneration <- 2, MaxFaults <- 1,
    safeRearm <- v1, g_pmu <- v2, session <- v3, bridge <- v4, transport <- v5,
    refs <- v6, life <- v7, module <- v8, seen <- v9, last <- v10

\* One core and its worker, two faults.
Hw == INSTANCE HwDebug WITH
    Procs <- {"p"}, NoProc <- "noproc", HwLeases <- {1}, MaxTime <- 1,
    MaxHwToken <- 1, LastCore <- 0, LastGen <- 4, Points <- {"execute"},
    MaxFaults <- 2,
    clock <- v1, session <- v2, ready <- v3, nextHw <- v4, snapshot <- v5,
    regs <- v6, cmd <- v7, event <- v8, worker <- v9, op <- v10, stopping <- v11,
    faults <- v12, known <- v13, before <- v14, payload <- v15

\* One stop of a thread, two faults.
Mutation == INSTANCE ThreadMutation WITH
    Values <- {1, 2}, Banks <- {"core"}, Vias <- {"kernel", "gate"}, Base <- 2,
    MaxSequence <- 3, MaxStops <- 1, MaxFaults <- 2,
    tx <- v1, next <- v2, pv <- v3, gate <- v4, via <- v5, copy <- v6,
    known <- v7, stop <- v8, tgt <- v9, bind <- v10, refs <- v11, op <- v12,
    faults <- v13, ghost <- v14

Agent == INSTANCE Deploy WITH
    Jobs <- {1}, Nonces <- {1, 2, 3}, MaxFaults <- 1, MaxCrashes <- 1,
    Plans <- {1} \X {"tcp", "ftp"} \X {"verify", "install"},
    disk <- v1, safe <- v2, ag <- v3, conn <- v4, signed <- v5, ghost <- v6,
    faults <- v7, crashes <- v8, host <- v9

Listener == INSTANCE AuthListener WITH
    Sockets <- {1, 2}, Peers <- {1}, Keys <- {1}, Nonces <- {1}, MaxReplays <- 1,
    MaxFailures <- 1, Deadline <- 1, MinBackoff <- 1, MaxBackoff <- 2,
    Modes <- {"owned"}, Cancels <- TRUE, MaxTime <- 0, MaxStarts <- 1, MaxFaults <- 1,
    state <- v1, slot <- v2, socks <- v3, th <- v4, cn <- v5, replay <- v6,
    fails <- v7, full <- v8, gen <- v9, session <- v10, rt <- v11, revoked <- v12,
    now <- v13, faults <- v14, ghost <- v15

Store == INSTANCE AuthStore WITH
    Keys <- {1, 2}, Hosts <- {1}, MaxPeers <- 1, MaxRevision <- 3, MaxFaults <- 2,
    MaxCrashes <- 2,
    cur <- v1, stg <- v2, synced <- v3, floor <- v4, keys <- v5, res <- v6,
    op <- v7, faults <- v8, crashes <- v9, ghost <- v10

Control == INSTANCE AttachControl WITH
    Sessions <- {1}, Keys <- {1}, Nonces <- {1}, MaxNonces <- 2, MaxAttempts <- 2,
    Window <- 2, LeaseTime <- 1, Timeout <- 2, MaxTime <- 2, MaxTarget <- 2,
    MaxFaults <- 1,
    sess <- v1, lease <- v2, shutting <- v3, op <- v4, proc <- v5, launches <- v6,
    module <- v7, now <- v8, faults <- v9, ghost <- v10

-----------------------------------------------------------------------------
AllInit ==
    /\ Init
    /\ \/ part = "stdio" /\ v1 = 0 /\ v2 = 0 /\ v3 = 0 /\ v4 = 0 /\ v5 = 0
          /\ v6 = 0 /\ v7 = 0 /\ v8 = 0 /\ v9 = 0 /\ v10 = 0 /\ v11 = 0
          /\ v12 = 0 /\ v13 = 0 /\ v14 = 0 /\ v15 = 0
       \/ part = "pmu" /\ Pmu!Init /\ v11 = 0 /\ v12 = 0 /\ v13 = 0 /\ v14 = 0
          /\ v15 = 0
       \/ part = "engine" /\ Hw!Init
       \/ part = "mutation" /\ Mutation!Init /\ v15 = 0
       \/ part = "deploy" /\ Agent!Init /\ v10 = 0 /\ v11 = 0 /\ v12 = 0 /\ v13 = 0
          /\ v14 = 0 /\ v15 = 0
       \/ part = "listener" /\ Listener!Init
       \/ part = "store" /\ Store!Init /\ v11 = 0 /\ v12 = 0 /\ v13 = 0 /\ v14 = 0
          /\ v15 = 0
       \/ part = "control" /\ Control!Init /\ v11 = 0 /\ v12 = 0 /\ v13 = 0
          /\ v14 = 0 /\ v15 = 0

AllNext ==
    \/ part = "stdio" /\ Next /\ UNCHANGED <<part, partVars>>
    \/ part = "pmu" /\ Pmu!Next /\ UNCHANGED <<part, vars, v11, v12, v13, v14, v15>>
    \/ part = "engine" /\ Hw!Next /\ UNCHANGED <<part, vars>>
    \/ part = "mutation" /\ Mutation!Next /\ UNCHANGED <<part, vars, v15>>
    \/ part = "deploy" /\ Agent!Next /\ UNCHANGED <<part, vars, v10, v11, v12, v13, v14,
         v15>>
    \/ part = "listener" /\ Listener!Next /\ UNCHANGED <<part, vars>>
    \/ part = "store" /\ Store!Next /\ UNCHANGED <<part, vars, v11, v12, v13, v14, v15>>
    \/ part = "control" /\ Control!Next /\ UNCHANGED <<part, vars, v11, v12, v13, v14,
         v15>>

AllSpec == AllInit /\ [][AllNext]_allVars

\* A step of each component, the others' variables at rest.
OwnStep(A) == part = "stdio" /\ A /\ UNCHANGED <<part, partVars>>
PmuStep(A) == part = "pmu" /\ A /\ UNCHANGED <<part, vars, v11, v12, v13, v14, v15>>
HwStep(A) == part = "engine" /\ A /\ UNCHANGED <<part, vars>>
MutationStep(A) == part = "mutation" /\ A /\ UNCHANGED <<part, vars, v15>>
AgentStep(A) == part = "deploy" /\ A /\ UNCHANGED <<part, vars, v10, v11, v12, v13, v14, v15>>
ListenerStep(A) == part = "listener" /\ A /\ UNCHANGED <<part, vars>>
StoreStep(A) == part = "store" /\ A /\ UNCHANGED <<part, vars, v11, v12, v13, v14, v15>>
ControlStep(A) == part = "control" /\ A /\ UNCHANGED <<part, vars, v11, v12, v13, v14, v15>>

\* The fairness of each component's specification.  A behaviour is of one
\* component, so one conjunct can serve for one action of each.
AllFairSpec ==
    /\ AllSpec
    /\ WF_allVars(
           \/ OwnStep(pc["c1"] # "idle" /\ CallerStep("c1"))
           \/ PmuStep(Pmu!WatchdogLook)
           \/ HwStep(Hw!Tick)
           \/ MutationStep(Mutation!Steps)
           \/ AgentStep(Agent!AgentTurn(Agent!Launch))
           \/ ListenerStep(Listener!Worker)
           \/ StoreStep(Store!RecoverSettle \/ Store!RecoverFloor \/ Store!RecoverDestroy \/ Store!CommitSteps)
           \/ ControlStep(Control!Steps))
    /\ WF_allVars(
           \/ OwnStep(RestoreCall("c1"))
           \/ PmuStep(Pmu!WatchdogPass)
           \/ HwStep(Hw!CallStep)
           \/ AgentStep(Agent!AgentTurn(Agent!Working))
           \/ ListenerStep(Listener!Closer /\ ~Listener!At("closer", "idle"))
           \/ StoreStep(Store!Recover /\ ~v6.up)
           \/ ControlStep(Control!Tick))
    /\ WF_allVars(
           \/ OwnStep(ReaderReady(1))
           \/ PmuStep(Pmu!LateWorker)
           \/ HwStep(Hw!WorkerStep(0))
           \/ AgentStep(Agent!Cut)
           \/ ListenerStep(Listener!Owner /\ (v11.want \/ v4["owner"].pc \notin {"idle", "prepared", "ready"})))
    /\ WF_allVars(
           \/ OwnStep(ReaderReady(2))
           \/ PmuStep(Pmu!LeaseRunsOut)
           \/ ListenerStep(Listener!StartWorker))
    /\ WF_allVars(OwnStep(Eof(1) /\ ReaderExit(1)))
    /\ WF_allVars(OwnStep(Eof(2) /\ ReaderExit(2)))
    /\ SF_allVars(
           \/ HwStep(Hw!WatchdogRestores(v1))
           \/ MutationStep(Mutation!Watchdog)
           \/ AgentStep(Agent!AgentTurn(Agent!Scan))
           \/ ControlStep(Control!Service))

-----------------------------------------------------------------------------
\* What an absent client leaves behind ends by itself: a configured PMU lane
\* is given back and the session of a thread that ended is retired; an
\* abandoned hardware session is restored once its lease ran out; an expired
\* stop ends with its transaction undone; a lease of the attach control is
\* cleared.  The exceptions are those the code names: a quarantined
\* reference, a worker that died, a lost binding, an invalid grant.
LeasesEnd ==
    /\ []<>(part = "pmu" => ~Pmu!LaneTaken)
    /\ \A c \in {"t1", "t2"} : []<>(part = "pmu" => ~Pmu!Orphaned(c))
    /\ []<>(part = "engine" => ~Hw!Leased)
    /\ []<>(part = "mutation" => ~Mutation!Overdue)
    /\ []<>(part = "control" => ~Control!Leased)

\* A committed job is answered by a result, also when the agent died while
\* processing it; a stop of the listener that keeps being asked for takes the
\* network down; a store that is down comes up again.
ServicesRecover ==
    /\ \A j \in {1} : []<>(part = "deploy" => ~Agent!Unanswered(j))
    /\ []<>(part = "listener" => ~Listener!Stopping)
    /\ []<>(part = "store" => ~Store!Missing)

=============================================================================
