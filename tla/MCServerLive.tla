---------------------------- MODULE MCServerLive ----------------------------
(***************************************************************************)
(* The stop session of the kernel companion with its gate to the hardware   *)
(* engine, the parts of the debug server in the target process, and the     *)
(* stream of a profiler capture, for TLC: liveness on the smaller           *)
(* instances.                                                               *)
(*                                                                         *)
(* A behaviour is of one component, the one `part` names from the start:    *)
(* the components do not interact here, they are checked side by side.  The *)
(* component this module extends has its own variables.  The variables v1,  *)
(* v2, ... are the state of each of the others, in the order of its own     *)
(* declaration; those it does not need stay 0.                              *)
(***************************************************************************)
EXTENDS KernelStop, TLC, StepPrograms

VARIABLES
    part,           \* the component this behaviour is of
    v1, v2, v3, v4, v5, v6, v7, v8, v9, v10, v11, v12, v13, v14, v15, v16, v17, v18, v19, v20

partVars == <<v1, v2, v3, v4, v5, v6, v7, v8, v9, v10, v11, v12, v13, v14, v15, v16, v17, v18,
    v19, v20>>
allVars == <<part, vars, partVars>>

MCProcOf == [t \in Threads |-> "A"]

\* One writer, two records, one session, one stop.
Cons == INSTANCE Console WITH
    Writers <- {"w1"}, Slots <- 2, Generation <- 3, FirstGeneration <- 2,
    Sizes <- {1}, MaxRecords <- 2, MaxSessions <- 1, MaxStops <- 1,
    session <- v1, queue <- v2, nextSequence <- v3, queueLock <- v4, stats <- v5,
    writer <- v6, owner <- v7, transport <- v8, stop <- v9, offered <- v10,
    wire <- v11, purged <- v12

\* One cell of code, three faults.
Session == INSTANCE DebugSession WITH
    Cells <- {1}, Data <- {"d1", "d2"}, Slots <- 2, MaxFaults <- 3,
    code <- v1, stop <- v2, sock <- v3, at <- v4, begun <- v5, life <- v6,
    keeper <- v7, faults <- v8, last <- v9, want <- v10, tampered <- v11,
    raced <- v12

\* One trap of the application, one start, no failing call.
Gate == INSTANCE ExceptionGate WITH
    Apps <- {"app"}, Server <- "server", Types <- {"undef"}, NoOne <- "noone",
    Before <- {"app"}, Builds <- {TRUE}, MaxTraps <- 1, MaxStarts <- 1,
    MaxFaults <- 0,
    frame <- v1, guard <- v2, chaining <- v3, admissions <- v4, gate <- v5,
    lock <- v6, handoff <- v7, session <- v8, life <- v9, slots <- v10, mask <- v11,
    server <- v12, async <- v13, build <- v14, stopper <- v15, traps <- v16,
    faults <- v17, misread <- v18, early <- v19, doubled <- v20

\* A client that keeps stepping thread 1, in retry loops and blocking calls.
Step == INSTANCE ThreadStep WITH
    Threads <- {1, 2}, Programs <- LockPrograms, Packets <- LockPackets,
    MaxPoints <- 1, InstrLimit <- 4, UnitLimit <- 6,
    prog <- v1, th <- v2, mem <- v3, points <- v4, sel <- v5, exc <- v6,
    runs <- v7, step <- v8, ghost <- v9

\* A capture of either version: its calls to the network.
Stream == INSTANCE ProfilerStream WITH
    Versions <- {1, 2}, Capacity <- 1, MaxEvents <- 1, MaxBatch <- 1, SendChunk <- 2,
    MaxSends <- 2, MaxWaits <- 1, Keys <- {}, MaxKeys <- 0, MaxChunks <- 3,
    MaxCaptures <- 1, MaxLoss <- 0, MaxFaults <- 1,
    ring <- v1, w <- v2, sink <- v3, be <- v4, wire <- v5, call <- v6,
    ghost <- v7, faults <- v8

-----------------------------------------------------------------------------
AllInit ==
    /\ Init
    /\ \/ part = "stop" /\ v1 = 0 /\ v2 = 0 /\ v3 = 0 /\ v4 = 0 /\ v5 = 0
          /\ v6 = 0 /\ v7 = 0 /\ v8 = 0 /\ v9 = 0 /\ v10 = 0 /\ v11 = 0
          /\ v12 = 0 /\ v13 = 0 /\ v14 = 0 /\ v15 = 0 /\ v16 = 0 /\ v17 = 0
          /\ v18 = 0 /\ v19 = 0 /\ v20 = 0
       \/ part = "console" /\ Cons!Init /\ v13 = 0 /\ v14 = 0 /\ v15 = 0 /\ v16 = 0
          /\ v17 = 0 /\ v18 = 0 /\ v19 = 0 /\ v20 = 0
       \/ part = "session" /\ Session!Init /\ v13 = 0 /\ v14 = 0 /\ v15 = 0
          /\ v16 = 0 /\ v17 = 0 /\ v18 = 0 /\ v19 = 0 /\ v20 = 0
       \/ part = "exception" /\ Gate!Init
       \/ part = "step" /\ Step!Init /\ v10 = 0 /\ v11 = 0 /\ v12 = 0 /\ v13 = 0
          /\ v14 = 0 /\ v15 = 0 /\ v16 = 0 /\ v17 = 0 /\ v18 = 0 /\ v19 = 0
          /\ v20 = 0
       \/ part = "stream" /\ Stream!Init /\ v9 = 0 /\ v10 = 0 /\ v11 = 0 /\ v12 = 0
          /\ v13 = 0 /\ v14 = 0 /\ v15 = 0 /\ v16 = 0 /\ v17 = 0 /\ v18 = 0
          /\ v19 = 0 /\ v20 = 0
    /\ part # "stop" => thread = [t \in Threads |-> "running"]

AllNext ==
    \/ part = "stop" /\ Next /\ UNCHANGED <<part, partVars>>
    \/ part = "console" /\ Cons!Next /\ UNCHANGED <<part, vars, v13, v14, v15, v16, v17,
         v18, v19, v20>>
    \/ part = "session" /\ Session!Next /\ UNCHANGED <<part, vars, v13, v14, v15, v16, v17,
         v18, v19, v20>>
    \/ part = "exception" /\ Gate!Next /\ UNCHANGED <<part, vars>>
    \/ part = "step" /\ Step!Next /\ UNCHANGED <<part, vars, v10, v11, v12, v13, v14, v15,
         v16, v17, v18, v19, v20>>
    \/ part = "stream" /\ Stream!Next /\ UNCHANGED <<part, vars, v9, v10, v11, v12, v13,
         v14, v15, v16, v17, v18, v19, v20>>

AllSpec == AllInit /\ [][AllNext]_allVars

\* A step of each component, the others' variables at rest.
OwnStep(A) == part = "stop" /\ A /\ UNCHANGED <<part, partVars>>
ConsStep(A) == part = "console" /\ A /\ UNCHANGED <<part, vars, v13, v14, v15, v16, v17, v18,
    v19, v20>>
SessionStep(A) == part = "session" /\ A /\ UNCHANGED <<part, vars, v13, v14, v15, v16, v17, v18,
    v19, v20>>
GateStep(A) == part = "exception" /\ A /\ UNCHANGED <<part, vars>>
StepStep(A) == part = "step" /\ A /\ UNCHANGED <<part, vars, v10, v11, v12, v13, v14, v15, v16,
    v17, v18, v19, v20>>
StreamStep(A) == part = "stream" /\ A /\ UNCHANGED <<part, vars, v9, v10, v11, v12, v13, v14,
    v15, v16, v17, v18, v19, v20>>

\* The fairness of each component's specification.  A behaviour is of one
\* component, so one conjunct can serve for one action of each.
AllFairSpec ==
    /\ AllSpec
    /\ WF_allVars(
           \/ OwnStep(Clock)
           \/ ConsStep(Cons!WriterStep("w1") /\ v6["w1"].pc # "idle")
           \/ SessionStep(Session!Progress)
           \/ StepStep(Step!Exec(1))
           \/ StreamStep(Stream!Proceed))
    /\ WF_allVars(
           \/ OwnStep(WatchdogRead)
           \/ ConsStep(Cons!OwnerStep)
           \/ StepStep(Step!Exec(2)))
    /\ WF_allVars(
           \/ OwnStep(\E ok \in BOOLEAN : WatchdogEngine(ok))
           \/ ConsStep(Cons!StopGate)
           \/ StepStep(Step!Trap(1)))
    /\ WF_allVars(
           \/ OwnStep(\E r \in {"ok", "other", "restore"}, a \in {"saved", "armed"} : UpdateEngine("a1", r, a))
           \/ ConsStep(Cons!StopReturn)
           \/ StepStep(Step!Trap(2)))
    /\ WF_allVars(
           \/ OwnStep(UpdateFinish("a1"))
           \/ StepStep(Step!Client(H("c", 1))))
    /\ WF_allVars(StepStep(Step!Client(Go(TRUE, -1))))
    /\ SF_allVars(
           \/ OwnStep(WatchdogEngine(TRUE))
           \/ ConsStep(Cons!Pump \/ Cons!OpenBegin)
           \/ GateStep(Gate!OwnStep("app")))
    /\ SF_allVars(
           \/ OwnStep(LeaseServed)
           \/ ConsStep(Cons!OwnerLocks)
           \/ GateStep(Gate!OwnStep("server")))
    /\ SF_allVars(
           \/ OwnStep(wd.recovered /\ LeaseServed)
           \/ ConsStep(Cons!WriteComplete)
           \/ GateStep(Gate!LifeStep))

-----------------------------------------------------------------------------
\* Console: a queued record reaches the client or its session ends, and
\* uvdb_stop_server returns.
Delivered ==
    /\ \A n \in 1 .. 2 : []<>(part = "console" => ~Cons!Stuck(n))
    /\ []<>(part = "console" => ~Cons!StopPending)

\* Every exception handler returns, and so do uvdb_start_server,
\* uvdb_stop_server and uvdb_shutdown; a requested stop of the session ends
\* with everything restored, or waits for a server thread that the retained
\* stop suspends; every call of the profiler's consumer returns, by its
\* limits if not by its deadline.
CallsReturn ==
    /\ []<>(part = "exception" => ~Gate!InCall)
    /\ \A f \in Gate!Frames : []<>(part = "exception" => ~Gate!Active(f))
    /\ []<>(part = "session" => ~Session!Waiting)
    /\ []<>(part = "stream" => Stream!Idle)

\* Steps: a thread stepped alone comes back to the client, its peers being
\* held, and a client that keeps stepping gets it out of a load-exclusive
\* retry loop.
LeavesRetryLoop ==
    /\ []<>(part = "step" => ~Step!RunsAlone)
    /\ \A t \in {1, 2} : []<>(part = "step" => ~Step!Retries(t))

=============================================================================
