------------------------------ MODULE MCServer ------------------------------
(***************************************************************************)
(* The parts of the debug server in the target process, and the stream of a *)
(* profiler capture, for TLC: safety on the larger instances.               *)
(*                                                                         *)
(* A behaviour is of one component, the one `part` names from the start:    *)
(* the components do not interact here, they are checked side by side.  The *)
(* component this module extends has its own variables.  The variables v1,  *)
(* v2, ... are the state of each of the others, in the order of its own     *)
(* declaration; those it does not need stay 0.                              *)
(***************************************************************************)
EXTENDS Console, TLC, StepPrograms

CONSTANTS w1, w2   \* model values

VARIABLES
    part,           \* the component this behaviour is of
    v1, v2, v3, v4, v5, v6, v7, v8, v9, v10, v11, v12, v13, v14, v15, v16, v17, v18, v19, v20

partVars == <<v1, v2, v3, v4, v5, v6, v7, v8, v9, v10, v11, v12, v13, v14, v15, v16, v17, v18,
    v19, v20>>
allVars == <<part, vars, partVars>>

Symmetry == Permutations({w1, w2})

\* Two cells of code, two breakpoint slots, two faults.
Session == INSTANCE DebugSession WITH
    Cells <- {1, 2}, Data <- {"d1", "d2"}, Slots <- 2, MaxFaults <- 2,
    code <- v1, stop <- v2, sock <- v3, at <- v4, begun <- v5, life <- v6,
    keeper <- v7, faults <- v8, last <- v9, want <- v10, tampered <- v11,
    raced <- v12

\* An application thread and the server thread, two starts, one failing call.
Gate == INSTANCE ExceptionGate WITH
    Apps <- {"app"}, Server <- "server", Types <- {"undef"}, NoOne <- "noone",
    Before <- {"app"}, Builds <- {TRUE}, MaxTraps <- 1, MaxStarts <- 2,
    MaxFaults <- 1,
    frame <- v1, guard <- v2, chaining <- v3, admissions <- v4, gate <- v5,
    lock <- v6, handoff <- v7, session <- v8, life <- v9, slots <- v10, mask <- v11,
    server <- v12, async <- v13, build <- v14, stopper <- v15, traps <- v16,
    faults <- v17, misread <- v18, early <- v19, doubled <- v20

\* The same threads, and a fault inside the handler of another.
Nested == INSTANCE ExceptionGate WITH
    Apps <- {"app"}, Server <- "server", Types <- {"undef"}, NoOne <- "noone",
    Before <- {"app"}, Builds <- {TRUE}, MaxTraps <- 2, MaxStarts <- 1,
    MaxFaults <- 0,
    frame <- v1, guard <- v2, chaining <- v3, admissions <- v4, gate <- v5,
    lock <- v6, handoff <- v7, session <- v8, life <- v9, slots <- v10, mask <- v11,
    server <- v12, async <- v13, build <- v14, stopper <- v15, traps <- v16,
    faults <- v17, misread <- v18, early <- v19, doubled <- v20

\* Two threads on each of four programs, one slot for traps.
Step == INSTANCE ThreadStep WITH
    Threads <- {1, 2}, Programs <- StepPrograms, Packets <- StepPackets,
    MaxPoints <- 1, InstrLimit <- 4, UnitLimit <- 6,
    prog <- v1, th <- v2, mem <- v3, points <- v4, sel <- v5, exc <- v6,
    runs <- v7, step <- v8, ghost <- v9

\* A profiler capture in chunks: batches of two events, metadata, partial
\* sends.
Stream == INSTANCE ProfilerStream WITH
    Versions <- {2}, Capacity <- 2, MaxEvents <- 2, MaxBatch <- 2, SendChunk <- 2,
    MaxSends <- 2, MaxWaits <- 1, Keys <- {1}, MaxKeys <- 1, MaxChunks <- 4,
    MaxCaptures <- 1, MaxLoss <- 0, MaxFaults <- 1,
    ring <- v1, w <- v2, sink <- v3, be <- v4, wire <- v5, call <- v6,
    ghost <- v7, faults <- v8

\* Two captures of either version, a ring that overflows.
Captures == INSTANCE ProfilerStream WITH
    Versions <- {1, 2}, Capacity <- 1, MaxEvents <- 2, MaxBatch <- 1, SendChunk <- 2,
    MaxSends <- 1, MaxWaits <- 1, Keys <- {}, MaxKeys <- 0, MaxChunks <- 3,
    MaxCaptures <- 2, MaxLoss <- 1, MaxFaults <- 1,
    ring <- v1, w <- v2, sink <- v3, be <- v4, wire <- v5, call <- v6,
    ghost <- v7, faults <- v8

-----------------------------------------------------------------------------
AllInit ==
    /\ Init
    /\ \/ part = "console" /\ v1 = 0 /\ v2 = 0 /\ v3 = 0 /\ v4 = 0 /\ v5 = 0
          /\ v6 = 0 /\ v7 = 0 /\ v8 = 0 /\ v9 = 0 /\ v10 = 0 /\ v11 = 0
          /\ v12 = 0 /\ v13 = 0 /\ v14 = 0 /\ v15 = 0 /\ v16 = 0 /\ v17 = 0
          /\ v18 = 0 /\ v19 = 0 /\ v20 = 0
       \/ part = "session" /\ Session!Init /\ v13 = 0 /\ v14 = 0 /\ v15 = 0
          /\ v16 = 0 /\ v17 = 0 /\ v18 = 0 /\ v19 = 0 /\ v20 = 0
       \/ part = "exception" /\ Gate!Init
       \/ part = "nested" /\ Nested!Init
       \/ part = "step" /\ Step!Init /\ v10 = 0 /\ v11 = 0 /\ v12 = 0 /\ v13 = 0
          /\ v14 = 0 /\ v15 = 0 /\ v16 = 0 /\ v17 = 0 /\ v18 = 0 /\ v19 = 0
          /\ v20 = 0
       \/ part = "stream" /\ Stream!Init /\ v9 = 0 /\ v10 = 0 /\ v11 = 0 /\ v12 = 0
          /\ v13 = 0 /\ v14 = 0 /\ v15 = 0 /\ v16 = 0 /\ v17 = 0 /\ v18 = 0
          /\ v19 = 0 /\ v20 = 0
       \/ part = "captures" /\ Captures!Init /\ v9 = 0 /\ v10 = 0 /\ v11 = 0
          /\ v12 = 0 /\ v13 = 0 /\ v14 = 0 /\ v15 = 0 /\ v16 = 0 /\ v17 = 0
          /\ v18 = 0 /\ v19 = 0 /\ v20 = 0

AllNext ==
    \/ part = "console" /\ Next /\ UNCHANGED <<part, partVars>>
    \/ part = "session" /\ Session!Next /\ UNCHANGED <<part, vars, v13, v14, v15, v16, v17,
         v18, v19, v20>>
    \/ part = "exception" /\ Gate!Next /\ UNCHANGED <<part, vars>>
    \/ part = "nested" /\ Nested!Next /\ UNCHANGED <<part, vars>>
    \/ part = "step" /\ Step!Next /\ UNCHANGED <<part, vars, v10, v11, v12, v13, v14, v15,
         v16, v17, v18, v19, v20>>
    \/ part = "stream" /\ Stream!Next /\ UNCHANGED <<part, vars, v9, v10, v11, v12, v13,
         v14, v15, v16, v17, v18, v19, v20>>
    \/ part = "captures" /\ Captures!Next /\ UNCHANGED <<part, vars, v9, v10, v11, v12,
         v13, v14, v15, v16, v17, v18, v19, v20>>

AllSpec == AllInit /\ [][AllNext]_allVars

-----------------------------------------------------------------------------


\* Steps: a step executes one instruction, or one exclusive sequence, of the
\* thread the client named, and is trapped right after it; the client's
\* breakpoints survive, and no temporary trap does.
StepExact ==
    part = "step" => Step!TypeOK /\ Step!StepExact /\ Step!AskedIsServed /\ Step!PointsKept

\* Stream: the peer accepts a capture to its end and no part of one, with
\* every event taken from the ring counted once, as written or as lost;
\* nothing follows a torn chunk, a failed sink stays failed, and a later
\* close can release what a failure left.
CaptureWhole ==
    /\ [](/\ part = "stream" => Stream!TypeOK /\ Stream!StreamWhole /\ Stream!ClosedIsAccepted /\
              Stream!PrefixRefused /\ Stream!CaptureComplete /\ Stream!EventsAccounted /\
              Stream!NothingLeaked
          /\ part = "captures" => Captures!TypeOK /\ Captures!StreamWhole /\ Captures!ClosedIsAccepted /\
              Captures!PrefixRefused /\ Captures!CaptureComplete /\ Captures!EventsAccounted /\
              Captures!NothingLeaked)
    /\ [][(part = "captures" => Captures!FailureStays)]_allVars

=============================================================================
