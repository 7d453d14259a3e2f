----------------------------- MODULE MCStopLog ------------------------------
(***************************************************************************)
(* The stop session of the kernel companion, and the UDP logger of the     *)
(* application, for TLC.                                                   *)
(*                                                                         *)
(* A behaviour is of one component, the one `part` names from the start:   *)
(* the components do not interact, they are checked side by side, and the  *)
(* variables of the other stay as they are.  The logger's variables have   *)
(* the names of DebugNet.                                                  *)
(***************************************************************************)
EXTENDS MCKernelStop, TLC

CONSTANTS l1, l2   \* model values: two threads of the application

VARIABLES
    part,           \* the component this behaviour is of
    gate, state, req, owner, wake, sema, sock, queue, job, lock, th, proc, writes, faults, broke

logVars ==
    <<gate, state, req, owner, wake, sema, sock, queue, job, lock, th, proc, writes, faults, broke>>
bothVars == <<part, vars, logVars>>

Symmetry == Permutations({l1, l2})

\* Two starts; the only messages are those of start itself.
Log == INSTANCE DebugNet WITH
    Threads <- {l1, l2}, NoThread <- "nobody", Slots <- 1, MaxStarts <- 2, MaxWrites <- 0,
    MaxFaults <- 0

\* One start and one failing call.
Fails == INSTANCE DebugNet WITH
    Threads <- {l1, l2}, NoThread <- "nobody", Slots <- 1, MaxStarts <- 1, MaxWrites <- 0,
    MaxFaults <- 1

\* One start and a further message, which may find the queue full.
Writes == INSTANCE DebugNet WITH
    Threads <- {l1, l2}, NoThread <- "nobody", Slots <- 1, MaxStarts <- 1, MaxWrites <- 1,
    MaxFaults <- 0

BothInit ==
    /\ part \in {"stop", "log", "fails", "writes"}
    /\ Init
    /\ Log!Init
    /\ part # "stop" => thread = [t \in Threads |-> "running"]

BothNext ==
    \/ part = "stop" /\ Next /\ UNCHANGED <<part, logVars>>
    \/ part = "log" /\ Log!Next /\ UNCHANGED <<part, vars>>
    \/ part = "fails" /\ Fails!Next /\ UNCHANGED <<part, vars>>
    \/ part = "writes" /\ Writes!Next /\ UNCHANGED <<part, vars>>

BothSpec == BothInit /\ [][BothNext]_bothVars

-----------------------------------------------------------------------------
\* What holds of the logger in each of its instances, whichever calls race.
LoggerSafe ==
    /\ Log!WritersCounted            \* the gate counts every write inside, across restarts
    /\ Log!UsedWhileThere            \* queue and semaphore are used only while there
    /\ Log!CallbackOfThisSession     \* the end of a thread stops only the logger it started
    /\ Log!ExitJoins                 \* exit() frees the heap after the sender and every writer
    /\ Log!StoppedIsEmpty            \* a logger that can be started again left nothing behind
    /\ Log!DrainedByStop             \* a stop gives every accepted message to the network first
    /\ Log!ToldIsWoken               \* a sender told to end is woken, or a call still has to

\* Logger: no start, stop, write, end of a thread or exit() uses what another has
\* released, loses a writer or leaves the sender asleep; the queue and the gate keep
\* their limits.
LoggerStopsClean ==
    /\ part # "stop" => LoggerSafe
    /\ part = "log" => Log!TypeOK
    /\ part = "fails" => Fails!TypeOK
    /\ part = "writes" => Writes!TypeOK

=============================================================================
