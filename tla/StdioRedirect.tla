--------------------------- MODULE StdioRedirect ---------------------------
(***************************************************************************)
(* src/stdio_redirect.c: stdout and stderr are moved to the write end of a  *)
(* socket pair whose read end a capture thread drains, and moved back.      *)
(*                                                                         *)
(* fdmap is newlib's descriptor table.  A descriptor is moved by exchanging *)
(* two entries; the entry that receives the old mapping is closed.  Every   *)
(* library call may fail; what could not be closed or undone is kept in     *)
(* stdio_state for the next uvdb_restore_stdio.                             *)
(*                                                                         *)
(* Both functions run under stdio_mutex from start to end, except for the   *)
(* wait for the capture thread in uvdb_redirect_stdio.                      *)
(***************************************************************************)
EXTENDS Integers, FiniteSets, FiniteSetsExt

CONSTANTS
    Callers,        \* threads that redirect and restore
    NoCaller,       \* stdio_mutex is free
    MaxFd,          \* size of the descriptor table, large enough for every call
    MaxBridges,     \* bound: socket pairs created
    MaxFaults       \* bound: library calls that fail

VARIABLES
    fdmap,          \* __vita_fdmap: the object behind each descriptor
    st,             \* stdio_state
    mutex,          \* the holder of stdio_mutex
    pc,             \* where each caller is
    op,             \* what each caller called: "redirect" or "restore"
    reader,         \* the capture thread of each socket pair
    shut,           \* socket pairs that have been shut down
    bridges,        \* socket pairs created so far
    faults,         \* library calls that failed so far
    result          \* result of the last call of each caller: "ok" or "error"

vars == <<fdmap, st, mutex, pc, op, reader, shut, bridges, faults, result>>

Streams == {"stdout", "stderr"}
Fd(s) == IF s = "stdout" THEN 1 ELSE 2
Fds == 1 .. MaxFd
None == 0
Bridges == 1 .. MaxBridges

Closed == [end |-> "closed", of |-> 0]
Original(s) == [end |-> s, of |-> 0]
ReadEnd(b) == [end |-> "read", of |-> b]
WriteEnd(b) == [end |-> "write", of |-> b]
Objects == {Closed} \cup {Original(s) : s \in Streams}
           \cup {ReadEnd(b) : b \in Bridges} \cup {WriteEnd(b) : b \in Bridges}

(* The descriptor table has room for the two streams and what stdio_state    *)
(* can hold, and calls do not overlap: uvdb_redirect_stdio gives the mutex    *)
(* away while it waits, and two callers at once can be in each other's way.   *)
StdioConstants ==
    /\ MaxFd \in Nat /\ MaxFd >= 12 /\ MaxBridges \in Nat /\ MaxFaults \in Nat
    /\ \E c : Callers = {c} /\ c # NoCaller

(* The four deferred-close slots: one per stream for each direction. *)
Slots == Streams \X {"redirect", "restore"}

Init ==
    /\ fdmap = [f \in Fds |-> IF f = 1 THEN Original("stdout")
                              ELSE IF f = 2 THEN Original("stderr") ELSE Closed]
    /\ st = [active |-> FALSE, redirected |-> [s \in Streams |-> FALSE],
             readFd |-> None, writeFd |-> None, saved |-> [s \in Streams |-> None],
             deferred |-> [d \in Slots |-> None], thread |-> 0, started |-> FALSE,
             ready |-> FALSE, wakeProven |-> FALSE]
    /\ mutex = NoCaller
    /\ pc = [c \in Callers |-> "idle"]
    /\ op = [c \in Callers |-> "restore"]
    /\ reader = [b \in Bridges |-> "none"]
    /\ shut = {}
    /\ bridges = 0
    /\ faults = 0
    /\ result = [c \in Callers |-> "ok"]

-----------------------------------------------------------------------------
(* Library calls.  A call that fails uses up one of MaxFaults.              *)

Succeeds == UNCHANGED faults
Fails(n) == faults + n <= MaxFaults /\ faults' = faults + n   \* bound

FreeFds == {f \in Fds : fdmap[f] = Closed}
NewFd == Min(FreeFds)

(* dup2 as an exchange of two entries. *)
Exchange(map, f, g) == [map EXCEPT ![f] = map[g], ![g] = map[f]]

(* The end of file that makes the capture thread's read return. *)
Eof(b) == b \in shut \/ \A f \in Fds : fdmap[f] # WriteEnd(b)

Goto(c, next) == pc' = [pc EXCEPT ![c] = next]
Return(c, r) ==
    /\ Goto(c, "idle")
    /\ mutex' = NoCaller
    /\ result' = [result EXCEPT ![c] = r]
Holds(c, at) == pc[c] = at /\ mutex = c

BridgeKept == UNCHANGED <<reader, shut, bridges>>

-----------------------------------------------------------------------------
(* uvdb_redirect_stdio *)

RedirectCall(c) ==
    /\ pc[c] = "idle" /\ mutex = NoCaller
    /\ op' = [op EXCEPT ![c] = "redirect"]
    /\ IF st.active
       THEN /\ result' = [result EXCEPT ![c] =
                   IF \A s \in Streams : st.redirected[s] THEN "ok" ELSE "error"]
            /\ UNCHANGED <<pc, mutex>>
       ELSE /\ bridges < MaxBridges                           \* bound
            /\ Goto(c, "saveOut")
            /\ mutex' = c
            /\ UNCHANGED result
    /\ UNCHANGED <<fdmap, st, faults>> /\ BridgeKept

Save(c, at, s, next) ==
    /\ Holds(c, at)
    /\ \/ /\ Succeeds
          /\ fdmap' = [fdmap EXCEPT ![NewFd] = fdmap[Fd(s)]]
          /\ st' = [st EXCEPT !.saved[s] = NewFd]
          /\ Goto(c, next)
       \/ /\ Fails(1)
          /\ st' = [st EXCEPT !.saved[s] = None]
          /\ Goto(c, "undoOut")
          /\ UNCHANGED fdmap
    /\ UNCHANGED <<mutex, op, result>> /\ BridgeKept

(* socketpair, then fcntl on the write end. *)
MakeBridge(c) ==
    LET b     == bridges + 1
        read  == NewFd
        write == Min(FreeFds \ {read})
    IN  /\ Holds(c, "bridge")
        /\ \/ /\ b \in Bridges                  \* bound
              /\ bridges' = b
              /\ fdmap' = [fdmap EXCEPT ![read] = ReadEnd(b), ![write] = WriteEnd(b)]
              /\ st' = [st EXCEPT !.readFd = read, !.writeFd = write,
                                  !.wakeProven = FALSE]
              /\ \/ Succeeds /\ Goto(c, "thread")
                 \/ Fails(1) /\ Goto(c, "undoOut")
           \/ /\ Fails(1)
              /\ Goto(c, "undoOut")
              /\ UNCHANGED <<fdmap, st, bridges>>
        /\ UNCHANGED <<mutex, op, result, reader, shut>>

(* pthread_create; waiting for thread_ready releases the mutex. *)
CreateThread(c) ==
    /\ Holds(c, "thread")
    /\ \/ /\ Succeeds
          /\ reader' = [reader EXCEPT ![bridges] = "starting"]
          /\ st' = [st EXCEPT !.thread = bridges, !.started = TRUE]
          /\ Goto(c, "wait")
          /\ mutex' = IF st.ready THEN mutex ELSE NoCaller
       \/ /\ Fails(1)
          /\ Goto(c, "undoOut")
          /\ UNCHANGED <<reader, st, mutex>>
    /\ UNCHANGED <<fdmap, op, shut, bridges, result>>

WaitReady(c) ==
    /\ pc[c] = "wait" /\ mutex \in {c, NoCaller} /\ st.ready
    /\ mutex' = c
    /\ Goto(c, "moveOut")
    /\ UNCHANGED <<fdmap, st, op, faults, result>> /\ BridgeKept

(* redirect_dup2 with its deferred-close slot: dup to a staging descriptor, *)
(* exchange, close the staging descriptor (now the old destination).        *)
Move(c, at, s, next) ==
    LET slot == <<s, "redirect">>
        dup  == [fdmap EXCEPT ![NewFd] = fdmap[st.writeFd]]
    IN  /\ Holds(c, at)
        /\ \/ /\ st.deferred[slot] = None
              /\ Goto(c, next)
              /\ \/ /\ Succeeds
                    /\ fdmap' = [Exchange(dup, Fd(s), NewFd) EXCEPT ![NewFd] = Closed]
                    /\ st' = [st EXCEPT !.redirected[s] = TRUE]
                 \/ /\ Fails(1)                               \* close
                    /\ fdmap' = Exchange(dup, Fd(s), NewFd)
                    /\ st' = [st EXCEPT !.redirected[s] = TRUE, !.deferred[slot] = NewFd]
           \/ /\ Goto(c, "undoOut")
              /\ \/ /\ IF st.deferred[slot] = None THEN Fails(1) ELSE Succeeds
                    /\ UNCHANGED <<fdmap, st>>                \* dup, or the lock
                 \/ /\ st.deferred[slot] = None /\ Fails(2)   \* the lock and close
                    /\ fdmap' = dup
                    /\ st' = [st EXCEPT !.deferred[slot] = NewFd]
        /\ UNCHANGED <<mutex, op, result>> /\ BridgeKept

RedirectDone(c) ==
    /\ Holds(c, "moved")
    /\ st' = [st EXCEPT !.active = TRUE]
    /\ Return(c, "ok")
    /\ UNCHANGED <<fdmap, op, faults>> /\ BridgeKept

-----------------------------------------------------------------------------
(* uvdb_restore_stdio, and the failure path of uvdb_redirect_stdio, which    *)
(* does the same without giving up early.                                   *)

RestoreCall(c) ==
    /\ pc[c] = "idle" /\ mutex = NoCaller
    /\ op' = [op EXCEPT ![c] = "restore"]
    /\ IF st.active
       THEN Goto(c, "undoOut") /\ mutex' = c /\ UNCHANGED result
       ELSE UNCHANGED <<pc, mutex>> /\ result' = [result EXCEPT ![c] = "ok"]
    /\ UNCHANGED <<fdmap, st, faults>> /\ BridgeKept

(* redirect_move_saved: exchange the saved descriptor and the stream, close *)
(* what was saved (now the bridge).                                         *)
RestoreSlotShared(s) == <<s, "redirect">>
RestoreSlot(s) == <<s, "restore">>

Undo(c, at, s, next) ==
    LET slot  == RestoreSlot(s)
        saved == st.saved[s]
        moved == Exchange(fdmap, Fd(s), saved)
    IN  /\ Holds(c, at)
        /\ Goto(c, next)
        /\ \/ /\ st.redirected[s] /\ saved # None /\ st.deferred[slot] = None
              /\ \/ /\ Succeeds
                    /\ fdmap' = [moved EXCEPT ![saved] = Closed]
                    /\ st' = [st EXCEPT !.redirected[s] = FALSE, !.saved[s] = None]
                 \/ /\ Fails(1)                               \* close
                    /\ fdmap' = moved
                    /\ st' = [st EXCEPT !.redirected[s] = FALSE, !.saved[s] = None,
                                        !.deferred[slot] = saved]
                 \/ Fails(1) /\ UNCHANGED <<fdmap, st>>       \* the lock
           \/ /\ ~st.redirected[s] \/ saved = None \/ st.deferred[slot] # None
              /\ Succeeds /\ UNCHANGED <<fdmap, st>>
        /\ UNCHANGED <<mutex, op, result>> /\ BridgeKept

SomeRedirected == \E s \in Streams : st.redirected[s]

(* The bridge is kept while a stream still needs it. *)
UndoneOk(c) ==
    /\ Holds(c, "undone")
    /\ IF op[c] = "restore" /\ SomeRedirected
       THEN Return(c, "ok")
       ELSE Goto(c, "closeSaved") /\ UNCHANGED <<mutex, result>>
    /\ UNCHANGED <<fdmap, st, op, faults>> /\ BridgeKept
Undone(c) ==
    /\ Holds(c, "undone")
    /\ IF op[c] = "restore" /\ SomeRedirected
       THEN Return(c, "error")
       ELSE Goto(c, "closeSaved") /\ UNCHANGED <<mutex, result>>
    /\ UNCHANGED <<fdmap, st, op, faults>> /\ BridgeKept

(* Close the descriptors of a set, except those whose close fails. *)
Close(fds, stuck) ==
    /\ stuck \subseteq fds
    /\ Fails(Cardinality(stuck))
    /\ fdmap' = [f \in Fds |-> IF f \in fds \ stuck THEN Closed ELSE fdmap[f]]

(* close_unused_saved_descriptors_locked *)
CloseSaved(c) ==
    LET unused == {s \in Streams : ~st.redirected[s] /\ st.saved[s] # None}
    IN  /\ Holds(c, "closeSaved")
        /\ \E stuck \in SUBSET {st.saved[s] : s \in unused} :
              /\ Close({st.saved[s] : s \in unused}, stuck)
              /\ st' = [st EXCEPT !.saved =
                           [s \in Streams |-> IF s \in unused /\ st.saved[s] \notin stuck
                                              THEN None ELSE st.saved[s]]]
        /\ Goto(c, IF op[c] = "redirect" /\ SomeRedirected
                   THEN "closeDeferred" ELSE "shutdown")
        /\ UNCHANGED <<mutex, op, result>> /\ BridgeKept

(* stop_capture_thread_locked: both ends are shut down.  One shutdown that   *)
(* worked is enough.                                                        *)
Ends == {st.readFd, st.writeFd} \ {None}

Shutdown(c) ==
    /\ Holds(c, "shutdown")
    /\ \E failed \in SUBSET Ends :
          /\ Fails(Cardinality(failed))
          /\ shut' = shut \cup {fdmap[f].of : f \in Ends \ failed}
          /\ st' = [st EXCEPT !.wakeProven = (Ends # failed) \/ @]
    /\ Goto(c, "closeWriter")
    /\ UNCHANGED <<fdmap, mutex, op, result, reader, bridges>>

(* Without a shutdown, closing the writer wakes the reader only when no      *)
(* other descriptor can still alias it.                                     *)
WriterCloseIsFinalStreams == ~SomeRedirected
WriterCloseIsFinal ==
    ~SomeRedirected /\ \A d \in Slots : st.deferred[d] = None

CloseWriter(c) ==
    LET attempt == st.writeFd # None
                   /\ (~st.started \/ st.wakeProven \/ WriterCloseIsFinal)
        proven  == st.wakeProven \/ (st.started /\ WriterCloseIsFinal)
    IN  /\ Holds(c, "closeWriter")
        /\ \/ /\ attempt /\ Close({st.writeFd}, {})
              /\ st' = [st EXCEPT !.writeFd = None, !.wakeProven = proven]
              /\ Goto(c, IF ~st.started THEN "closeReader"
                         ELSE IF proven THEN "join" ELSE "closeDeferred")
           \/ /\ attempt => Fails(1)
              /\ ~attempt => Succeeds
              /\ Goto(c, IF ~st.started THEN "closeReader"
                         ELSE IF st.wakeProven THEN "join" ELSE "closeDeferred")
              /\ UNCHANGED <<fdmap, st>>
        /\ UNCHANGED <<mutex, op, result>> /\ BridgeKept

(* pthread_join waits for the capture thread, with the mutex held. *)
Join(c) ==
    /\ Holds(c, "join")
    /\ \/ /\ reader[st.thread] = "exited" /\ Succeeds
          /\ reader' = [reader EXCEPT ![st.thread] = "none"]
          /\ st' = [st EXCEPT !.started = FALSE, !.wakeProven = FALSE]
          /\ Goto(c, "closeReader")
       \/ /\ Fails(1)
          /\ Goto(c, "closeDeferred")
          /\ UNCHANGED <<reader, st>>
    /\ UNCHANGED <<fdmap, mutex, op, shut, bridges, result>>

CloseReader(c) ==
    LET fds == {st.readFd} \ {None}
    IN  /\ Holds(c, "closeReader")
        /\ \E stuck \in SUBSET fds :
              /\ Close(fds, stuck)
              /\ st' = [st EXCEPT !.readFd = IF stuck = {} THEN None ELSE @,
                                  !.ready = FALSE, !.wakeProven = FALSE]
        /\ Goto(c, "closeDeferred")
        /\ UNCHANGED <<mutex, op, result>> /\ BridgeKept

(* stdio_has_owned_resources_locked *)
OwnedFds(s) == ({s.readFd, s.writeFd} \cup {s.saved[x] : x \in Streams}
                \cup {s.deferred[d] : d \in Slots}) \ {None}
HasOwnedResourcesNotDeferred(s) ==
    (\E x \in Streams : s.redirected[x]) \/ s.started
    \/ {s.readFd, s.writeFd} # {None}
HasOwnedResources(s) ==
    (\E x \in Streams : s.redirected[x]) \/ s.started \/ OwnedFds(s) # {}

(* close_deferred_descriptors_locked, and the end of the call. *)
CloseDeferred(c) ==
    LET fds == {st.deferred[d] : d \in Slots} \ {None}
    IN  /\ Holds(c, "closeDeferred")
        /\ \E stuck \in SUBSET fds :
              LET after == [st EXCEPT !.deferred =
                               [d \in Slots |-> IF st.deferred[d] \in stuck
                                                THEN st.deferred[d] ELSE None]]
              IN  /\ Close(fds, stuck)
                  /\ st' = [after EXCEPT !.active = HasOwnedResources(after)]
                  /\ Return(c, IF op[c] = "restore" /\ ~HasOwnedResources(after)
                               THEN "ok" ELSE "error")
        /\ UNCHANGED op /\ BridgeKept

CallerStep(c) ==
    \/ RedirectCall(c)
    \/ Save(c, "saveOut", "stdout", "saveErr") \/ Save(c, "saveErr", "stderr", "bridge")
    \/ MakeBridge(c) \/ CreateThread(c) \/ WaitReady(c)
    \/ Move(c, "moveOut", "stdout", "moveErr") \/ Move(c, "moveErr", "stderr", "moved")
    \/ RedirectDone(c)
    \/ RestoreCall(c)
    \/ Undo(c, "undoOut", "stdout", "undoErr") \/ Undo(c, "undoErr", "stderr", "undone")
    \/ Undone(c) \/ CloseSaved(c)
    \/ Shutdown(c) \/ CloseWriter(c) \/ Join(c) \/ CloseReader(c)
    \/ CloseDeferred(c)

-----------------------------------------------------------------------------
(* stdio_capture_main *)

ReaderReady(b) ==
    /\ reader[b] = "starting" /\ mutex = NoCaller
    /\ reader' = [reader EXCEPT ![b] = "reading"]
    /\ st' = [st EXCEPT !.ready = TRUE]
    /\ UNCHANGED <<fdmap, mutex, pc, op, shut, bridges, faults, result>>

ReaderExit(b) ==
    /\ reader[b] = "reading"
    /\ \/ Eof(b) /\ Succeeds
       \/ Fails(1)                                            \* read
    /\ reader' = [reader EXCEPT ![b] = "exited"]
    /\ UNCHANGED <<fdmap, st, mutex, pc, op, shut, bridges, result>>

ReaderStep(b) == ReaderReady(b) \/ ReaderExit(b)

Next ==
    \/ \E c \in Callers : CallerStep(c)
    \/ \E b \in Bridges : ReaderStep(b)

Spec == Init /\ [][Next]_vars

(* Threads go on, and an application whose streams are redirected calls      *)
(* uvdb_restore_stdio in the end, again after a failure.                     *)
Fairness ==
    /\ \A c \in Callers : WF_vars(pc[c] # "idle" /\ CallerStep(c))
    /\ \A c \in Callers : WF_vars(RestoreCall(c))
    /\ \A b \in Bridges : WF_vars(ReaderReady(b)) /\ WF_vars(Eof(b) /\ ReaderExit(b))

LiveSpec == Spec /\ Fairness

-----------------------------------------------------------------------------
(* The types of the variables. *)
TypeOK ==
    /\ fdmap \in [Fds -> Objects]
    /\ st.redirected \in [Streams -> BOOLEAN]
    /\ OwnedFds(st) \subseteq 3 .. MaxFd
    /\ {st.active, st.started, st.ready, st.wakeProven} \subseteq BOOLEAN
    /\ st.thread \in 0 .. MaxBridges
    /\ mutex \in Callers \cup {NoCaller}
    /\ op \in [Callers -> {"redirect", "restore"}]
    /\ result \in [Callers -> {"ok", "error"}]
    /\ reader \in [Bridges -> {"none", "starting", "reading", "exited"}]
    /\ shut \subseteq Bridges
    /\ bridges \in 0 .. MaxBridges
    /\ faults \in 0 .. MaxFaults

(* pthread_join is called with the mutex held, so it is only called once the *)
(* capture thread has left or its read is sure to return, whichever shutdown *)
(* and close calls failed (reader_wake_proven).                              *)
JoinNeverBlocks ==
    \A c \in Callers : pc[c] = "join" =>
        reader[st.thread] = "exited" \/ Eof(st.thread)

(* "Never destroy the bridge or its remaining backup while a failed stream   *)
(* restore still needs it": a stream that writes to a socket pair can be     *)
(* moved back to its original, and the pair is alive.                        *)
BridgeKeptWhileNeeded ==
    \A s \in Streams : fdmap[Fd(s)] # Original(s) =>
        /\ st.saved[s] # None /\ fdmap[st.saved[s]] = Original(s)
        /\ fdmap[Fd(s)].of \notin shut

(* Between calls every open descriptor and every thread is one that          *)
(* stdio_state still knows, and inactive means that nothing is left.         *)
NothingLost ==
    (\A c \in Callers : pc[c] = "idle") =>
        /\ {f \in Fds : fdmap[f] # Closed} = {1, 2} \cup OwnedFds(st)
        /\ \A b \in Bridges : reader[b] # "none" => st.started /\ st.thread = b
        /\ ~st.active => OwnedFds(st) = {} /\ ~st.started

(* No failed call leaves a stream without its backup and a live bridge, nor  *)
(* a descriptor or a thread that no later call will find.                    *)
BridgeSound == BridgeKeptWhileNeeded /\ NothingLost

(* A restore that returned 0 has put both streams back.                      *)
RestoreRestores ==
    \A c \in Callers : pc[c] = "idle" /\ op[c] = "restore" /\ result[c] = "ok"
        => \A s \in Streams : fdmap[Fd(s)] = Original(s)

(* A redirection is undone in the end, if restoring is retried: no failure   *)
(* leaves a state that no further call can clean up.                         *)
PutBack == ~st.active /\ \A s \in Streams : fdmap[Fd(s)] = Original(s)
CleanedUp == []<>PutBack

(* "The lifecycle owner keeps this number reserved and closes it after join" *)
(* (src/stdio_redirect.c:171): the descriptor a capture thread reads is the  *)
(* one stdio_state holds.                                                    *)
ReadFdReserved ==
    \A b \in Bridges : reader[b] \in {"starting", "reading"} =>
        st.readFd # None /\ fdmap[st.readFd] = ReadEnd(b)

=============================================================================
