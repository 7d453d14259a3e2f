------------------------------ MODULE Console ------------------------------
(***************************************************************************)
(* The console capture queue (src/uvdb_console.c) and the transport that    *)
(* sends it to the debugger (src/uvdb_console_transport.c), driven as       *)
(* src/uvdb.c and src/stdio_redirect.c drive them.                          *)
(*                                                                         *)
(* Writers call uvdb_console_capture.  One transport owner opens and closes *)
(* sessions and pumps the queue.  uvdb_stop_server closes the capture gate  *)
(* from a third thread.  No call waits: both locks are tried once, with a   *)
(* weak compare-and-exchange that may fail although the lock is free.       *)
(*                                                                         *)
(* A capture is a number of records; the bytes of a record are left out.    *)
(* The circular buffer is a sequence, console_count its length.             *)
(***************************************************************************)
EXTENDS Integers, Sequences, FiniteSets, FiniteSetsExt

CONSTANTS
    Writers,        \* threads that call uvdb_console_capture
    Slots,          \* UVDB_CONSOLE_QUEUE_SLOTS
    Generation,     \* UVDB_CONSOLE_SESSION_GENERATION, the largest generation
    FirstGeneration,\* generation of the closed session at the start
    Sizes,          \* how many records a capture may need
    MaxRecords,     \* bound: records offered by all captures together
    MaxSessions,    \* bound: sessions opened
    MaxStops        \* bound: calls of uvdb_stop_server

VARIABLES
    session,        \* console_session: the generation and its OPEN bit
    queue,          \* console_queue between console_head and console_tail
    nextSequence,   \* console_next_sequence
    queueLock,      \* console_queue_lock
    stats,          \* console_stats
    writer,         \* the capture call of each writer
    owner,          \* the transport owner: where it is, and where a call returns
    transport,      \* uvdb_console_transport
    stop,           \* uvdb_stop_server: where it is, and uvdb_server_stop
    offered,        \* records handed to uvdb_console_capture
    wire,           \* the frames sent in the session, in order
    purged          \* the last session_close returned READY; no session since

vars == <<session, queue, nextSequence, queueLock, stats, writer, owner,
          transport, stop, offered, wire, purged>>
queueVars == <<queue, nextSequence>>
ownerVars == <<owner, transport, wire, purged>>

NoSession == [generation |-> 0, open |-> FALSE]

(* The limits are numbers, and the sessions of one boot do not use up the    *)
(* generations: with 31 bits of generation that takes 2^31 connections.      *)
ConsoleConstants ==
    /\ Slots \in Nat /\ MaxRecords \in Nat /\ MaxStops \in Nat
    /\ Generation \in Nat /\ MaxSessions \in 0 .. Generation
    /\ FirstGeneration \in 0 .. Generation
    /\ Sizes \subseteq Nat

(* A record's epoch is the number of sessions opened when it was captured;  *)
(* the code tells sessions apart by generation alone.                       *)
Record == [generation : 1 .. Generation, sequence : 1 .. MaxRecords,
           epoch : 1 .. MaxSessions]

NoRecord == [generation |-> 0, sequence |-> 0, epoch |-> 0]

Counters == {"opened", "accepted", "sent", "disconnected", "contention",
             "full", "stale", "depth"}

IdleWriter == [pc |-> "idle", session |-> NoSession, epoch |-> 0, left |-> 0,
               accepted |-> 0]

Count(counter, n) == stats' = [stats EXCEPT ![counter] = @ + n]

Init ==
    /\ session = [generation |-> FirstGeneration, open |-> FALSE]
    /\ queue = <<>>
    /\ nextSequence = 0
    /\ queueLock = FALSE
    /\ stats = [c \in Counters |-> 0]
    /\ writer = [w \in Writers |-> IdleWriter]
    /\ owner = [pc |-> "down", return |-> "down", token |-> 0, record |-> NoRecord]
    /\ transport = [noAck |-> FALSE, generation |-> 0, uncommitted |-> 0, failed |-> FALSE]
    /\ stop = [pc |-> "running", calls |-> 0]
    /\ offered = 0
    /\ wire = <<>>
    /\ purged = FALSE

ServerStop == stop.pc # "running"

-----------------------------------------------------------------------------
(* The queue, with queueLock held.                                         *)

(* console_purge_other_generations_locked: from the head, up to the first   *)
(* record of this generation.                                               *)
Kept(generation) ==
    LET mine == {i \in DOMAIN queue : queue[i].generation = generation}
    IN  IF mine = {} THEN <<>> ELSE SubSeq(queue, Min(mine), Len(queue))

(* Publish the depth, count the records purged, release the lock. *)
Leave(newQueue, stale) ==
    /\ queue' = newQueue
    /\ stats' = [stats EXCEPT !["stale"] = @ + stale, !["depth"] = Len(newQueue)]
    /\ queueLock' = FALSE

TryQueueLock == ~queueLock /\ queueLock' = TRUE

-----------------------------------------------------------------------------
(* uvdb_console_capture.                                                    *)

(* The session is read before the lock is tried. *)
Capture(w, size) ==
    /\ writer[w].pc = "idle"
    /\ offered + size <= MaxRecords                           \* bound
    /\ offered' = offered + size
    /\ IF session.open
       THEN /\ writer' = [writer EXCEPT ![w] =
                   [pc |-> "lock", session |-> session, epoch |-> stats["opened"],
                    left |-> size, accepted |-> 0]]
            /\ UNCHANGED stats
       ELSE Count("disconnected", size) /\ UNCHANGED writer
    /\ UNCHANGED <<session, queueVars, queueLock, ownerVars, stop>>

CaptureLock(w) ==
    /\ writer[w].pc = "lock"
    /\ TryQueueLock
    /\ writer' = [writer EXCEPT ![w].pc = "recheck"]
    /\ UNCHANGED <<session, queueVars, stats, ownerVars, stop, offered>>

CaptureContendedUncounted(w) ==
    /\ writer[w].pc = "lock"
    /\ writer' = [writer EXCEPT ![w] = IdleWriter]
    /\ UNCHANGED <<session, queueVars, queueLock, stats, ownerVars, stop, offered>>
CaptureContended(w) ==
    /\ writer[w].pc = "lock"
    /\ Count("contention", writer[w].left)
    /\ writer' = [writer EXCEPT ![w] = IdleWriter]
    /\ UNCHANGED <<session, queueVars, queueLock, ownerVars, stop, offered>>

(* The session may have been closed or rotated since it was read. *)
CaptureRecheckNone(w) ==
    /\ writer[w].pc = "recheck"
    /\ writer' = [writer EXCEPT ![w].pc = "add"]
    /\ UNCHANGED <<session, queueVars, queueLock, stats, ownerVars, stop, offered>>
CaptureRecheck(w) ==
    /\ writer[w].pc = "recheck"
    /\ IF session = writer[w].session
       THEN /\ writer' = [writer EXCEPT ![w].pc = "add"]
            /\ UNCHANGED <<queueLock, stats>>
       ELSE /\ writer' = [writer EXCEPT ![w] = IdleWriter]
            /\ queueLock' = FALSE
            /\ Count("stale", writer[w].left)
    /\ UNCHANGED <<session, queueVars, ownerVars, stop, offered>>

(* The new records of writer w, and the step that leaves with a new queue.  *)
Captured(w, n) ==
    [i \in 1 .. n |-> [generation |-> writer[w].session.generation,
                       sequence |-> nextSequence + i, epoch |-> writer[w].epoch]]

LeaveCapture(w, kept, newQueue, n) ==
    /\ writer[w].pc = "add"
    /\ Leave(newQueue, Len(queue) - Len(kept))
    /\ nextSequence' = nextSequence + n
    /\ writer' = [writer EXCEPT ![w].pc = "account", ![w].left = @ - n,
                                ![w].accepted = n]
    /\ UNCHANGED <<session, ownerVars, stop, offered>>

(* Purge, add records while there is room, publish, unlock.  The session    *)
(* may rotate from the recheck on: open cannot purge what is added then.    *)
CaptureAddOverwrites(w) ==
    LET kept == Kept(writer[w].session.generation)
        n    == Min({writer[w].left, Slots})
        room == SubSeq(kept, Max({1, Len(kept) + n - Slots + 1}), Len(kept))
    IN  LeaveCapture(w, room, room \o Captured(w, n), n)
CaptureAddUnbounded(w) ==
    LET kept == Kept(writer[w].session.generation)
        n    == writer[w].left
    IN  LeaveCapture(w, kept, kept \o Captured(w, n), n)
CaptureAdd(w) ==
    LET kept == Kept(writer[w].session.generation)
        n    == Min({writer[w].left, Slots - Len(kept)})
    IN  LeaveCapture(w, kept, kept \o Captured(w, n), n)

CaptureAccount(w) ==
    /\ writer[w].pc = "account"
    /\ stats' = [stats EXCEPT !["accepted"] = @ + writer[w].accepted,
                              !["full"] = @ + writer[w].left]
    /\ writer' = [writer EXCEPT ![w] = IdleWriter]
    /\ UNCHANGED <<session, queueVars, queueLock, ownerVars, stop, offered>>

WriterStep(w) ==
    \/ \E size \in Sizes : Capture(w, size)
    \/ CaptureLock(w)
    \/ CaptureContended(w)
    \/ CaptureRecheck(w)
    \/ CaptureAdd(w)
    \/ CaptureAccount(w)

-----------------------------------------------------------------------------
(* The transport owner.  Goto moves it; Return ends a call.                 *)

Goto(pc) == owner' = [owner EXCEPT !.pc = pc]
Call(pc, return) == owner' = [owner EXCEPT !.pc = pc, !.return = return]
Return == Goto(owner.return)
At(pc) == owner.pc = pc

Quiet == UNCHANGED <<writer, stop, offered>>

(* uvdb_console_session_open.  The lifecycle lock is the owner's alone, so  *)
(* trying it fails only spuriously; the owner retries later.                *)
OpenBusy ==
    /\ At("open") /\ Return
    /\ UNCHANGED <<session, queueVars, queueLock, stats, transport, wire, purged>> /\ Quiet

OpenBegin ==
    /\ At("open")
    /\ stats["opened"] < MaxSessions                          \* bound
    /\ session' = [session EXCEPT !.open = FALSE]
    /\ Goto("openLock")
    /\ UNCHANGED <<queueVars, queueLock, stats, transport, wire, purged>> /\ Quiet

(* The purge is skipped when a writer holds the queue. *)
OpenLock ==
    /\ At("openLock")
    /\ \/ TryQueueLock /\ Goto("openPurge")
       \/ Goto("openPublish") /\ UNCHANGED queueLock
    /\ UNCHANGED <<session, queueVars, stats, transport, wire, purged>> /\ Quiet

OpenPurge ==
    /\ At("openPurge")
    /\ Leave(<<>>, Len(queue))
    /\ Goto("openPublish")
    /\ UNCHANGED <<session, nextSequence, transport, wire, purged>> /\ Quiet

(* Generation 0 means "no session" and is skipped on wrap-around. *)
NextGeneration(g) == IF g = Generation THEN 1 ELSE g + 1

OpenPublish ==
    LET g == NextGeneration(session.generation)
    IN  /\ At("openPublish")
        /\ Count("opened", 1)
        /\ session' = [generation |-> g, open |-> TRUE]
        /\ transport' = [transport EXCEPT !.generation = g]
        /\ wire' = <<>>
        /\ purged' = FALSE
        /\ Return
        /\ UNCHANGED <<queueVars, queueLock>> /\ Quiet

(* uvdb_console_session_close(owner.token).  The gate closes first, by      *)
(* compare-and-exchange; BUSY leaves the queue to be purged lazily.         *)
CloseGate ==
    /\ At("close")
    /\ IF session.generation = owner.token
       THEN session' = [session EXCEPT !.open = FALSE] /\ Goto("closeLock")
       ELSE Return /\ UNCHANGED session
    /\ UNCHANGED <<queueVars, queueLock, stats, transport, wire, purged>> /\ Quiet

CloseLock ==
    /\ At("closeLock")
    /\ \/ TryQueueLock /\ Goto("closePurge")
       \/ Return /\ UNCHANGED queueLock                       \* BUSY
    /\ UNCHANGED <<session, queueVars, stats, transport, wire, purged>> /\ Quiet

ClosePurge ==
    /\ At("closePurge")
    /\ Leave(<<>>, Len(queue))
    /\ purged' = TRUE
    /\ Return
    /\ UNCHANGED <<session, nextSequence, transport, wire>> /\ Quiet

(* uvdb_console_transport_end_connection: the transport forgets the         *)
(* connection, then closes its session if it had one.                       *)
EndConnection(return) ==
    /\ transport' = [noAck |-> FALSE, generation |-> 0, uncommitted |-> 0, failed |-> FALSE]
    /\ owner' = [pc |-> IF transport.generation = 0 THEN return ELSE "close",
                 return |-> return, token |-> transport.generation, record |-> NoRecord]
    /\ UNCHANGED <<session, queueVars, queueLock, stats, wire, purged>> /\ Quiet

-----------------------------------------------------------------------------
(* uvdb_console_transport_pump.                                             *)

Expected == [generation |-> transport.generation, open |-> TRUE]

(* transport_note_session_error *)
SessionError ==
    /\ transport' = [transport EXCEPT !.uncommitted = 0, !.failed = TRUE]
    /\ Goto("fatal")

PumpOnlyOpens ==
    /\ At("serve")
    /\ IF transport.noAck /\ transport.generation = 0 THEN Call("open", "opened")
       ELSE Goto("loop")
    /\ UNCHANGED <<session, queueVars, queueLock, stats, transport, wire, purged>> /\ Quiet
Pump ==
    /\ At("serve")
    /\ IF ~transport.noAck THEN Goto("loop")
       ELSE IF transport.generation = 0 THEN Call("open", "opened")
       ELSE Goto("pump")
    /\ UNCHANGED <<session, queueVars, queueLock, stats, transport, wire, purged>> /\ Quiet

PumpOpened ==
    /\ At("opened")
    /\ Goto(IF transport.generation = 0 THEN "loop" ELSE "pump")
    /\ UNCHANGED <<session, queueVars, queueLock, stats, transport, wire, purged>> /\ Quiet

(* A frame that was sent but not committed is committed before the next. *)
PumpNextAlways == "peek"
PumpNext == IF transport.uncommitted # 0 THEN "commit" ELSE "peek"

PumpRecord ==
    /\ At("pump")
    /\ Goto(PumpNext)
    /\ UNCHANGED <<session, queueVars, queueLock, stats, transport, wire, purged>> /\ Quiet

(* uvdb_console_peek and uvdb_console_commit_sent look at the session, try  *)
(* the lock and look at the session again.                                  *)
CheckSession(pc, next) ==
    /\ At(pc)
    /\ IF session = Expected THEN Goto(next) /\ UNCHANGED transport ELSE SessionError
    /\ UNCHANGED <<session, queueVars, queueLock, stats, wire, purged>> /\ Quiet

LockQueue(pc, next) ==
    /\ At(pc)
    /\ \/ TryQueueLock /\ Goto(next)
       \/ Goto("loop") /\ UNCHANGED queueLock                 \* BUSY
    /\ UNCHANGED <<session, queueVars, stats, transport, wire, purged>> /\ Quiet

RecheckFailed(pc) ==
    /\ At(pc) /\ session # Expected
    /\ queueLock' = FALSE
    /\ SessionError
    /\ UNCHANGED <<session, queueVars, stats, wire, purged>> /\ Quiet

PeekHead ==
    LET kept == Kept(transport.generation)
    IN  /\ At("peekHead") /\ session = Expected
        /\ Leave(kept, Len(queue) - Len(kept))
        /\ IF kept = <<>> THEN Goto("loop")
           ELSE owner' = [owner EXCEPT !.pc = "write", !.record = Head(kept)]
        /\ UNCHANGED <<session, nextSequence, transport, wire, purged>> /\ Quiet

(* The frame goes out whole, not at all, or the connection is lost.         *)
WriteComplete ==
    /\ At("write")
    /\ wire' = Append(wire, owner.record)
    /\ transport' = [transport EXCEPT !.uncommitted = owner.record.sequence]
    /\ Goto("commit")
    /\ UNCHANGED <<session, queueVars, queueLock, stats, purged>> /\ Quiet

WriteWouldBlock ==
    /\ At("write") /\ Goto("loop")
    /\ UNCHANGED <<session, queueVars, queueLock, stats, transport, wire, purged>> /\ Quiet

WriteFailed ==
    /\ At("write")
    /\ transport' = [transport EXCEPT !.failed = TRUE]
    /\ Goto("fatal")
    /\ UNCHANGED <<session, queueVars, queueLock, stats, wire, purged>> /\ Quiet

CommitHead ==
    LET kept  == Kept(transport.generation)
        stale == Len(queue) - Len(kept)
    IN  /\ At("commitHead") /\ session = Expected
        /\ IF kept = <<>> \/ Head(kept).sequence # transport.uncommitted
           THEN Leave(kept, stale) /\ SessionError
           ELSE /\ queue' = Tail(kept)
                /\ stats' = [stats EXCEPT !["stale"] = @ + stale, !["sent"] = @ + 1,
                                          !["depth"] = Len(kept) - 1]
                /\ queueLock' = FALSE
                /\ transport' = [transport EXCEPT !.uncommitted = 0]
                /\ Goto("loop")
        /\ UNCHANGED <<session, nextSequence, wire, purged>> /\ Quiet

PumpStep ==
    \/ Pump \/ PumpOpened \/ PumpRecord
    \/ CheckSession("peek", "peekLock") \/ CheckSession("commit", "commitLock")
    \/ LockQueue("peekLock", "peekHead") \/ LockQueue("commitLock", "commitHead")
    \/ RecheckFailed("peekHead") \/ RecheckFailed("commitHead")
    \/ PeekHead \/ CommitHead
    \/ WriteComplete \/ WriteWouldBlock \/ WriteFailed

-----------------------------------------------------------------------------
(* The owner's loop in uvdb.c: accept, serve one connection, leave when     *)
(* uvdb_server_stop is set.  The flag is looked at between operations only. *)

Accept ==
    /\ At("down") /\ ~ServerStop
    /\ EndConnection("loop")                   \* begin_connection ends the last

Exit ==
    /\ At("down") /\ ServerStop
    /\ Goto("stopped")
    /\ UNCHANGED <<session, queueVars, queueLock, stats, transport, wire, purged>> /\ Quiet

LoopTop ==
    /\ At("loop")
    /\ Goto(IF ServerStop THEN "exited" ELSE "serve")
    /\ UNCHANGED <<session, queueVars, queueLock, stats, transport, wire, purged>> /\ Quiet

(* QStartNoAckMode: the client is dropped if the server is stopping by then. *)
EnableNoAck ==
    /\ At("serve") /\ ~ServerStop
    /\ transport' = [transport EXCEPT !.noAck = TRUE]
    /\ IF transport.generation = 0 THEN Call("open", "enabled") ELSE Goto("enabled")
    /\ UNCHANGED <<session, queueVars, queueLock, stats, wire, purged>> /\ Quiet

EnableRefused == At("serve") /\ ServerStop /\ EndConnection("down")

Enabled ==
    /\ At("enabled")
    /\ \/ ~ServerStop /\ Goto("loop")
          /\ UNCHANGED <<session, queueVars, queueLock, stats, transport, wire, purged>>
          /\ Quiet
       \/ ServerStop /\ EndConnection("down")

Disconnect == At("serve") /\ EndConnection("down")

PumpFatal == At("fatal") /\ EndConnection("down")

(* uvdb_stop_server has joined the thread and closes the socket itself. *)
CloseSocket == At("exited") /\ EndConnection("stopped")

OwnerStep ==
    \/ OpenBusy \/ OpenBegin \/ OpenLock \/ OpenPurge \/ OpenPublish
    \/ CloseGate \/ CloseLock \/ ClosePurge
    \/ PumpStep
    \/ Accept \/ Exit \/ LoopTop \/ EnableNoAck \/ EnableRefused \/ Enabled
    \/ Disconnect \/ PumpFatal \/ CloseSocket

-----------------------------------------------------------------------------
(* uvdb_stop_server, and uvdb_start_server after it.                        *)

StopServer ==
    /\ stop.pc = "running" /\ stop.calls < MaxStops           \* bound
    /\ stop' = [pc |-> "gate", calls |-> stop.calls + 1]
    /\ UNCHANGED <<session, queueVars, queueLock, stats, writer, ownerVars, offered>>

(* uvdb_console_session_close_active_gate *)
StopGate ==
    /\ stop.pc = "gate"
    /\ session' = [session EXCEPT !.open = FALSE]
    /\ stop' = [stop EXCEPT !.pc = "waiting"]
    /\ UNCHANGED <<queueVars, queueLock, stats, writer, ownerVars, offered>>

StopReturn ==
    /\ stop.pc = "waiting" /\ At("stopped")
    /\ stop' = [stop EXCEPT !.pc = "returned"]
    /\ UNCHANGED <<session, queueVars, queueLock, stats, writer, ownerVars, offered>>

StartServer ==
    /\ stop.pc = "returned"
    /\ stop' = [stop EXCEPT !.pc = "running"]
    /\ Goto("down")
    /\ UNCHANGED <<session, queueVars, queueLock, stats, writer, transport, wire, purged, offered>>

Next ==
    \/ \E w \in Writers : WriterStep(w)
    \/ OwnerStep
    \/ StopServer \/ StopGate \/ StopReturn \/ StartServer

Spec == Init /\ [][Next]_vars

(* console_queue_try_lock succeeds for the owner. *)
OwnerLocks ==
    (LockQueue("peekLock", "peekHead") \/ LockQueue("commitLock", "commitHead")) /\ queueLock'

(* A call under way returns.  The owner keeps serving: it goes on from every *)
(* step, it pumps again and again, and neither its tries of a free lock nor  *)
(* its sends fail for ever.                                                 *)
Fairness ==
    /\ \A w \in Writers : WF_vars(WriterStep(w) /\ writer[w].pc # "idle")
    /\ WF_vars(OwnerStep)
    /\ SF_vars(Pump \/ OpenBegin)
    /\ SF_vars(OwnerLocks)
    /\ SF_vars(WriteComplete)
    /\ WF_vars(StopGate) /\ WF_vars(StopReturn)

LiveSpec == Spec /\ Fairness

-----------------------------------------------------------------------------
(* The types of the variables. *)
TypeOK ==
    /\ session \in [generation : 0 .. Generation, open : BOOLEAN]
    /\ queue \in Seq(Record) /\ Len(queue) <= Slots
    /\ nextSequence \in 0 .. MaxRecords
    /\ queueLock \in BOOLEAN
    /\ stats \in [Counters -> Nat]
    /\ \A w \in Writers : writer[w].pc \in {"idle", "lock", "recheck", "add", "account"}
    /\ owner.record \in Record \cup {NoRecord}
    /\ owner.token \in 0 .. Generation
    /\ transport \in [noAck : BOOLEAN, generation : 0 .. Generation,
                      uncommitted : 0 .. MaxRecords, failed : BOOLEAN]
    /\ stop.pc \in {"running", "gate", "waiting", "returned"}
    /\ offered \in 0 .. MaxRecords
    /\ wire \in Seq(Record)
    /\ purged \in BOOLEAN

(* The records of s belong to one session and follow each other without a   *)
(* gap.                                                                     *)
Consecutive(s) ==
    \A i \in 1 .. Len(s) - 1 :
        /\ s[i + 1].epoch = s[i].epoch
        /\ s[i + 1].sequence = s[i].sequence + 1

(* The queue never mixes two sessions, although a writer may add records to  *)
(* a session that was closed, or followed by another, after it looked: the   *)
(* purge from the head (uvdb_console.c:110) relies on it.                    *)
QueueOfOneSession == Consecutive(queue)

(* What a connection receives is the output of its own session, every       *)
(* record once and in order, whatever was retried after a lock was busy      *)
(* (uvdb_console_transport.c:131).                                           *)
SentOnceInOrder ==
    /\ Consecutive(wire)
    /\ wire # <<>> => wire[1].epoch = stats["opened"]

(* One session at a time, from the queue to the client. *)
OneSessionInOrder == QueueOfOneSession /\ SentOnceInOrder

(* A frame that was sent and not yet committed is still the head of the      *)
(* queue when the commit is tried again: nothing a writer or uvdb_stop_server*)
(* does in between makes the pump fail a healthy session.                    *)
CommitFindsHead ==
    (transport.uncommitted # 0 /\ session = Expected) =>
        LET kept == Kept(transport.generation)
        IN  kept # <<>> /\ Head(kept).sequence = transport.uncommitted

(* Every record a caller offered is accounted for once: sent, still queued,  *)
(* counted as lost for one of the four reasons, or in the hands of a call.   *)
Accounted ==
    LET inHand(w) == writer[w].left
    IN  /\ offered = stats["sent"] + Len(queue) + stats["disconnected"]
                     + stats["contention"] + stats["full"] + stats["stale"]
                     + MapThenSumSet(inHand, Writers)
        /\ ~queueLock => stats["depth"] = Len(queue)

(* After uvdb_console_session_close returned READY the queue stays empty     *)
(* until a session is opened, whichever captures were under way.             *)
ClosedStaysEmpty == purged => queue = <<>>

(* When uvdb_stop_server returns, capture is closed: a session that the      *)
(* owner opened after the gate had been closed has been closed by then.      *)
StoppedClosed == stop.pc = "returned" => ~session.open

(* A session that was closed takes nothing in any more. *)
ClosedIsClosed == ClosedStaysEmpty /\ StoppedClosed

(* A record waiting in the open session is sent or the session ends.         *)
Stuck(n) ==
    /\ session.open
    /\ \E i \in DOMAIN queue : queue[i].sequence = n /\ queue[i].epoch = stats["opened"]
    /\ \A i \in DOMAIN wire : wire[i].sequence # n
Delivered == \A n \in 1 .. MaxRecords : []<>~Stuck(n)

(* uvdb_stop_server returns. *)
StopPending == stop.pc \in {"gate", "waiting"}
StopReturns == []<>~StopPending

=============================================================================
