--------------------------- MODULE ProfilerStream ---------------------------
(***************************************************************************)
(* A profiler capture on its way to the desktop: the stream writer          *)
(* (vitaprofiler_stream.c) takes events out of the ring and hands them, as  *)
(* plain records (version 1) or in numbered chunks (version 2), to the TCP  *)
(* sink and its SceNet backend (vitaprofiler_tcp_vita.c).                   *)
(*                                                                         *)
(* One consumer thread makes all the calls, one after the other; a producer *)
(* thread puts events into the ring meanwhile.  The network accepts part of *)
(* a piece, asks to wait, or fails; a deadline passes; a close fails and is *)
(* tried again.  A byte stands for a unit of a few bytes, a payload for the *)
(* numbers in it; a CRC never accepts anything but the chunk as written.    *)
(***************************************************************************)
EXTENDS Integers, Sequences, FiniteSets, FiniteSetsExt

CONSTANTS
    Versions,       \* the wire versions the application uses, of 1 and 2
    Capacity,       \* slots of the event ring
    MaxEvents,      \* events offered by the producer
    MaxBatch,       \* events one drain may take
    SendChunk,      \* max_send_chunk_bytes, in units
    MaxSends,       \* max_send_calls
    MaxWaits,       \* max_send_waits and max_connect_waits
    Keys,           \* thread and module identities, numbers
    MaxKeys,        \* VP_STREAM_V2_MAX_THREAD_METADATA and its module twin
    MaxChunks,      \* bound on the chunks of a capture, other than its end
    MaxCaptures,    \* bound on the captures of a behaviour
    MaxLoss,        \* the events lost in transport that the application may report
    MaxFaults       \* bound on failing calls, passed deadlines, clock errors

VARIABLES
    ring,     \* the ring's counters and the producer's place in its push
    w,        \* the stream writer
    sink,     \* the TCP sink: state, first failure, whether it holds a socket
    be,       \* the SceNet backend: what it owns, its sticky clock error
    wire,     \* what the socket of this capture accepted: stretches of chunks, in order
    call,     \* the consumer's call in progress
    ghost,    \* where this capture began in the ring, how its close began
    faults    \* failures so far

vars == <<ring, w, sink, be, wire, call, ghost, faults>>

NoStats == [accepted |-> 0, dropped |-> 0, transport |-> 0, lost |-> 0, written |-> 0, bytes |-> 0]

NoCall == [op |-> "none", at |-> "idle", chunks |-> <<>>, part |-> "head", off |-> 0, sends |-> 0,
           waits |-> 0, n |-> 0, key |-> 0, limit |-> 0, pending |-> 0, stats |-> NoStats]

Idle == call.at = "idle"

Init ==
    /\ ring = [enq |-> 0, pub |-> 0, accepted |-> 0, deq |-> 0, dropped |-> 0,
               push |-> "idle", on |-> TRUE]
    /\ w = [v |-> 1, state |-> "none", seq |-> 0, bytes |-> 0, written |-> 0, lost |-> 0,
            transport |-> 0, keys |-> {}]
    /\ sink = [state |-> "none", failure |-> "none", socket |-> FALSE]
    /\ be = [sock |-> FALSE, epoll |-> FALSE, clock |-> FALSE]
    /\ wire = <<>>
    /\ call = NoCall
    /\ ghost = [base |-> 0, quiet |-> FALSE, captures |-> 0]
    /\ faults = 0

-----------------------------------------------------------------------------
(* The producer: it claims a slot or drops the event, publishes it, and only *)
(* then counts it as accepted.                                               *)

ClaimSlot ==
    /\ ring.on /\ ring.push = "idle"
    /\ ring.enq + ring.dropped < MaxEvents
    /\ ring' = IF ring.enq - ring.deq < Capacity
                 THEN [ring EXCEPT !.enq = @ + 1, !.push = "claimed"]
                 ELSE [ring EXCEPT !.dropped = @ + 1]
    /\ UNCHANGED <<w, sink, be, wire, call, ghost, faults>>

PublishEvent ==
    /\ ring.push = "claimed"
    /\ ring' = [ring EXCEPT !.pub = @ + 1, !.push = "published"]
    /\ UNCHANGED <<w, sink, be, wire, call, ghost, faults>>

CountEvent ==
    /\ ring.push = "published"
    /\ ring' = [ring EXCEPT !.accepted = @ + 1, !.push = "idle"]
    /\ UNCHANGED <<w, sink, be, wire, call, ghost, faults>>

\* The application stops its producer, between two events.
StopProducer ==
    /\ ring.on /\ ring.push = "idle"
    /\ ring' = [ring EXCEPT !.on = FALSE]
    /\ UNCHANGED <<w, sink, be, wire, call, ghost, faults>>

-----------------------------------------------------------------------------
(* What travels.  A chunk of version 2 is a header and a payload, each given *)
(* to the sink in a call of its own; a record of version 1 has no header.    *)

HeadSize(v) == IF v = 2 THEN 2 ELSE 0

BodySize(type, events) ==
    CASE type = "dictionary" -> 2
      [] type = "events"     -> events
      [] OTHER               -> 1

ChunkSize(c) == HeadSize(c.v) + BodySize(c.type, c.events)

\* The i-th chunk from now on: it carries the number the writer will have then.
ChunkNext(i, type, key, events, stats) ==
    [v |-> w.v, seq |-> w.seq + i, type |-> type, key |-> key, events |-> events, stats |-> stats]

Plain(i, type) == ChunkNext(i, type, 0, 0, NoStats)

\* vp_stream_encode_stats_v2: the ring's counts as read, the writer's as they are.
EncodeStats(bytes) ==
    [accepted |-> call.stats.accepted, dropped |-> call.stats.dropped,
     transport |-> w.transport, lost |-> w.lost, written |-> w.written, bytes |-> bytes]

\* The consumer starts to hand chunks to the sink.
Writing(op, chunks, n) ==
    call' = [call EXCEPT !.op = op, !.at = "piece", !.chunks = chunks,
                         !.part = IF w.v = 2 THEN "head" ELSE "body", !.n = n,
                         !.key = chunks[1].key]

\* What the peer has with n more units of chunk c, from the given one on.
Sent(c, from, n) ==
    LET k == Len(wire) IN
    IF k > 0 /\ wire[k].c = c /\ wire[k].to = from
      THEN [wire EXCEPT ![k].to = @ + n]
      ELSE Append(wire, [c |-> c, from |-> from, to |-> from + n])

-----------------------------------------------------------------------------
(* The sink's socket.                                                        *)

\* vp_sce_net_close: the epoll handle first, then the socket; each may fail,
\* and a later call goes on where this one stopped.
CloseOutcomes(b) ==
    {[b |-> [b EXCEPT !.sock = FALSE, !.epoll = FALSE], ok |-> TRUE, cost |-> 0]}
      \cup (IF b.epoll THEN {[b |-> b, ok |-> FALSE, cost |-> 1]} ELSE {})
      \cup {[b |-> [b EXCEPT !.epoll = FALSE], ok |-> FALSE, cost |-> 1]}

\* vp_tcp_cleanup_socket: the socket is closed, or kept for a later close.
\* The shutdown of the sending side changes only the counters of the statistics.
CleanupSocket(b) ==
    IF b.sock THEN CloseOutcomes(b) ELSE {[b |-> b, ok |-> TRUE, cost |-> 0]}

\* vp_tcp_fail: the first reason stays.
TcpFail(why, b, cost) ==
    \E c \in CleanupSocket(b) :
        /\ faults + cost + c.cost <= MaxFaults
        /\ faults' = faults + cost + c.cost
        /\ be' = c.b
        /\ sink' = [state   |-> "failed",
                    failure |-> IF sink.failure = "none" THEN why ELSE sink.failure,
                    socket  |-> ~c.ok]

\* vp_sce_net_now_ms after an operation: in time, at or past the deadline, or
\* an error value, which the backend remembers.
Late(b) == {[why |-> "timeout", b |-> b], [why |-> "clock", b |-> [b EXCEPT !.clock = TRUE]]}

\* A failed sink write fails the writer for good; the events of a drain that
\* did not arrive are counted as lost.
WriterFails ==
    /\ w' = [w EXCEPT !.state = "failed", !.lost = @ + call.n]
    /\ call' = NoCall

-----------------------------------------------------------------------------
(* vp_vita_tcp_sce_net_ops_init, vp_vita_tcp_sink_init and                   *)
(* vp_stream_writer_init for a new capture.  The application does so when    *)
(* its writer is not streaming; a sink that holds a socket refuses.          *)

Setup(v, again) ==
    /\ Idle
    /\ w.state # "streaming"
    /\ ghost.captures < MaxCaptures
    /\ ~sink.socket
    /\ again => ~be.sock /\ ~be.epoll
    /\ be' = IF again THEN [sock |-> FALSE, epoll |-> FALSE, clock |-> FALSE] ELSE be
    /\ sink' = [state |-> "ready", failure |-> "none", socket |-> FALSE]
    /\ w' = [v |-> v, state |-> "ready", seq |-> 0, bytes |-> 0, written |-> 0, lost |-> 0,
             transport |-> 0, keys |-> {}]
    /\ wire' = <<>>
    /\ ghost' = [base |-> ring.deq, quiet |-> FALSE, captures |-> ghost.captures + 1]
    /\ UNCHANGED <<ring, call, faults>>

\* vp_vita_tcp_sink_connect, its checks and first clock sample, which may fail.
Connect ==
    /\ Idle
    /\ sink.state = "ready"
    /\ call' = [NoCall EXCEPT !.op = "connect", !.at = "open"]
    /\ \/ UNCHANGED <<be, faults>>
       \/ /\ faults < MaxFaults
          /\ be' = [be EXCEPT !.clock = TRUE]
          /\ faults' = faults + 1
    /\ UNCHANGED <<ring, w, sink, wire, ghost>>

\* vp_sce_net_open: a socket, made nonblocking, and an epoll handle that
\* watches it.  A failure half way leaves what was made to the cleanup.
Open ==
    /\ call.at = "open"
    /\ \/ /\ be.clock
          /\ TcpFail("open", be, 0)
          /\ call' = NoCall
       \/ /\ ~be.clock
          /\ \E b \in {be, [be EXCEPT !.sock = TRUE], [be EXCEPT !.sock = TRUE, !.epoll = TRUE]} :
                TcpFail("open", b, 1)
          /\ call' = NoCall
       \/ /\ ~be.clock
          /\ LET b == [be EXCEPT !.sock = TRUE, !.epoll = TRUE] IN
             \/ /\ be' = b
                /\ sink' = [sink EXCEPT !.socket = TRUE]
                /\ call' = [call EXCEPT !.at = "start"]
                /\ UNCHANGED faults
             \/ /\ \E l \in Late(b) : TcpFail(l.why, l.b, 1)
                /\ call' = NoCall
    /\ UNCHANGED <<ring, w, wire, ghost>>

Connected ==
    /\ sink' = [sink EXCEPT !.state = "connected"]
    /\ call' = NoCall
    /\ UNCHANGED <<be, faults>>

ConnectFails ==
    /\ \/ TcpFail("connect", be, 1)
       \/ \E l \in Late(be) : TcpFail(l.why, l.b, 1)
    /\ call' = NoCall

\* connect_start: connected at once, under way, or refused.
ConnectStart ==
    /\ call.at = "start"
    /\ \/ Connected
       \/ call' = [call EXCEPT !.at = "cwait"] /\ UNCHANGED <<sink, be, faults>>
       \/ ConnectFails
    /\ UNCHANGED <<ring, w, wire, ghost>>

\* The connect loop: it gives up after max_connect_waits; a wait that ends by
\* its time slice is made again.
ConnectWait ==
    /\ call.at = "cwait"
    /\ \/ /\ call.waits >= MaxWaits
          /\ TcpFail("connect_limit", be, 0)
          /\ call' = NoCall
       \/ /\ call.waits < MaxWaits
          /\ \/ /\ \E at \in {"cwait", "finish"} : call' = [call EXCEPT !.at = at, !.waits = @ + 1]
                /\ UNCHANGED <<sink, be, faults>>
             \/ ConnectFails
    /\ UNCHANGED <<ring, w, wire, ghost>>

ConnectFinish ==
    /\ call.at = "finish"
    /\ \/ Connected
       \/ call' = [call EXCEPT !.at = "cwait"] /\ UNCHANGED <<sink, be, faults>>
       \/ ConnectFails
    /\ UNCHANGED <<ring, w, wire, ghost>>
-----------------------------------------------------------------------------
(* vp_vita_tcp_sink_write: one piece of a chunk.                             *)

Piece == IF call.part = "head" THEN HeadSize(w.v)
                               ELSE BodySize(Head(call.chunks).type, Head(call.chunks).events)

\* Units of the chunk that precede this piece.
PieceStart == IF call.part = "head" THEN 0 ELSE HeadSize(w.v)

\* The checks on entry.
SinkWrite ==
    /\ call.at = "piece"
    /\ \/ /\ sink.state # "connected"
          /\ WriterFails
       \/ /\ sink.state = "connected"
          /\ call' = [call EXCEPT !.at = "send", !.off = 0, !.sends = 0, !.waits = 0]
          /\ UNCHANGED w
    /\ UNCHANGED <<ring, sink, be, wire, ghost, faults>>

WriteFails(why, cost) == TcpFail(why, be, cost) /\ WriterFails

WriteLate == (\E l \in Late(be) : TcpFail(l.why, l.b, 1)) /\ WriterFails

\* The socket takes some of the piece.  The deadline is looked at afterwards:
\* a late success is a failure, of which the peer has the units nevertheless.
SendSome ==
    /\ call.at = "send" /\ call.off < Piece /\ call.sends < MaxSends
    /\ \E n \in 1..Min({Piece - call.off, SendChunk}) :
          /\ wire' = Sent(Head(call.chunks), PieceStart + call.off, n)
          /\ \/ /\ call' = [call EXCEPT !.off = @ + n, !.sends = @ + 1]
                /\ UNCHANGED <<w, sink, be, faults>>
             \/ WriteLate
    /\ UNCHANGED <<ring, ghost>>

\* The socket takes nothing: it would block, or fails, or claims to have sent
\* nothing successfully.
SendNone ==
    /\ call.at = "send" /\ call.off < Piece /\ call.sends < MaxSends
    /\ \/ /\ call.waits < MaxWaits
          /\ call' = [call EXCEPT !.at = "wait", !.sends = @ + 1, !.waits = @ + 1]
          /\ UNCHANGED <<w, sink, be, faults>>
       \/ call.waits >= MaxWaits /\ WriteFails("send_limit", 0)
       \/ \E why \in {"send", "contract"} : WriteFails(why, 1)
       \/ WriteLate
    /\ UNCHANGED <<ring, wire, ghost>>

SendLimit ==
    /\ call.at = "send" /\ call.off < Piece /\ call.sends >= MaxSends
    /\ WriteFails("send_limit", 0)
    /\ UNCHANGED <<ring, wire, ghost>>

\* wait_writable: the loop goes on whether it ended by its time slice or not.
SendWait ==
    /\ call.at = "wait"
    /\ \/ call' = [call EXCEPT !.at = "send"] /\ UNCHANGED <<w, sink, be, faults>>
       \/ WriteFails("send", 1)
       \/ WriteLate
    /\ UNCHANGED <<ring, wire, ghost>>

\* vp_stream_write and vp_stream_write_v2_chunk: the piece is counted; after
\* the payload the chunk is done and its number used up.
PieceDone ==
    /\ call.at = "send" /\ call.off = Piece
    /\ IF call.part = "head"
         THEN /\ w' = [w EXCEPT !.bytes = @ + Piece]
              /\ call' = [call EXCEPT !.at = "piece", !.part = "body"]
         ELSE /\ w' = [w EXCEPT !.bytes = @ + Piece, !.seq = @ + 1]
              /\ call' = [call EXCEPT !.chunks = Tail(@),
                                      !.part = IF w.v = 2 THEN "head" ELSE "body",
                                      !.at = IF Len(call.chunks) > 1 THEN "piece" ELSE "ret"]
    /\ UNCHANGED <<ring, sink, be, wire, ghost, faults>>

-----------------------------------------------------------------------------
(* The writer's operations.                                                  *)

\* vp_stream_writer_begin and vp_stream_writer_begin_v2.
Begin ==
    /\ Idle
    /\ w.state = "ready"
    /\ Writing("begin", IF w.v = 2 THEN <<Plain(0, "session"), Plain(1, "dictionary")>>
                                   ELSE <<Plain(0, "dictionary"), Plain(1, "vprf")>>, 0)
    /\ UNCHANGED <<ring, w, sink, be, wire, ghost, faults>>

\* vp_stream_writer_write_thread_v2 and vp_stream_writer_write_module_v2: an
\* identity is written once, and not more than the receiver has room for.
WriteMetadata(type, key) ==
    /\ Idle
    /\ w.v = 2 /\ w.state = "streaming" /\ w.seq < MaxChunks
    /\ <<type, key>> \notin w.keys
    /\ Cardinality({k \in w.keys : k[1] = type}) < MaxKeys
    /\ Writing(type, <<ChunkNext(0, type, key, 0, NoStats)>>, 0)
    /\ UNCHANGED <<ring, w, sink, be, wire, ghost, faults>>

\* vp_stream_writer_set_transport_loss_v2, with the loss the application knows.
SetTransportLoss ==
    /\ Idle
    /\ w.v = 2 /\ w.state = "streaming" /\ w.transport < MaxLoss
    /\ w' = [w EXCEPT !.transport = @ + 1]
    /\ UNCHANGED <<ring, sink, be, wire, call, ghost, faults>>

\* vp_stream_writer_drain and vp_stream_writer_drain_v2: how many events it may
\* take; a chunk holds MaxBatch at most.
Drain(max) ==
    /\ Idle
    /\ w.state = "streaming" /\ w.seq < MaxChunks
    /\ call' = [NoCall EXCEPT !.op = "drain", !.at = "take", !.limit = max]
    /\ UNCHANGED <<ring, w, sink, be, wire, ghost, faults>>

\* vp_drain of one event, if the next slot is published.  Version 1 writes it
\* at once, version 2 stages it.
TakeEvent ==
    /\ call.at = "take"
    /\ call.limit > 0 /\ ring.deq < ring.pub
    /\ ring' = [ring EXCEPT !.deq = @ + 1]
    /\ IF w.v = 2
         THEN call' = [call EXCEPT !.n = @ + 1, !.limit = @ - 1]
         ELSE call' = [call EXCEPT !.at = "piece", !.part = "body", !.n = 1, !.limit = @ - 1,
                                   !.chunks = <<ChunkNext(0, "events", 0, 1, NoStats)>>]
    /\ UNCHANGED <<w, sink, be, wire, ghost, faults>>

\* The end of the loop: version 2 writes what it staged.
TakeDone ==
    /\ call.at = "take"
    /\ call.limit = 0 \/ ring.deq >= ring.pub
    /\ IF call.n # 0 THEN Writing("drain", <<ChunkNext(0, "events", 0, call.n, NoStats)>>, call.n)
                     ELSE call' = NoCall
    /\ UNCHANGED <<ring, w, sink, be, wire, ghost, faults>>

\* vp_stream_writer_write_stats_v2 and the closes begin with vp_get_stats.
WriteStats ==
    /\ Idle
    /\ w.v = 2 /\ w.state = "streaming" /\ w.seq < MaxChunks
    /\ call' = [NoCall EXCEPT !.op = "stats", !.at = "pending"]
    /\ UNCHANGED <<ring, w, sink, be, wire, ghost, faults>>

Close ==
    /\ Idle
    /\ w.state = "streaming"
    /\ call' = [NoCall EXCEPT !.op = "close", !.at = "pending"]
    /\ ghost' = [ghost EXCEPT !.quiet = ~ring.on]
    /\ UNCHANGED <<ring, w, sink, be, wire, faults>>

\* vp_get_stats reads the positions first and the counts after them.
ReadPending ==
    /\ call.at = "pending"
    /\ call' = [call EXCEPT !.at = "counts", !.pending = ring.enq - ring.deq]
    /\ UNCHANGED <<ring, w, sink, be, wire, ghost, faults>>

ReadCounts ==
    /\ call.at = "counts"
    /\ call' = [call EXCEPT !.at = "check", !.stats.accepted = ring.accepted,
                            !.stats.dropped = ring.dropped]
    /\ UNCHANGED <<ring, w, sink, be, wire, ghost, faults>>

\* A close that does not look for events still in the ring.
StatsReadUnchecked ==
    /\ call.at = "check"
    /\ \/ /\ call.op = "close" /\ w.v = 1
          /\ w' = [w EXCEPT !.state = "closed"]
          /\ call' = NoCall
       \/ /\ call.op = "stats" \/ w.v = 2
          /\ Writing(call.op, <<ChunkNext(0, "stats", 0, 0, EncodeStats(w.bytes))>>, 0)
          /\ UNCHANGED w
    /\ UNCHANGED <<ring, sink, be, wire, ghost, faults>>

\* Closing is refused while events are pending.  Version 1 has no end of its
\* own; version 2 writes the statistics first.
StatsRead ==
    /\ call.at = "check"
    /\ \/ /\ call.op = "close" /\ call.pending # 0
          /\ call' = NoCall
          /\ UNCHANGED w
       \/ /\ call.op = "close" /\ call.pending = 0 /\ w.v = 1
          /\ w' = [w EXCEPT !.state = "closed"]
          /\ call' = NoCall
       \/ /\ call.op = "stats" \/ (call.pending = 0 /\ w.v = 2)
          /\ Writing(call.op, <<ChunkNext(0, "stats", 0, 0, EncodeStats(w.bytes))>>, 0)
          /\ UNCHANGED w
    /\ UNCHANGED <<ring, sink, be, wire, ghost, faults>>

\* What the operation does once its chunks are written.  A close goes on with
\* the end chunk, which counts itself.
Return ==
    /\ call.at = "ret"
    /\ \/ /\ call.op = "begin"
          /\ w' = [w EXCEPT !.state = "streaming"]
          /\ call' = NoCall
       \/ /\ call.op \in {"thread", "module"}
          /\ w' = [w EXCEPT !.keys = @ \cup {<<call.op, call.key>>}]
          /\ call' = NoCall
       \/ /\ call.op = "stats"
          /\ call' = NoCall
          /\ UNCHANGED w
       \/ /\ call.op = "drain"
          /\ w' = [w EXCEPT !.written = @ + call.n]
          /\ call' = IF w.v = 2 THEN NoCall ELSE [call EXCEPT !.at = "take", !.n = 0]
       \/ /\ call.op = "close"
          /\ Writing("end", <<ChunkNext(0, "end", 0, 0,
                                EncodeStats(w.bytes + HeadSize(2) + BodySize("end", 0)))>>, 0)
          /\ UNCHANGED w
       \/ /\ call.op = "end"
          /\ w' = [w EXCEPT !.state = "closed"]
          /\ call' = NoCall
    /\ UNCHANGED <<ring, sink, be, wire, ghost, faults>>

-----------------------------------------------------------------------------
\* vp_vita_tcp_sink_close: a connected sink shuts its sending side down; a
\* close that fails keeps the socket for the next call; a failure stays one.
SinkClose ==
    /\ Idle
    /\ sink.state # "none"
    /\ \/ /\ ~sink.socket
          /\ sink' = [sink EXCEPT !.state = IF @ = "failed" THEN @ ELSE "closed"]
          /\ UNCHANGED <<be, faults>>
       \/ /\ sink.socket
          /\ \E shut \in IF sink.state = "connected" THEN BOOLEAN ELSE {TRUE}, c \in CloseOutcomes(be) :
                LET cost == c.cost + (IF shut THEN 0 ELSE 1)
                    why  == IF ~shut THEN "shutdown" ELSE IF ~c.ok THEN "close" ELSE "none"
                IN  /\ faults + cost <= MaxFaults
                    /\ faults' = faults + cost
                    /\ be' = c.b
                    /\ sink' = [state   |-> IF why # "none" \/ sink.state = "failed"
                                              THEN "failed" ELSE "closed",
                                failure |-> IF sink.failure = "none" THEN why ELSE sink.failure,
                                socket  |-> ~c.ok]
    /\ UNCHANGED <<ring, w, wire, call, ghost>>

\* The consumer goes on with the call it is in.
Proceed ==
    \/ Open \/ ConnectStart \/ ConnectWait \/ ConnectFinish
    \/ SinkWrite \/ SendSome \/ SendNone \/ SendLimit \/ SendWait \/ PieceDone
    \/ TakeEvent \/ TakeDone \/ ReadPending \/ ReadCounts \/ StatsRead \/ Return

Next ==
    \/ ClaimSlot \/ PublishEvent \/ CountEvent \/ StopProducer
    \/ \E v \in Versions, again \in BOOLEAN : Setup(v, again)
    \/ Connect \/ Begin
    \/ \E type \in {"thread", "module"}, key \in Keys : WriteMetadata(type, key)
    \/ SetTransportLoss \/ WriteStats \/ Close \/ SinkClose
    \/ \E max \in 1..MaxBatch : Drain(max)
    \/ Proceed

Spec == Init /\ [][Next]_vars

\* The consumer's thread is scheduled, and none of its calls blocks for ever:
\* only wait_writable waits, for a time slice.
FairSpec == Spec /\ WF_vars(Proceed)

-----------------------------------------------------------------------------
(* The receiver's view: vp_stream_v2_cursor_init over what arrived.          *)

\* Every stretch is a chunk from its first unit on, whole if anything follows.
Framed(s) ==
    \A i \in 1..Len(s) : s[i].from = 0 /\ (i < Len(s) => s[i].to = ChunkSize(s[i].c))

Whole(s) == s # <<>> => s[Len(s)].to = ChunkSize(s[Len(s)].c)

\* The chunks begun in s, in order.
Chunks(s) == [i \in 1..Len(s) |-> s[i].c]

\* Units in s.
Size(s) == MapThenSumSet(LAMBDA i : s[i].to - s[i].from, 1..Len(s))

EventsIn(cs, n) == MapThenSumSet(LAMBDA i : cs[i].events, 1..n)

\* vp_stream_v2_cursor_init accepts s as a complete session.
Accepts(s) ==
    LET cs == Chunks(s)
        N  == Len(cs)
        Told(i) == cs[i].type \in {"stats", "end"}
    IN  /\ N >= 3 /\ cs[N].type = "end" /\ Whole(s) /\ Framed(s)
        /\ \A i \in 1..N :
              /\ cs[i].seq = i - 1
              /\ (cs[i].type = "session") <=> (i = 1)
              /\ (cs[i].type = "dictionary") <=> (i = 2)
              /\ cs[i].type = "end" => i = N
        /\ \A type \in {"thread", "module"} :
              LET at == {i \in 1..N : cs[i].type = type} IN
              /\ \A i, j \in at : cs[i].key = cs[j].key => i = j
              /\ Cardinality(at) <= MaxKeys
        /\ \A i \in 1..N : Told(i) =>
              /\ cs[i].stats.written <= EventsIn(cs, i)
              /\ \A j \in 1..i : Told(j) => /\ cs[j].stats.written <= cs[i].stats.written
                                            /\ cs[j].stats.bytes <= cs[i].stats.bytes
        /\ cs[N].stats.written = EventsIn(cs, N)
        /\ cs[N].stats.lost = 0
        /\ cs[N].stats.bytes = Size(s)

-----------------------------------------------------------------------------
TypeOK ==
    /\ ring.deq <= ring.pub /\ ring.pub <= ring.enq /\ ring.enq - ring.deq \in 0..Capacity
    /\ ring.push \in {"idle", "claimed", "published"} /\ ring.on \in BOOLEAN
    /\ w.state \in {"none", "ready", "streaming", "closed", "failed"}
    /\ w.v \in {1, 2} /\ w.seq \in 0..(MaxChunks + 3) /\ w.keys \subseteq {"thread", "module"} \X Keys
    /\ sink.state \in {"none", "ready", "connected", "closed", "failed"} /\ sink.socket \in BOOLEAN
    /\ call.sends \in 0..MaxSends /\ call.waits \in 0..MaxWaits /\ call.n \in 0..MaxBatch
    /\ faults \in 0..MaxFaults

\* What the peer has is the chunks in their order, each whole but perhaps the
\* last, and a torn last chunk is the one being written or the end of a failed
\* capture: nothing follows a torn chunk.
StreamWhole ==
    /\ Framed(wire)
    /\ \A i \in DOMAIN Chunks(wire) : Chunks(wire)[i].seq = i - 1
    /\ Whole(wire) \/ call.chunks # <<>> \/ w.state = "failed"

\* A capture that closed cleanly is accepted by the receiver (version 2), and
\* in both versions holds every event that was taken out of the ring.
ClosedIsAccepted ==
    w.state = "closed" =>
        /\ w.v = 2 => Accepts(wire)
        /\ Whole(wire)
        /\ EventsIn(Chunks(wire), Len(Chunks(wire))) = ring.deq - ghost.base

\* No part of a capture is accepted but the capture to its end: a connection
\* lost between two chunks is seen (within one, the chunk is not whole).
PrefixRefused ==
    w.v = 2 => \A n \in 0..(Len(wire) - 1) : ~Accepts(SubSeq(wire, 1, n))

\* An accepted capture is complete: it has all events taken from the ring; and
\* if the producer had stopped before the close, all events there ever were,
\* with its last count of accepted and dropped events exact.
CaptureComplete ==
    (w.v = 2 /\ w.state # "ready" /\ Accepts(wire)) =>
        LET cs == Chunks(wire)  last == cs[Len(cs)].stats IN
        /\ EventsIn(cs, Len(cs)) = ring.deq - ghost.base
        /\ ghost.quiet => /\ ring.deq = ring.enq
                          /\ last.accepted = ghost.base + EventsIn(cs, Len(cs))
                          /\ last.dropped = ring.dropped

\* Between calls every event taken out of the ring for this capture is counted
\* once, as written or as lost to the sink; and those written arrived whole.
EventsAccounted ==
    Idle /\ w.state # "none" =>
        /\ ring.deq - ghost.base = w.written + w.lost
        /\ w.written <= EventsIn(Chunks(wire), Len(Chunks(wire)))
        /\ w.lost # 0 => w.state = "failed"

\* Between calls the sink holds a socket exactly when the backend does, and the
\* backend has no epoll handle without one: whatever a failed open, send or
\* close left behind, a later close can release.
NothingLeaked ==
    Idle => /\ sink.socket = be.sock
            /\ be.epoll => be.sock
            /\ sink.state \in {"ready", "closed"} => ~be.sock
            /\ sink.state = "connected" => be.sock /\ be.epoll

\* A failed sink stays failed, with its first reason, until it is initialized
\* again: closing it does not make the capture look clean.
FailureStays ==
    sink.state = "failed" => \/ sink'.state = "failed" /\ sink'.failure = sink.failure
                             \/ sink'.state = "ready" /\ ~sink.socket

FailureKept == [][FailureStays]_vars

\* Every call returns: the limits on waits and sends end each loop even if
\* the deadline never passes.
CallReturns == []<>Idle

=============================================================================
