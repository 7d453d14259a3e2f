---------------------------- MODULE ProfilerStats ----------------------------
(***************************************************************************)
(* vp_get_stats (profiler/src/vitaprofiler.c) beside the ring at work.      *)
(***************************************************************************)
EXTENDS ProfilerRing

VARIABLE stats      \* the call of vp_get_stats

(* vp_get_stats.  enqueue_pos is read first; `from` and `most` are history: *)
(* dequeue_pos at that time, and the most places that can have been in use  *)
(* at any time of the call.                                                 *)

NoStats == [pc |-> "idle"]

StatsEnqueue ==
    /\ stats.pc = "idle"
    /\ stats' = [pc |-> "dequeue", enqueue |-> enqueue_pos, from |-> dequeue_pos]
    /\ UNCHANGED vars

Pending(enqueue, dequeue) ==
    LET d == (enqueue - dequeue) % Wrap
    IN  IF d > Capacity THEN Capacity ELSE d

StatsDequeue ==
    /\ stats.pc = "dequeue"
    /\ stats' = [pc |-> "done", pending |-> Pending(stats.enqueue, dequeue_pos),
                 most |-> enqueue_pos - stats.from]
    /\ UNCHANGED vars

StatsReturn ==
    /\ stats.pc = "done"
    /\ stats' = NoStats
    /\ UNCHANGED vars

Stats == StatsEnqueue \/ StatsDequeue \/ StatsReturn

StatsSpec ==
    /\ Init /\ stats = NoStats
    /\ [][(Next /\ UNCHANGED stats) \/ Stats]_<<vars, stats>>

(* `pending` is an observation of the ring during the call: it never        *)
(* exceeds what the ring can have held.                                     *)
PendingObserved == stats.pc = "done" => stats.pending <= stats.most

=============================================================================
