---------------------------- MODULE ProfilerQueue ----------------------------
(***************************************************************************)
(* What the event ring of the profiler promises its callers                *)
(* (profiler/include/vitaprofiler.h, profiler/README.md "Threading"): a     *)
(* bounded first-in first-out queue.  A record call reserves the next place *)
(* or is dropped because all places are taken, a reserved place is published*)
(* later, and the consumer gets the published events in reservation order,  *)
(* each of them once, stopping at the first place not yet published.        *)
(***************************************************************************)
EXTENDS Naturals

CONSTANTS
    Capacity,       \* number of places
    Events,         \* the events recorded
    NoEvent,        \* no event yet
    Start,          \* the places given out before this behaviour starts
    MaxEvents       \* bound: places given out in it

Places == Start .. Start + MaxEvents - 1

VARIABLES
    head,           \* the first place not yet given back
    tail,           \* the next place to be reserved
    item,           \* the event of each reserved place
    published,      \* the places that hold a complete event
    phase,          \* "taken" once the consumer has copied the first event
    got             \* the event the consumer copied last

queueVars == <<head, tail, item, published, phase, got>>

Reserve(e) ==
    /\ tail - head < Capacity
    /\ tail < Start + MaxEvents                                         \* bound
    /\ tail' = tail + 1
    /\ item' = [item EXCEPT ![tail] = e]
    /\ UNCHANGED <<head, published, phase, got>>

Publish(n) ==
    /\ n \in head .. tail - 1 /\ n \notin published
    /\ published' = published \cup {n}
    /\ UNCHANGED <<head, tail, item, phase, got>>

(* The consumer copies the first event, and then gives its place back. *)
Take ==
    /\ phase = "looking" /\ head \in published
    /\ phase' = "taken" /\ got' = item[head]
    /\ UNCHANGED <<head, tail, item, published>>

GiveBack ==
    /\ phase = "taken"
    /\ phase' = "looking" /\ head' = head + 1
    /\ UNCHANGED <<tail, item, published, got>>

QueueInit ==
    /\ head = Start /\ tail = Start
    /\ item = [n \in Places |-> NoEvent]
    /\ published = {}
    /\ phase = "looking" /\ got = NoEvent

QueueNext ==
    \/ \E e \in Events : Reserve(e)
    \/ \E n \in Places : Publish(n)
    \/ Take
    \/ GiveBack

QueueSpec == QueueInit /\ [][QueueNext]_queueVars

=============================================================================
