---------------------------- MODULE ProfilerRing ----------------------------
(***************************************************************************)
(* The event ring of the profiler (profiler/src/vitaprofiler.c): any number *)
(* of producers in vp_record, and one consumer in vp_drain, without a      *)
(* lock.  Every atomic access is a step; an event is written and read       *)
(* outside any atomic access.                                               *)
(*                                                                         *)
(* The 32-bit counters are natural numbers here that never wrap, and every  *)
(* comparison the code makes between them is made modulo Wrap (2^32), as    *)
(* the code makes it.  A producer that has read enqueue_pos may be delayed  *)
(* while at most MaxStall events are recorded by others.                    *)
(***************************************************************************)
EXTENDS Integers

CONSTANTS
    Producers,
    Events,         \* the events recorded
    NoEvent,        \* a slot's event while it is being overwritten
    Capacity,       \* config->capacity
    Wrap,           \* 2^32, the range of the counters
    Start,          \* events that have gone through the ring before: 0 is vp_init
    MaxEvents,      \* bound: events recorded from then on
    MaxStall,       \* bound: how many events a producer may sleep through
    MaxDropped      \* bound: dropped events

ASSUME CapacityAssumption == Capacity \in Nat /\ Capacity >= 2
ASSUME WrapAssumption ==
    /\ Wrap \in Nat /\ MaxStall \in Nat
    /\ Wrap = 2 * (Wrap \div 2) /\ MaxStall + Capacity < Wrap \div 2
    /\ Wrap % Capacity = 0
ASSUME EventsAssumption == NoEvent \notin Events /\ Events # {}
ASSUME RingBoundsAssumption == Start \in Nat /\ MaxEvents \in Nat /\ MaxDropped \in Nat

VARIABLES
    enqueue_pos, dequeue_pos,
    sequence,       \* slots[i].sequence
    event,          \* slots[i].event
    prod,           \* the record call of each producer
    drain,          \* where vp_drain is; "again" is a look after a first event
    output,         \* the event vp_drain copied last
    accepted, dropped,
    item            \* history: the event that owns each position

slotVars == <<enqueue_pos, sequence, event, item>>
consumerVars == <<dequeue_pos, drain, output>>
counters == <<accepted, dropped>>
vars == <<slotVars, prod, consumerVars, counters>>

Slots == 0 .. Capacity - 1
Positions == Start .. Start + MaxEvents - 1

(* position & context->capacity_mask; Capacity divides Wrap *)
Slot(n) == n % Capacity

(* (int32_t)(left - right) *)
Difference(left, right) ==
    LET d == (left - right) % Wrap
    IN  IF d < Wrap \div 2 THEN d ELSE d - Wrap

Later == {n \in Nat : n >= Start}

Idle == [pc |-> "idle"]
ProdStates ==
    {Idle}
    \cup [pc : {"load"}, ev : Events]
    \cup [pc : {"account"}]
    \cup [pc : {"look", "claim", "copy", "publish"}, ev : Events, pos : Later]

-----------------------------------------------------------------------------
(* vp_record *)

(* position = enqueue_pos, at first and whenever the slot is ahead of it. *)
Load(p) ==
    /\ prod[p].pc = "load"
    /\ prod' = [prod EXCEPT ![p] = [pc |-> "look", ev |-> prod[p].ev, pos |-> enqueue_pos]]
    /\ UNCHANGED <<slotVars, consumerVars, counters>>

Record(p, e) ==
    /\ prod[p].pc = "idle"
    /\ prod' = [prod EXCEPT ![p] = [pc |-> "load", ev |-> e]]
    /\ UNCHANGED <<slotVars, consumerVars, counters>>

Distance(p) == Difference(sequence[Slot(prod[p].pos)], prod[p].pos)

(* The slot is free, still in use, or already past this position. *)
LookFree(p) ==
    /\ prod[p].pc = "look" /\ Distance(p) = 0
    /\ prod' = [prod EXCEPT ![p].pc = "claim"]
    /\ UNCHANGED <<slotVars, consumerVars, counters>>

LookFullCounted(p) ==
    /\ prod[p].pc = "look" /\ Distance(p) < 0
    /\ dropped < MaxDropped
    /\ dropped' = dropped + 1 /\ accepted' = accepted + 1
    /\ prod' = [prod EXCEPT ![p] = Idle]
    /\ UNCHANGED <<slotVars, consumerVars>>

LookFull(p) ==
    /\ prod[p].pc = "look" /\ Distance(p) < 0
    /\ dropped < MaxDropped                                             \* bound
    /\ dropped' = dropped + 1
    /\ prod' = [prod EXCEPT ![p] = Idle]
    /\ UNCHANGED <<slotVars, consumerVars, accepted>>

LookAhead(p) ==
    /\ prod[p].pc = "look" /\ Distance(p) > 0
    /\ prod' = [prod EXCEPT ![p] = [pc |-> "load", ev |-> prod[p].ev]]
    /\ UNCHANGED <<slotVars, consumerVars, counters>>

(* No other producer sleeps through more than MaxStall events. *)
Awake(p) ==
    \A q \in Producers \ {p} :
        prod[q].pc \in {"look", "claim"} => enqueue_pos + 1 - prod[q].pos <= MaxStall

(* The compare-and-exchange of enqueue_pos; a weak one may fail for no      *)
(* reason.                                                                  *)
ClaimUnchecked(p) ==
    /\ prod[p].pc = "claim"
    /\ enqueue_pos < Start + MaxEvents /\ Awake(p)
    /\ enqueue_pos' = enqueue_pos + 1
    /\ item' = [item EXCEPT ![enqueue_pos] = prod[p].ev]
    /\ prod' = [prod EXCEPT ![p].pc = "copy"]
    /\ UNCHANGED <<sequence, event, consumerVars, counters>>

Claim(p) ==
    /\ prod[p].pc = "claim" /\ (enqueue_pos - prod[p].pos) % Wrap = 0
    /\ enqueue_pos < Start + MaxEvents                                  \* bound
    /\ Awake(p)                                                         \* bound
    /\ enqueue_pos' = enqueue_pos + 1
    /\ item' = [item EXCEPT ![enqueue_pos] = prod[p].ev]
    /\ prod' = [prod EXCEPT ![p].pc = "copy"]
    /\ UNCHANGED <<sequence, event, consumerVars, counters>>

ClaimLost(p) ==
    /\ prod[p].pc = "claim"
    /\ prod' = [prod EXCEPT ![p] = [pc |-> "look", ev |-> prod[p].ev, pos |-> enqueue_pos]]
    /\ UNCHANGED <<slotVars, consumerVars, counters>>

(* slot->event = *event takes a while: NoEvent, then the event.  The store  *)
(* of the sequence releases it.                                             *)
CopyIn(p) ==
    /\ prod[p].pc = "copy"
    /\ prod' = [prod EXCEPT ![p].pc = "publish"]
    /\ event' = [event EXCEPT ![Slot(prod[p].pos)] = NoEvent]
    /\ UNCHANGED <<enqueue_pos, sequence, item, consumerVars, counters>>

PublishSlot(p) ==
    /\ prod[p].pc = "publish"
    /\ event' = [event EXCEPT ![Slot(prod[p].pos)] = prod[p].ev]
    /\ sequence' = [sequence EXCEPT ![Slot(prod[p].pos)] = prod[p].pos + 1]
    /\ prod' = [prod EXCEPT ![p] = [pc |-> "account"]]
    /\ UNCHANGED <<enqueue_pos, item, consumerVars, counters>>

(* The counter is raised after the event can be drained. *)
Account(p) ==
    /\ prod[p].pc = "account"
    /\ accepted' = accepted + 1
    /\ prod' = [prod EXCEPT ![p] = Idle]
    /\ UNCHANGED <<slotVars, consumerVars, dropped>>

Producer(p) ==
    \/ \E e \in Events : Record(p, e)
    \/ Load(p) \/ LookFree(p) \/ LookFull(p) \/ LookAhead(p)
    \/ Claim(p) \/ ClaimLost(p)
    \/ CopyIn(p) \/ PublishSlot(p) \/ Account(p)

-----------------------------------------------------------------------------
(* vp_drain; its position is dequeue_pos. *)

Drain ==
    /\ drain = "idle" /\ drain' = "look"
    /\ UNCHANGED <<slotVars, prod, dequeue_pos, output, counters>>

PublishedAlways == TRUE

Published == Difference(sequence[Slot(dequeue_pos)], dequeue_pos + 1) = 0

DrainLook ==
    /\ drain \in {"look", "again"} /\ Published
    /\ drain' = "copy"
    /\ UNCHANGED <<slotVars, prod, dequeue_pos, output, counters>>

(* The next slot is not published, or max_events were copied. *)
DrainReturn ==
    /\ drain = "again" \/ (drain = "look" /\ ~Published)
    /\ drain' = "idle"
    /\ UNCHANGED <<slotVars, prod, dequeue_pos, output, counters>>

CopyOutNext ==
    /\ drain = "copy" /\ drain' = "free"
    /\ output' = event[Slot(dequeue_pos + 1)]
    /\ UNCHANGED <<slotVars, prod, dequeue_pos, counters>>

CopyOut ==
    /\ drain = "copy" /\ drain' = "free"
    /\ output' = event[Slot(dequeue_pos)]
    /\ UNCHANGED <<slotVars, prod, dequeue_pos, counters>>

FreeSlot ==
    /\ drain = "free" /\ drain' = "advance"
    /\ sequence' = [sequence EXCEPT ![Slot(dequeue_pos)] = dequeue_pos + Capacity]
    /\ UNCHANGED <<enqueue_pos, event, item, prod, dequeue_pos, output, counters>>

AdvanceLost ==
    /\ drain = "advance" /\ drain' = "again"
    /\ UNCHANGED <<slotVars, prod, dequeue_pos, output, counters>>

Advance ==
    /\ drain = "advance" /\ drain' = "again"
    /\ dequeue_pos' = dequeue_pos + 1
    /\ UNCHANGED <<slotVars, prod, output, counters>>

Consumer == Drain \/ DrainLook \/ DrainReturn \/ CopyOut \/ FreeSlot \/ Advance

-----------------------------------------------------------------------------
(* vp_init is Start = 0.  Any other Start is the state it reaches when      *)
(* Start events have been recorded and drained: slot i waits for the first  *)
(* position from Start on that falls on it.                                 *)
Init ==
    /\ enqueue_pos = Start /\ dequeue_pos = Start
    /\ sequence = [i \in Slots |-> Start + ((i - Start) % Capacity)]
    /\ event = [i \in Slots |-> NoEvent]
    /\ prod = [p \in Producers |-> Idle]
    /\ drain = "idle"
    /\ output = NoEvent
    /\ accepted = 0 /\ dropped = 0
    /\ item = [n \in Positions |-> NoEvent]

Next ==
    \/ \E p \in Producers : Producer(p)
    \/ Consumer

Spec == Init /\ [][Next]_vars

(* A record call that has claimed its slot returns, and a thread keeps      *)
(* calling vp_drain.  No progress of the compare-and-exchange is assumed.   *)
FairSpec ==
    /\ Spec
    /\ \A p \in Producers : WF_vars(CopyIn(p) \/ PublishSlot(p))
    /\ WF_vars(Consumer)

-----------------------------------------------------------------------------
(* The counters, slots, record calls and the drain keep their types.         *)
TypeOK ==
    /\ enqueue_pos \in Later /\ dequeue_pos \in Later
    /\ sequence \in [Slots -> Later]
    /\ event \in [Slots -> Events \cup {NoEvent}]
    /\ prod \in [Producers -> ProdStates]
    /\ drain \in {"idle", "look", "again", "copy", "free", "advance"}
    /\ output \in Events \cup {NoEvent}
    /\ accepted \in Nat /\ dropped \in Nat
    /\ item \in [Positions -> Events \cup {NoEvent}]

(* The first position whose slot has not been given back. *)
Freed == IF drain = "advance" THEN dequeue_pos + 1 ELSE dequeue_pos

Writing(p) == prod[p].pc \in {"copy", "publish"}

(* No two record calls write the same slot, and none writes the slot that   *)
(* vp_drain is copying: slot->event has one user at a time although nothing *)
(* but the sequence numbers guards it.                                      *)
SlotExclusive ==
    \A p \in Producers : Writing(p) =>
        /\ \A q \in Producers \ {p} :
               Writing(q) => Slot(prod[q].pos) # Slot(prod[p].pos)
        /\ drain = "copy" => Slot(prod[p].pos) # Slot(dequeue_pos)

(* The event vp_drain hands out for a position is the complete event of the *)
(* record call that claimed the position: none is lost, doubled, torn or    *)
(* overwritten before it is read.                                           *)
TakenInOrder == drain \in {"free", "advance"} => output = item[dequeue_pos]

(* vp_record returns VP_RESULT_DROPPED only while every slot is in use,     *)
(* even when the position it looked at was read long ago.                   *)
DropOnlyWhenFull ==
    [][dropped' # dropped => enqueue_pos - Freed >= Capacity]_vars

(* When no record call is running, the accepted count is the number of      *)
(* positions given out.                                                     *)
CountsExact ==
    (\A p \in Producers : prod[p].pc \notin {"copy", "publish", "account"})
        => accepted = enqueue_pos - Start

(* Every claimed event is drained in the end, however the other producers   *)
(* are delayed.                                                             *)
EventTaken == \A n \in Positions : enqueue_pos > n ~> dequeue_pos > n

-----------------------------------------------------------------------------
(* The ring implements the bounded queue of module ProfilerQueue. *)

Complete == {n \in Start .. enqueue_pos - 1 :
                \A p \in Producers : ~(Writing(p) /\ prod[p].pos = n)}

Queue == INSTANCE ProfilerQueue WITH
    head <- Freed,
    tail <- enqueue_pos,
    published <- Complete,
    phase <- IF drain = "free" THEN "taken" ELSE "looking",
    got <- output

(* Producers, consumer and sequence numbers together behave as a bounded    *)
(* first-in first-out queue.                                                *)
ImplementsQueue == Queue!QueueSpec

=============================================================================
