------------------------- MODULE ProfilerRingProofs -------------------------
(***************************************************************************)
(* The ring of module ProfilerRing is right for every number of producers,  *)
(* every capacity and across the wrap of its counters.                      *)
(***************************************************************************)
EXTENDS ProfilerRing, FiniteSetTheorems, TLAPS

(* The inductive invariant.  The slots carry the Capacity positions from    *)
(* Freed on: a position not given out yet is what its slot's sequence says, *)
(* and so is one that a record call is writing; any other one is published  *)
(* with its event.                                                          *)

Window == Freed .. Freed + Capacity - 1

Bounded ==
    /\ Start <= dequeue_pos /\ Freed <= enqueue_pos /\ enqueue_pos <= Freed + Capacity
    /\ enqueue_pos <= Start + MaxEvents

SlotsKnown ==
    \A n \in Window :
        \/ sequence[Slot(n)] = n /\ n >= enqueue_pos
        \/ sequence[Slot(n)] = n /\ \E p \in Producers : Writing(p) /\ prod[p].pos = n
        \/ sequence[Slot(n)] = n + 1 /\ n < enqueue_pos /\ event[Slot(n)] = item[n]

WritersKnown ==
    \A p \in Producers : Writing(p) =>
        /\ prod[p].pos \in Freed .. enqueue_pos - 1
        /\ sequence[Slot(prod[p].pos)] = prod[p].pos
        /\ item[prod[p].pos] = prod[p].ev
        /\ \A q \in Producers \ {p} : Writing(q) => prod[q].pos # prod[p].pos

ClaimersKnown ==
    \A p \in Producers : prod[p].pc \in {"look", "claim"} =>
        /\ prod[p].pos <= enqueue_pos /\ enqueue_pos - prod[p].pos <= MaxStall
        /\ prod[p].pc = "claim" => prod[p].pos < Freed + Capacity

DrainKnown ==
    /\ drain \in {"copy", "free"} =>
           dequeue_pos < enqueue_pos /\ sequence[Slot(dequeue_pos)] = dequeue_pos + 1
    /\ TakenInOrder

RingInv == TypeOK /\ Bounded /\ SlotsKnown /\ WritersKnown /\ ClaimersKnown /\ DrainKnown


-----------------------------------------------------------------------------
(* Remainders *)

LEMMA Division ==
    ASSUME NEW w \in Nat, w > 0, NEW d \in Int
    PROVE  d \div w \in Int /\ d % w \in 0 .. w - 1 /\ d = (d \div w) * w + (d % w)
  OBVIOUS

LEMMA MultipleFar ==
    ASSUME NEW w \in Nat, w > 0, NEW k \in Int, -w < k * w, k * w < w
    PROVE  k = 0
  <1>1. k >= 1 => k * w >= w
    OBVIOUS
  <1>2. k <= -1 => k * w <= -w
    OBVIOUS
  <1> QED
    BY <1>1, <1>2

(* Numbers a multiple of w apart have the same remainder, and conversely. *)
LEMMA Congruent ==
    ASSUME NEW w \in Nat, w > 0, NEW d \in Int, NEW e \in Int, NEW k \in Int,
           d = e + k * w
    PROVE  d % w = e % w
  <1> DEFINE a == d \div w  b == e \div w  r == d % w  t == e % w
  <1>1. /\ a \in Int /\ b \in Int /\ r \in 0 .. w - 1 /\ t \in 0 .. w - 1
        /\ d = a * w + r /\ e = b * w + t
    BY Division, Zenon
  <1> HIDE DEF a, b, r, t
  <1>2. (b + k - a) * w = b * w + k * w - a * w
    BY <1>1
  <1>3. a * w \in Int /\ b * w \in Int /\ k * w \in Int
    BY <1>1
  <1>4. -w < (b + k - a) * w /\ (b + k - a) * w < w
    BY <1>1, <1>2, <1>3
  <1>5. b + k - a = 0
    BY <1>1, <1>4, MultipleFar
  <1> QED
    BY <1>1, <1>2, <1>3, <1>5 DEF r, t

LEMMA NotCongruent ==
    ASSUME NEW w \in Nat, w > 0, NEW d \in Int, NEW e \in Int, d < e, e < d + w
    PROVE  d % w # e % w
  <1> SUFFICES ASSUME d % w = e % w PROVE FALSE
    BY Zenon
  <1> DEFINE a == d \div w  b == e \div w  r == d % w
  <1>1. a \in Int /\ b \in Int /\ r \in Int /\ d = a * w + r /\ e = b * w + r
    BY Division
  <1> HIDE DEF a, b, r
  <1>2. (b - a) * w = b * w - a * w
    BY <1>1
  <1>3. a * w \in Int /\ b * w \in Int
    BY <1>1
  <1>4. -w < (b - a) * w /\ (b - a) * w < w
    BY <1>1, <1>2, <1>3
  <1>5. b - a = 0
    BY <1>1, <1>4, MultipleFar
  <1> QED
    BY <1>1, <1>2, <1>3, <1>5

LEMMA Small ==
    ASSUME NEW w \in Nat, NEW d \in Int, 0 <= d, d < w
    PROVE  d % w = d
  OBVIOUS

-----------------------------------------------------------------------------
(* Slots and differences *)

LEMMA SlotType ==
    ASSUME NEW n \in Int
    PROVE  Slot(n) \in Slots
  BY CapacityAssumption, Division DEF Slot, Slots

(* Two positions less than Capacity apart have different slots. *)
LEMMA SlotsDiffer ==
    ASSUME NEW m \in Int, NEW n \in Int, m < n, n < m + Capacity
    PROVE  Slot(m) # Slot(n)
  BY CapacityAssumption, NotCongruent DEF Slot

(* The position that owns a slot in the window that starts at base. *)
LEMMA InWindow ==
    ASSUME NEW base \in Int, NEW n \in Int
    PROVE  /\ base + ((n - base) % Capacity) \in base .. base + Capacity - 1
           /\ Slot(base + ((n - base) % Capacity)) = Slot(n)
  <1> DEFINE k == (n - base) \div Capacity  r == (n - base) % Capacity
  <1>1. k \in Int /\ r \in 0 .. Capacity - 1 /\ n - base = k * Capacity + r
    BY CapacityAssumption, Division
  <1> HIDE DEF k, r
  <1>2. n = (base + r) + k * Capacity
    <2>1. k * Capacity \in Int
      BY <1>1, CapacityAssumption
    <2> QED
      BY <1>1, <2>1
  <1>3. n % Capacity = (base + r) % Capacity
    <2>1. base + r \in Int /\ Capacity \in Nat /\ Capacity > 0
      BY <1>1, CapacityAssumption
    <2> QED
      BY <1>1, <1>2, <2>1, Congruent, Zenon
  <1>4. base + r \in base .. base + Capacity - 1 /\ Slot(base + r) = Slot(n)
    BY <1>1, <1>3, CapacityAssumption DEF Slot
  <1> QED
    BY <1>4, Zenon DEF r

LEMMA NextRound ==
    ASSUME NEW n \in Int
    PROVE  Slot(n + Capacity) = Slot(n)
  <1>1. n + Capacity = n + 1 * Capacity /\ n + Capacity \in Int /\ 1 \in Int
    BY CapacityAssumption
  <1>2. (n + Capacity) % Capacity = n % Capacity
    <2>1. Capacity \in Nat /\ Capacity > 0
      BY CapacityAssumption
    <2> QED
      BY <1>1, <2>1, Congruent, Zenon
  <1> QED
    BY <1>2, Zenon DEF Slot

(* The signed 32-bit difference is the difference while it is small. *)
LEMMA DifferenceExact ==
    ASSUME NEW m \in Int, NEW n \in Int, -(Wrap \div 2) <= m - n, m - n < Wrap \div 2
    PROVE  Difference(m, n) = m - n
  <1> DEFINE h == Wrap \div 2
  <1>1. h \in Int /\ Wrap = 2 * h /\ h > 0 /\ Wrap \in Nat
    BY WrapAssumption, CapacityAssumption, Division
  <1> HIDE DEF h
  <1>2. CASE 0 <= m - n
    <2>1. (m - n) % Wrap = m - n
      BY <1>1, <1>2, Small DEF h
    <2> QED
      BY <2>1, Zenon DEF Difference
  <1>3. CASE m - n < 0
    <2>1. m - n = (m - n + Wrap) + (-1) * Wrap
      BY <1>1
    <2>2. (m - n) % Wrap = (m - n + Wrap) % Wrap
      BY <1>1, <2>1, Congruent
    <2>3. (m - n + Wrap) % Wrap = m - n + Wrap
      BY <1>1, <1>3, Small DEF h
    <2> QED
      BY <1>1, <1>3, <2>2, <2>3 DEF Difference, h
  <1> QED
    BY <1>2, <1>3

-----------------------------------------------------------------------------
(* Types *)

LEMMA ProdFields ==
    ASSUME TypeOK, NEW p \in Producers
    PROVE  /\ prod[p] \in ProdStates
           /\ prod[p].pc = "load" => prod[p].ev \in Events
           /\ prod[p].pc \in {"look", "claim", "copy", "publish"} =>
                  /\ prod[p] \in [pc : {"look", "claim", "copy", "publish"},
                                  ev : Events, pos : Later]
                  /\ prod[p].ev \in Events /\ prod[p].pos \in Nat /\ prod[p].pos >= Start
  BY DEF TypeOK, ProdStates, Idle, Later

LEMMA FreedType == TypeOK => Freed \in Nat
  BY DEF TypeOK, Freed, Later

LEMMA LookState ==
    ASSUME NEW e \in Events, NEW n \in Later
    PROVE  [pc |-> "look", ev |-> e, pos |-> n] \in ProdStates
  BY Zenon DEF ProdStates

LEMMA TypeInit == Init => TypeOK
  <1> SUFFICES ASSUME Init PROVE TypeOK
    BY Zenon
  <1>1. Start \in Later /\ Idle \in ProdStates
    BY RingBoundsAssumption DEF Later, ProdStates
  <1>2. sequence \in [Slots -> Later]
    <2>1. ASSUME NEW i \in Slots PROVE Start + ((i - Start) % Capacity) \in Later
      <3>1. (i - Start) % Capacity \in 0 .. Capacity - 1
        BY CapacityAssumption, RingBoundsAssumption, Division DEF Slots
      <3> QED
        BY <3>1, RingBoundsAssumption DEF Later
    <2> QED
      BY <2>1, Zenon DEF Init
  <1> QED
    BY <1>1, <1>2, Zenon DEF Init, TypeOK

LEMMA TypeStep ==
    ASSUME TypeOK, [Next]_vars
    PROVE  TypeOK'
  <1> USE DEF slotVars, consumerVars, counters
  <1>t. /\ enqueue_pos \in Later /\ dequeue_pos \in Later
        /\ sequence \in [Slots -> Later]
        /\ event \in [Slots -> Events \cup {NoEvent}]
        /\ prod \in [Producers -> ProdStates]
        /\ output \in Events \cup {NoEvent} /\ accepted \in Nat /\ dropped \in Nat
        /\ item \in [Positions -> Events \cup {NoEvent}]
    BY Zenon DEF TypeOK
  <1>s. \A n \in Int : Slot(n) \in Slots
    BY SlotType, Zenon
  <1>1. ASSUME NEW p \in Producers, Producer(p)
        PROVE  TypeOK'
    <2>i. Idle \in ProdStates /\ [pc |-> "account"] \in ProdStates
      BY Zenon DEF ProdStates
    <2>1. ASSUME NEW e \in Events, Record(p, e)
          PROVE  TypeOK'
      <3>1. [pc |-> "load", ev |-> e] \in ProdStates
        BY Zenon DEF ProdStates
      <3> QED
        BY <1>t, <2>1, <3>1, Zenon DEF Record, TypeOK
    <2>2. CASE Load(p) \/ ClaimLost(p)
      <3>1. [pc |-> "look", ev |-> prod[p].ev, pos |-> enqueue_pos] \in ProdStates
        BY <1>t, <2>2, ProdFields, LookState, Zenon DEF Load, ClaimLost
      <3> QED
        BY <1>t, <2>2, <3>1, Zenon DEF Load, ClaimLost, TypeOK
    <2>3. CASE LookFree(p) \/ CopyIn(p)
      <3>1. /\ prod[p] \in [pc : {"look", "claim", "copy", "publish"}, ev : Events, pos : Later]
            /\ prod[p].pos \in Int
        BY <2>3, ProdFields DEF LookFree, CopyIn
      <3>2. ASSUME NEW s \in {"claim", "publish"}
            PROVE  [prod[p] EXCEPT !.pc = s] \in ProdStates
        BY <3>1, Zenon DEF ProdStates
      <3>3. prod' \in [Producers -> ProdStates]
        BY <1>t, <2>3, <3>2, Zenon DEF LookFree, CopyIn
      <3>4. event' \in [Slots -> Events \cup {NoEvent}]
        BY <1>t, <1>s, <2>3, <3>1, Zenon DEF LookFree, CopyIn
      <3> QED
        BY <1>t, <2>3, <3>3, <3>4, Zenon DEF LookFree, CopyIn, TypeOK
    <2>4. CASE LookFull(p) \/ Account(p)
      BY <1>t, <2>i, <2>4 DEF LookFull, Account, TypeOK
    <2>5. CASE LookAhead(p)
      <3>1. [pc |-> "load", ev |-> prod[p].ev] \in ProdStates
        BY <2>5, ProdFields, Zenon DEF LookAhead, ProdStates
      <3> QED
        BY <1>t, <2>5, <3>1, Zenon DEF LookAhead, TypeOK
    <2>6. CASE Claim(p)
      <3>1. prod[p] \in [pc : {"look", "claim", "copy", "publish"}, ev : Events, pos : Later]
        BY <2>6, ProdFields, Zenon DEF Claim
      <3>2. [prod[p] EXCEPT !.pc = "copy"] \in ProdStates
        BY <3>1, Zenon DEF ProdStates
      <3>3. prod' \in [Producers -> ProdStates]
        BY <1>t, <2>6, <3>2, Zenon DEF Claim
      <3>4. enqueue_pos + 1 \in Later
        BY <1>t, RingBoundsAssumption DEF Later
      <3>5. item' \in [Positions -> Events \cup {NoEvent}]
        BY <1>t, <2>6, <3>1, Zenon DEF Claim
      <3> QED
        BY <1>t, <2>6, <3>3, <3>4, <3>5, Zenon DEF Claim, TypeOK
    <2>7. CASE PublishSlot(p)
      <3>1. prod[p].ev \in Events /\ prod[p].pos \in Nat /\ prod[p].pos >= Start
        BY <2>7, ProdFields, Zenon DEF PublishSlot
      <3>2. prod[p].pos + 1 \in Later /\ Slot(prod[p].pos) \in Slots
        BY <1>s, <3>1, RingBoundsAssumption DEF Later
      <3>3. sequence' \in [Slots -> Later] /\ event' \in [Slots -> Events \cup {NoEvent}]
        BY <1>t, <2>7, <3>1, <3>2, Zenon DEF PublishSlot
      <3> QED
        BY <1>t, <2>i, <2>7, <3>3, Zenon DEF PublishSlot, TypeOK
    <2> QED
      BY <1>1, <2>1, <2>2, <2>3, <2>4, <2>5, <2>6, <2>7, Zenon DEF Producer
  <1>2. CASE Consumer
    <2>1. /\ dequeue_pos + 1 \in Later /\ dequeue_pos + Capacity \in Later
          /\ Slot(dequeue_pos) \in Slots
      BY <1>t, <1>s, RingBoundsAssumption, CapacityAssumption DEF Later
    <2>2. CASE Drain \/ DrainLook \/ DrainReturn \/ Advance
      BY <1>t, <2>1, <2>2, Zenon DEF Drain, DrainLook, DrainReturn, Advance, TypeOK
    <2>3. CASE CopyOut \/ FreeSlot
      BY <1>t, <2>1, <2>3, Zenon DEF CopyOut, FreeSlot, TypeOK
    <2> QED
      BY <1>2, <2>2, <2>3, Zenon DEF Consumer
  <1>3. CASE UNCHANGED vars
    BY <1>3, Zenon DEF vars, TypeOK
  <1> QED
    BY <1>1, <1>2, <1>3, Zenon DEF Next

(* The counters, the slots and every record call keep their types. *)
THEOREM TypeCorrect == Spec => []TypeOK
  BY TypeInit, TypeStep, PTL DEF Spec

-----------------------------------------------------------------------------
(* The inductive invariant: record calls that own no slot *)

Shape == Bounded /\ SlotsKnown /\ WritersKnown /\ ClaimersKnown /\ DrainKnown

(* A step of a producer that does not write, before or after it, and that   *)
(* touches neither the slots nor the consumer.                              *)
LEMMA NotWriting ==
    ASSUME TypeOK, Shape, NEW p \in Producers, NEW e,
           UNCHANGED <<slotVars, consumerVars>>,
           ~Writing(p), prod' = [prod EXCEPT ![p] = e], e.pc \notin {"copy", "publish"},
           e.pc \in {"look", "claim"} =>
               /\ e.pos <= enqueue_pos /\ enqueue_pos - e.pos <= MaxStall
               /\ e.pc = "claim" => e.pos < Freed + Capacity
    PROVE  Shape'
  <1> USE DEF slotVars, consumerVars
  <1>t. prod \in [Producers -> ProdStates]
    BY Zenon DEF TypeOK
  <1>1. prod'[p] = e /\ \A q \in Producers : q # p => prod'[q] = prod[q]
    BY <1>t, Zenon
  <1>2. \A q \in Producers : Writing(q)' <=> Writing(q)
    BY <1>1, Zenon DEF Writing
  <1>3. \A q \in Producers : Writing(q) => prod'[q] = prod[q]
    BY <1>1, Zenon
  <1>4. Freed' = Freed /\ Window' = Window
    BY Zenon DEF Freed, Window
  <1>5. Bounded' /\ DrainKnown'
    BY <1>4, Zenon DEF Shape, Bounded, DrainKnown, TakenInOrder
  <1>6. SlotsKnown'
    BY <1>2, <1>3, <1>4 DEF Shape, SlotsKnown
  <1>7. WritersKnown'
    BY <1>2, <1>3, <1>4 DEF Shape, WritersKnown
  <1>8. ClaimersKnown'
    BY <1>1, <1>4, Zenon DEF Shape, ClaimersKnown
  <1> QED
    BY <1>5, <1>6, <1>7, <1>8, Zenon DEF Shape

(* What a producer that looks at a slot finds there: the sequence belongs   *)
(* to the position n that owns the slot at this time, and the signed        *)
(* difference with the position the producer read is exact.                 *)
LEMMA WhatLookFinds ==
    ASSUME TypeOK, Shape, NEW p \in Producers, prod[p].pc = "look"
    PROVE  \E n \in Window :
             /\ \/ n = prod[p].pos
                \/ n >= prod[p].pos + Capacity
                \/ n + Capacity <= prod[p].pos
             /\ sequence[Slot(prod[p].pos)] \in {n, n + 1}
             /\ Distance(p) = sequence[Slot(prod[p].pos)] - prod[p].pos
  <1> DEFINE pos == prod[p].pos
             n == Freed + ((pos - Freed) % Capacity)
             s == sequence[Slot(pos)]
             h == Wrap \div 2
  <1>t. /\ pos \in Nat /\ Freed \in Nat /\ enqueue_pos \in Nat
        /\ h \in Int /\ Capacity \in Nat /\ Capacity >= 2 /\ MaxStall \in Nat
        /\ MaxStall + Capacity < h
    <2>1. pos \in Nat /\ Freed \in Nat /\ enqueue_pos \in Nat
      BY ProdFields, FreedType, Zenon DEF TypeOK, Later
    <2>2. /\ h \in Int /\ Capacity \in Nat /\ Capacity >= 2 /\ MaxStall \in Nat
          /\ MaxStall + Capacity < h
      BY WrapAssumption, CapacityAssumption
    <2> QED
      BY <2>1, <2>2, Zenon
  <1>1. n \in Window /\ n \in Int /\ Slot(n) = Slot(pos)
    <2>1. Freed \in Int /\ pos \in Int
      BY <1>t
    <2>2. n \in Freed .. Freed + Capacity - 1 /\ Slot(n) = Slot(pos)
      BY <2>1, InWindow, Zenon
    <2> HIDE DEF n, pos
    <2> QED
      BY <1>t, <2>2 DEF Window
  <1>d. Distance(p) = Difference(s, pos)
    BY Zenon DEF Distance
  <1>c. pos <= enqueue_pos /\ enqueue_pos - pos <= MaxStall
    BY Zenon DEF Shape, ClaimersKnown
  <1> HIDE DEF pos, n, s, h
  <1>2. n = pos \/ n >= pos + Capacity \/ n + Capacity <= pos
    BY <1>t, <1>1, SlotsDiffer
  <1>3. s \in {n, n + 1}
    <2>1. sequence[Slot(n)] \in {n, n + 1}
      BY <1>1, Zenon DEF Shape, SlotsKnown
    <2> QED
      BY <1>1, <2>1, Zenon DEF s
  <1>4. -h <= s - pos /\ s - pos < h /\ s \in Int
    <2>1. Freed <= enqueue_pos /\ enqueue_pos <= Freed + Capacity
      BY Zenon DEF Shape, Bounded
    <2>2. n >= Freed /\ n <= Freed + Capacity - 1
      BY <1>1, <1>t DEF Window
    <2> QED
      BY <1>t, <1>1, <1>3, <1>c, <2>1, <2>2
  <1>5. Difference(s, pos) = s - pos
    BY <1>t, <1>4, DifferenceExact DEF h
  <1> QED
    BY <1>1, <1>2, <1>3, <1>5, <1>d, Zenon DEF pos, s

LEMMA LookStep ==
    ASSUME TypeOK, Shape, NEW p \in Producers,
           LookFree(p) \/ LookFull(p) \/ LookAhead(p)
    PROVE  Shape' /\ (dropped' # dropped => enqueue_pos - Freed >= Capacity)
  <1> USE DEF slotVars, consumerVars, counters
  <1>1. prod[p].pc = "look" /\ UNCHANGED <<slotVars, consumerVars>> /\ ~Writing(p)
    BY Zenon DEF LookFree, LookFull, LookAhead, Writing
  <1>2. PICK n \in Window :
             /\ \/ n = prod[p].pos
                \/ n >= prod[p].pos + Capacity
                \/ n + Capacity <= prod[p].pos
             /\ sequence[Slot(prod[p].pos)] \in {n, n + 1}
             /\ Distance(p) = sequence[Slot(prod[p].pos)] - prod[p].pos
    BY <1>1, WhatLookFinds, Zenon
  <1>t. /\ prod[p].pos \in Nat /\ Freed \in Nat /\ enqueue_pos \in Nat
        /\ Capacity \in Nat /\ Capacity >= 2 /\ n \in Int
        /\ prod[p].pos <= enqueue_pos /\ enqueue_pos - prod[p].pos <= MaxStall
        /\ n >= Freed /\ n <= Freed + Capacity - 1
    BY <1>1, <1>2, ProdFields, FreedType, CapacityAssumption
       DEF TypeOK, Later, Window, Shape, ClaimersKnown
  <1>3. CASE LookFree(p)
    <2> DEFINE e == [prod[p] EXCEPT !.pc = "claim"]
    <2>1. prod' = [prod EXCEPT ![p] = e] /\ UNCHANGED dropped /\ Distance(p) = 0
      BY <1>3, Zenon DEF LookFree
    <2>2. e.pc = "claim" /\ e.pos = prod[p].pos
      BY <1>1, ProdFields, Zenon
    <2> HIDE DEF e
    <2>3. prod[p].pos < Freed + Capacity
      BY <1>2, <1>t, <2>1
    <2> QED
      BY <1>1, <1>t, <2>1, <2>2, <2>3, NotWriting, Zenon
  <1>4. CASE LookFull(p)
    <2>1. prod' = [prod EXCEPT ![p] = Idle] /\ Distance(p) < 0
      BY <1>4, Zenon DEF LookFull
    <2>2. Shape'
      BY <1>1, <2>1, NotWriting, Zenon DEF Idle
    <2>3. enqueue_pos - Freed >= Capacity
      BY <1>2, <1>t, <2>1
    <2> QED
      BY <2>2, <2>3, Zenon
  <1>5. CASE LookAhead(p)
    <2> DEFINE e == [pc |-> "load", ev |-> prod[p].ev]
    <2>1. prod' = [prod EXCEPT ![p] = e] /\ UNCHANGED dropped
      BY <1>5, Zenon DEF LookAhead
    <2>2. e.pc = "load"
      BY Zenon
    <2> HIDE DEF e
    <2> QED
      BY <1>1, <2>1, <2>2, NotWriting, Zenon
  <1> QED
    BY <1>3, <1>4, <1>5, Zenon

-----------------------------------------------------------------------------
(* The inductive invariant: claiming, writing and publishing a slot *)

LEMMA ClaimStep ==
    ASSUME TypeOK, Shape, NEW p \in Producers, Claim(p)
    PROVE  Shape'
  <1> USE DEF slotVars, consumerVars, counters
  <1> DEFINE pos == prod[p].pos
  <1>t. /\ pos \in Nat /\ enqueue_pos \in Nat /\ enqueue_pos >= Start
        /\ Freed \in Nat /\ Capacity \in Nat
        /\ prod \in [Producers -> ProdStates] /\ prod[p].ev \in Events
        /\ item \in [Positions -> Events \cup {NoEvent}]
    BY ProdFields, FreedType, CapacityAssumption, Zenon DEF TypeOK, Later, Claim
  <1>1. pos = enqueue_pos
    <2>1. pos <= enqueue_pos /\ enqueue_pos - pos <= MaxStall /\ (enqueue_pos - pos) % Wrap = 0
      BY Zenon DEF Claim, Shape, ClaimersKnown
    <2>2. enqueue_pos - pos \in Int /\ 0 <= enqueue_pos - pos /\ enqueue_pos - pos < Wrap
      BY <1>t, <2>1, WrapAssumption, CapacityAssumption
    <2>3. (enqueue_pos - pos) % Wrap = enqueue_pos - pos
      BY <2>2, WrapAssumption, Small, Zenon
    <2> QED
      BY <1>t, <2>1, <2>3
  <1>2. enqueue_pos < Freed + Capacity /\ enqueue_pos < Start + MaxEvents
    BY <1>1, Zenon DEF Claim, Shape, ClaimersKnown
  <1>3. /\ prod'[p].pc = "copy" /\ prod'[p].pos = enqueue_pos /\ prod'[p].ev = prod[p].ev
        /\ \A q \in Producers : q # p => prod'[q] = prod[q]
    <2>1. prod[p] \in [pc : {"look", "claim", "copy", "publish"}, ev : Events, pos : Later]
      BY ProdFields, Zenon DEF Claim
    <2> QED
      BY <1>t, <1>1, <2>1, Zenon DEF Claim
  <1>4. /\ UNCHANGED <<sequence, event, dequeue_pos, drain, output>>
        /\ enqueue_pos' = enqueue_pos + 1
    BY Zenon DEF Claim
  <1>5. /\ item'[enqueue_pos] = prod[p].ev
        /\ \A n \in Positions : n # enqueue_pos => item'[n] = item[n]
    BY <1>t, <1>2, RingBoundsAssumption DEF Claim, Positions
  <1>6. Freed' = Freed /\ Window' = Window
    BY <1>4, Zenon DEF Freed, Window
  <1>7. /\ Writing(p)' /\ ~Writing(p)
        /\ \A q \in Producers : q # p => (Writing(q)' <=> Writing(q))
    BY <1>3, Zenon DEF Writing, Claim
  <1>8. /\ Freed <= enqueue_pos /\ Start <= dequeue_pos /\ dequeue_pos \in Nat
        /\ dequeue_pos <= Freed
    BY DEF Shape, Bounded, Freed, TypeOK, Later
  <1>9. sequence[Slot(enqueue_pos)] = enqueue_pos
    <2>1. enqueue_pos \in Window
      BY <1>t, <1>2, <1>8 DEF Window
    <2>2. \A q \in Producers : Writing(q) => prod[q].pos # enqueue_pos
      BY <1>t DEF Shape, WritersKnown
    <2> QED
      BY <1>t, <2>1, <2>2 DEF Shape, SlotsKnown
  <1> HIDE DEF pos
  <1>10. \A n \in Freed .. enqueue_pos - 1 : item'[n] = item[n]
    BY <1>t, <1>2, <1>5, <1>8, RingBoundsAssumption DEF Positions
  <1>11. Bounded'
    BY <1>t, <1>2, <1>4, <1>6, <1>8, RingBoundsAssumption DEF Bounded
  <1>12. SlotsKnown'
    <2> SUFFICES ASSUME NEW n \in Window
                 PROVE  \/ sequence[Slot(n)] = n /\ n >= enqueue_pos + 1
                        \/ /\ sequence[Slot(n)] = n
                           /\ \E q \in Producers : Writing(q)' /\ prod'[q].pos = n
                        \/ /\ sequence[Slot(n)] = n + 1 /\ n < enqueue_pos + 1
                           /\ event[Slot(n)] = item'[n]
      BY <1>4, <1>6, Zenon DEF SlotsKnown
    <2>1. n \in Int /\ n >= Freed
      BY <1>t DEF Window
    <2>2. CASE n = enqueue_pos
      BY <2>2, <1>3, <1>7, <1>9, Zenon
    <2>3. CASE n # enqueue_pos
      <3>1. \/ sequence[Slot(n)] = n /\ n >= enqueue_pos
            \/ sequence[Slot(n)] = n /\ \E q \in Producers : Writing(q) /\ prod[q].pos = n
            \/ sequence[Slot(n)] = n + 1 /\ n < enqueue_pos /\ event[Slot(n)] = item[n]
        BY Zenon DEF Shape, SlotsKnown
      <3>2. CASE sequence[Slot(n)] = n /\ n >= enqueue_pos
        BY <1>t, <2>1, <2>3, <3>2
      <3>3. CASE sequence[Slot(n)] = n /\ \E q \in Producers : Writing(q) /\ prod[q].pos = n
        BY <1>3, <1>7, <3>3, Zenon
      <3>4. CASE sequence[Slot(n)] = n + 1 /\ n < enqueue_pos /\ event[Slot(n)] = item[n]
        BY <1>t, <1>10, <2>1, <3>4
      <3> QED
        BY <3>1, <3>2, <3>3, <3>4, Zenon
    <2> QED
      BY <2>2, <2>3, Zenon
  <1>13. WritersKnown'
    <2> SUFFICES ASSUME NEW q \in Producers, Writing(q)'
                 PROVE  /\ prod'[q].pos \in Freed .. enqueue_pos
                        /\ sequence[Slot(prod'[q].pos)] = prod'[q].pos
                        /\ item'[prod'[q].pos] = prod'[q].ev
                        /\ \A r \in Producers \ {q} : Writing(r)' => prod'[r].pos # prod'[q].pos
      BY <1>t, <1>4, <1>6 DEF WritersKnown
    <2>1. \A r \in Producers : Writing(r) =>
              /\ prod[r].pos \in Freed .. enqueue_pos - 1
              /\ sequence[Slot(prod[r].pos)] = prod[r].pos
              /\ item[prod[r].pos] = prod[r].ev
              /\ prod[r].pos # enqueue_pos
      BY <1>t DEF Shape, WritersKnown
    <2>2. CASE q = p
      BY <1>t, <1>3, <1>5, <1>7, <1>8, <1>9, <2>1, <2>2
    <2>3. CASE q # p
      <3>1. Writing(q) /\ prod'[q] = prod[q]
        BY <1>3, <1>7, <2>3, Zenon
      <3>2. \A r \in Producers \ {q} : Writing(r) => prod[r].pos # prod[q].pos
        BY <3>1, Zenon DEF Shape, WritersKnown
      <3>3. ASSUME NEW r \in Producers \ {q}, Writing(r)'
            PROVE  prod'[r].pos # prod'[q].pos
        BY <1>3, <1>7, <2>1, <3>1, <3>2, <3>3, Zenon
      <3>4. prod[q].pos \in Freed .. enqueue_pos /\ item'[prod[q].pos] = prod[q].ev
        BY <1>t, <1>10, <2>1, <3>1
      <3> QED
        BY <2>1, <3>1, <3>3, <3>4, Zenon
    <2> QED
      BY <2>2, <2>3, Zenon
  <1>14. ClaimersKnown'
    <2> SUFFICES ASSUME NEW q \in Producers, prod'[q].pc \in {"look", "claim"}
                 PROVE  /\ prod'[q].pos <= enqueue_pos' /\ enqueue_pos' - prod'[q].pos <= MaxStall
                        /\ prod'[q].pc = "claim" => prod'[q].pos < Freed' + Capacity
      BY Zenon DEF ClaimersKnown
    <2>1. q # p /\ prod'[q] = prod[q]
      BY <1>3, Zenon
    <2>2. prod[q].pos \in Nat /\ prod[q].pos <= enqueue_pos
      BY <2>1, ProdFields, Zenon DEF Shape, ClaimersKnown
    <2>3. enqueue_pos + 1 - prod[q].pos <= MaxStall
      BY <2>1, Zenon DEF Claim, Awake
    <2>4. prod[q].pc = "claim" => prod[q].pos < Freed + Capacity
      BY <2>1, Zenon DEF Shape, ClaimersKnown
    <2> QED
      BY <1>t, <1>4, <1>6, <2>1, <2>2, <2>3, <2>4
  <1>15. DrainKnown'
    <2>1. /\ drain \in {"copy", "free"} =>
                 dequeue_pos < enqueue_pos /\ sequence[Slot(dequeue_pos)] = dequeue_pos + 1
          /\ drain \in {"free", "advance"} => output = item[dequeue_pos]
      BY Zenon DEF Shape, DrainKnown, TakenInOrder
    <2>2. drain \in {"free", "advance"} => item'[dequeue_pos] = item[dequeue_pos]
      <3>1. drain \in {"free", "advance"} => dequeue_pos < enqueue_pos
        BY <1>8, <1>t, <2>1 DEF Freed
      <3> QED
        BY <1>t, <1>2, <1>5, <1>8, <3>1, RingBoundsAssumption DEF Positions
    <2> QED
      BY <1>t, <1>4, <1>8, <2>1, <2>2 DEF DrainKnown, TakenInOrder
  <1> QED
    BY <1>11, <1>12, <1>13, <1>14, <1>15, Zenon DEF Shape

(* The writer of a slot is the only one, so what happens to its slot does   *)
(* not touch any other position of the window.                              *)
LEMMA OwnSlot ==
    ASSUME TypeOK, Shape, NEW p \in Producers, Writing(p),
           NEW n \in Window, n # prod[p].pos
    PROVE  Slot(n) # Slot(prod[p].pos)
  <1>t. prod[p].pos \in Nat /\ Freed \in Nat /\ enqueue_pos \in Nat /\ Capacity \in Nat
    BY ProdFields, FreedType, CapacityAssumption, Zenon DEF TypeOK, Later, Writing
  <1>1. /\ prod[p].pos \in Freed .. enqueue_pos - 1
        /\ enqueue_pos <= Freed + Capacity
    BY Zenon DEF Shape, WritersKnown, Bounded
  <1>2. n \in Freed .. Freed + Capacity - 1
    BY Zenon DEF Window
  <1> QED
    BY <1>t, <1>1, <1>2, SlotsDiffer

LEMMA DrainSlot ==
    ASSUME TypeOK, Shape, NEW p \in Producers, Writing(p), drain \in {"copy", "free"}
    PROVE  prod[p].pos # dequeue_pos /\ Slot(prod[p].pos) # Slot(dequeue_pos)
  <1>t. dequeue_pos \in Nat /\ Capacity \in Nat /\ Capacity >= 2
    BY CapacityAssumption, Zenon DEF TypeOK, Later
  <1>1. dequeue_pos \in Window
    BY <1>t DEF Freed, Window
  <1>2. prod[p].pos # dequeue_pos
    <2>1. sequence[Slot(prod[p].pos)] = prod[p].pos
      BY Zenon DEF Shape, WritersKnown
    <2>2. sequence[Slot(dequeue_pos)] = dequeue_pos + 1
      BY Zenon DEF Shape, DrainKnown
    <2> QED
      BY <1>t, <2>1, <2>2
  <1> QED
    BY <1>1, <1>2, OwnSlot, Zenon

LEMMA CopyInStep ==
    ASSUME TypeOK, Shape, NEW p \in Producers, CopyIn(p)
    PROVE  Shape'
  <1> USE DEF slotVars, consumerVars, counters
  <1>t. /\ prod \in [Producers -> ProdStates] /\ event \in [Slots -> Events \cup {NoEvent}]
        /\ prod[p] \in [pc : {"look", "claim", "copy", "publish"}, ev : Events, pos : Later]
        /\ prod[p].pos \in Nat
    BY ProdFields, Zenon DEF TypeOK, CopyIn
  <1>1. UNCHANGED <<enqueue_pos, sequence, item, dequeue_pos, drain, output>>
    BY Zenon DEF CopyIn
  <1>2. /\ prod'[p].pc = "publish" /\ prod'[p].ev = prod[p].ev /\ prod'[p].pos = prod[p].pos
        /\ \A q \in Producers : q # p => prod'[q] = prod[q]
    BY <1>t, Zenon DEF CopyIn
  <1>3. Writing(p)
    BY Zenon DEF CopyIn, Writing
  <1>4. \A q \in Producers : /\ Writing(q)' <=> Writing(q)
                             /\ prod'[q].pos = prod[q].pos /\ prod'[q].ev = prod[q].ev
    BY <1>2, <1>3, Zenon DEF Writing
  <1>5. Freed' = Freed /\ Window' = Window
    BY <1>1, Zenon DEF Freed, Window
  <1>6. \A i \in Slots : i # Slot(prod[p].pos) => event'[i] = event[i]
    BY <1>t, Zenon DEF CopyIn
  <1>7. Bounded' /\ DrainKnown'
    BY <1>1, <1>5, Zenon DEF Shape, Bounded, DrainKnown, TakenInOrder
  <1>8. WritersKnown'
    BY <1>1, <1>4, <1>5 DEF Shape, WritersKnown
  <1>9. ClaimersKnown'
    BY <1>1, <1>2, <1>5, Zenon DEF Shape, ClaimersKnown
  <1>10. SlotsKnown'
    <2> SUFFICES ASSUME NEW n \in Window
                 PROVE  \/ sequence[Slot(n)] = n /\ n >= enqueue_pos
                        \/ /\ sequence[Slot(n)] = n
                           /\ \E q \in Producers : Writing(q)' /\ prod'[q].pos = n
                        \/ /\ sequence[Slot(n)] = n + 1 /\ n < enqueue_pos
                           /\ event'[Slot(n)] = item[n]
      BY <1>1, <1>5, Zenon DEF SlotsKnown
    <2>1. CASE n = prod[p].pos
      BY <1>3, <1>4, <2>1, Zenon DEF Shape, WritersKnown
    <2>2. CASE n # prod[p].pos
      <3>1. event'[Slot(n)] = event[Slot(n)]
        <4>1. Slot(n) \in Slots
          BY SlotType, FreedType, CapacityAssumption DEF Window
        <4> QED
          BY <1>3, <1>6, <2>2, <4>1, OwnSlot, Zenon
      <3>2. \/ sequence[Slot(n)] = n /\ n >= enqueue_pos
            \/ sequence[Slot(n)] = n /\ \E q \in Producers : Writing(q) /\ prod[q].pos = n
            \/ sequence[Slot(n)] = n + 1 /\ n < enqueue_pos /\ event[Slot(n)] = item[n]
        BY Zenon DEF Shape, SlotsKnown
      <3> QED
        BY <1>4, <3>1, <3>2, Zenon
    <2> QED
      BY <2>1, <2>2, Zenon
  <1> QED
    BY <1>7, <1>8, <1>9, <1>10, Zenon DEF Shape

LEMMA PublishStep ==
    ASSUME TypeOK, Shape, NEW p \in Producers, PublishSlot(p)
    PROVE  Shape'
  <1> USE DEF slotVars, consumerVars, counters
  <1> DEFINE pos == prod[p].pos
  <1>t. /\ prod \in [Producers -> ProdStates] /\ event \in [Slots -> Events \cup {NoEvent}]
        /\ sequence \in [Slots -> Later]
        /\ pos \in Nat /\ Slot(pos) \in Slots /\ enqueue_pos \in Nat /\ dequeue_pos \in Nat
    BY ProdFields, SlotType DEF TypeOK, PublishSlot, Later
  <1>1. UNCHANGED <<enqueue_pos, item, dequeue_pos, drain, output>>
    BY Zenon DEF PublishSlot
  <1>2. /\ prod'[p].pc = "account"
        /\ \A q \in Producers : q # p => prod'[q] = prod[q]
    BY <1>t, Zenon DEF PublishSlot
  <1>3. Writing(p)
    BY Zenon DEF PublishSlot, Writing
  <1>4. ~Writing(p)' /\ \A q \in Producers : q # p => (Writing(q)' <=> Writing(q))
    BY <1>2, Zenon DEF Writing
  <1>5. Freed' = Freed /\ Window' = Window
    BY <1>1, Zenon DEF Freed, Window
  <1>6. /\ event'[Slot(pos)] = prod[p].ev /\ sequence'[Slot(pos)] = pos + 1
        /\ \A i \in Slots : i # Slot(pos) => event'[i] = event[i] /\ sequence'[i] = sequence[i]
    BY <1>t, Zenon DEF PublishSlot
  <1>7. /\ pos \in Freed .. enqueue_pos - 1 /\ item[pos] = prod[p].ev
        /\ \A q \in Producers \ {p} : Writing(q) => prod[q].pos # pos
    BY <1>3, Zenon DEF Shape, WritersKnown
  <1>8. \A n \in Window : n # pos => Slot(n) \in Slots /\ Slot(n) # Slot(pos)
    BY <1>3, OwnSlot, SlotType, FreedType, CapacityAssumption DEF Window
  <1>p. Freed \in Nat /\ Capacity \in Nat /\ enqueue_pos <= Freed + Capacity
    BY FreedType, CapacityAssumption, Zenon DEF Shape, Bounded
  <1> HIDE DEF pos
  <1>9. Bounded'
    BY <1>1, <1>5, Zenon DEF Shape, Bounded
  <1>10. ClaimersKnown'
    BY <1>1, <1>2, <1>5, Zenon DEF Shape, ClaimersKnown
  <1>11. SlotsKnown'
    <2> SUFFICES ASSUME NEW n \in Window
                 PROVE  \/ sequence'[Slot(n)] = n /\ n >= enqueue_pos
                        \/ /\ sequence'[Slot(n)] = n
                           /\ \E q \in Producers : Writing(q)' /\ prod'[q].pos = n
                        \/ /\ sequence'[Slot(n)] = n + 1 /\ n < enqueue_pos
                           /\ event'[Slot(n)] = item[n]
      BY <1>1, <1>5, Zenon DEF SlotsKnown
    <2>1. CASE n = pos
      BY <1>t, <1>6, <1>7, <1>p, <2>1
    <2>2. CASE n # pos
      <3>1. event'[Slot(n)] = event[Slot(n)] /\ sequence'[Slot(n)] = sequence[Slot(n)]
        BY <1>6, <1>8, <2>2, Zenon
      <3>2. \/ sequence[Slot(n)] = n /\ n >= enqueue_pos
            \/ sequence[Slot(n)] = n /\ \E q \in Producers : Writing(q) /\ prod[q].pos = n
            \/ sequence[Slot(n)] = n + 1 /\ n < enqueue_pos /\ event[Slot(n)] = item[n]
        BY Zenon DEF Shape, SlotsKnown
      <3>3. ASSUME NEW q \in Producers, Writing(q), prod[q].pos = n
            PROVE  Writing(q)' /\ prod'[q].pos = n
        BY <1>2, <1>4, <2>2, <3>3, Zenon DEF pos
      <3> QED
        BY <3>1, <3>2, <3>3, Zenon
    <2> QED
      BY <2>1, <2>2, Zenon
  <1>12. WritersKnown'
    <2> SUFFICES ASSUME NEW q \in Producers, Writing(q)'
                 PROVE  /\ prod'[q].pos \in Freed .. enqueue_pos - 1
                        /\ sequence'[Slot(prod'[q].pos)] = prod'[q].pos
                        /\ item[prod'[q].pos] = prod'[q].ev
                        /\ \A r \in Producers \ {q} : Writing(r)' => prod'[r].pos # prod'[q].pos
      BY <1>1, <1>5, Zenon DEF WritersKnown
    <2>1. q # p /\ Writing(q) /\ prod'[q] = prod[q]
      BY <1>2, <1>4, Zenon
    <2>2. /\ prod[q].pos \in Freed .. enqueue_pos - 1
          /\ sequence[Slot(prod[q].pos)] = prod[q].pos
          /\ item[prod[q].pos] = prod[q].ev
          /\ \A r \in Producers \ {q} : Writing(r) => prod[r].pos # prod[q].pos
      BY <2>1, Zenon DEF Shape, WritersKnown
    <2>3. prod[q].pos \in Window /\ prod[q].pos # pos
      BY <1>t, <1>p, <1>7, <2>1, <2>2 DEF Window
    <2>4. sequence'[Slot(prod[q].pos)] = sequence[Slot(prod[q].pos)]
      BY <1>6, <1>8, <2>3, Zenon
    <2>5. \A r \in Producers \ {q} : Writing(r)' => Writing(r) /\ prod'[r] = prod[r]
      BY <1>2, <1>4, Zenon
    <2> QED
      BY <2>1, <2>2, <2>4, <2>5, Zenon
  <1>13. DrainKnown'
    <2>1. drain \in {"copy", "free"} =>
              Slot(dequeue_pos) \in Slots /\ Slot(dequeue_pos) # Slot(pos)
      BY <1>3, <1>t, DrainSlot, SlotType DEF pos
    <2> QED
      BY <1>1, <1>6, <2>1, Zenon DEF Shape, DrainKnown, TakenInOrder
  <1> QED
    BY <1>9, <1>10, <1>11, <1>12, <1>13, Zenon DEF Shape

-----------------------------------------------------------------------------
(* The inductive invariant: the consumer *)

LEMMA DrainLookStep ==
    ASSUME TypeOK, Shape, DrainLook
    PROVE  Shape'
  <1> USE DEF slotVars, consumerVars, counters
  <1>t. /\ dequeue_pos \in Nat /\ Freed = dequeue_pos /\ Capacity \in Nat /\ Capacity >= 2
        /\ dequeue_pos \in Window /\ enqueue_pos \in Nat
    BY CapacityAssumption DEF TypeOK, Later, Freed, DrainLook, Window
  <1>1. UNCHANGED <<enqueue_pos, sequence, event, item, prod, dequeue_pos, output>> /\ drain' = "copy"
    BY Zenon DEF DrainLook
  <1>2. Freed' = Freed /\ Window' = Window /\ \A p \in Producers : Writing(p)' <=> Writing(p)
    BY <1>1, <1>t, Zenon DEF Freed, Window, Writing
  <1>3. Bounded' /\ SlotsKnown' /\ WritersKnown' /\ ClaimersKnown'
    BY <1>1, <1>2, Zenon DEF Shape, Bounded, SlotsKnown, WritersKnown, ClaimersKnown
  <1>4. sequence[Slot(dequeue_pos)] \in {dequeue_pos, dequeue_pos + 1}
    BY <1>t, Zenon DEF Shape, SlotsKnown
  <1>5. sequence[Slot(dequeue_pos)] # dequeue_pos
    <2> SUFFICES ASSUME sequence[Slot(dequeue_pos)] = dequeue_pos PROVE FALSE
      BY Zenon
    <2>1. Wrap \div 2 \in Int /\ Wrap \div 2 > 1
      BY WrapAssumption, CapacityAssumption
    <2>2. Difference(dequeue_pos, dequeue_pos + 1) = dequeue_pos - (dequeue_pos + 1)
      BY <1>t, <2>1, DifferenceExact
    <2> QED
      BY <1>t, <2>2 DEF DrainLook, Published
  <1>6. dequeue_pos < enqueue_pos /\ sequence[Slot(dequeue_pos)] = dequeue_pos + 1
    <2>1. sequence[Slot(dequeue_pos)] = dequeue_pos + 1
      BY <1>4, <1>5, Zenon
    <2> QED
      BY <1>t, <2>1 DEF Shape, SlotsKnown
  <1>7. DrainKnown'
    BY <1>1, <1>6, Zenon DEF DrainKnown, TakenInOrder
  <1> QED
    BY <1>3, <1>7, Zenon DEF Shape

LEMMA CopyOutStep ==
    ASSUME TypeOK, Shape, CopyOut
    PROVE  Shape'
  <1> USE DEF slotVars, consumerVars, counters
  <1>t. dequeue_pos \in Nat /\ Freed = dequeue_pos /\ Capacity \in Nat /\ dequeue_pos \in Window
    BY CapacityAssumption DEF TypeOK, Later, Freed, CopyOut, Window
  <1>1. /\ UNCHANGED <<enqueue_pos, sequence, event, item, prod, dequeue_pos>>
        /\ drain' = "free" /\ output' = event[Slot(dequeue_pos)]
    BY Zenon DEF CopyOut
  <1>2. Freed' = Freed /\ Window' = Window /\ \A p \in Producers : Writing(p)' <=> Writing(p)
    BY <1>1, <1>t, Zenon DEF Freed, Window, Writing
  <1>3. Bounded' /\ SlotsKnown' /\ WritersKnown' /\ ClaimersKnown'
    BY <1>1, <1>2, Zenon DEF Shape, Bounded, SlotsKnown, WritersKnown, ClaimersKnown
  <1>4. dequeue_pos < enqueue_pos /\ sequence[Slot(dequeue_pos)] = dequeue_pos + 1
    BY Zenon DEF Shape, DrainKnown, CopyOut
  <1>5. event[Slot(dequeue_pos)] = item[dequeue_pos]
    BY <1>t, <1>4 DEF Shape, SlotsKnown
  <1>6. DrainKnown'
    BY <1>1, <1>4, <1>5, Zenon DEF DrainKnown, TakenInOrder
  <1> QED
    BY <1>3, <1>6, Zenon DEF Shape

LEMMA FreeSlotStep ==
    ASSUME TypeOK, Shape, FreeSlot
    PROVE  Shape'
  <1> USE DEF slotVars, consumerVars, counters
  <1>t. /\ dequeue_pos \in Nat /\ Freed = dequeue_pos /\ Capacity \in Nat /\ Capacity >= 2
        /\ enqueue_pos \in Nat /\ sequence \in [Slots -> Later]
        /\ Slot(dequeue_pos) \in Slots
    BY CapacityAssumption, SlotType DEF TypeOK, Later, Freed, FreeSlot
  <1>1. UNCHANGED <<enqueue_pos, event, item, prod, dequeue_pos, output>> /\ drain' = "advance"
    BY Zenon DEF FreeSlot
  <1>2. /\ sequence'[Slot(dequeue_pos)] = dequeue_pos + Capacity
        /\ \A i \in Slots : i # Slot(dequeue_pos) => sequence'[i] = sequence[i]
    BY <1>t, Zenon DEF FreeSlot
  <1>3. /\ Freed' = dequeue_pos + 1
        /\ \A p \in Producers : Writing(p)' <=> Writing(p)
    BY <1>1, Zenon DEF Freed, Writing
  <1>4. /\ Start <= dequeue_pos /\ dequeue_pos < enqueue_pos
        /\ enqueue_pos <= dequeue_pos + Capacity /\ enqueue_pos <= Start + MaxEvents
        /\ output = item[dequeue_pos]
    BY <1>t, Zenon DEF Shape, Bounded, DrainKnown, TakenInOrder, FreeSlot
  <1>5. Bounded'
    BY <1>t, <1>1, <1>3, <1>4, RingBoundsAssumption DEF Bounded
  <1>6. \A n \in dequeue_pos + 1 .. dequeue_pos + Capacity - 1 :
            sequence'[Slot(n)] = sequence[Slot(n)]
    BY <1>t, <1>2, SlotsDiffer, SlotType
  <1>7. SlotsKnown'
    <2> SUFFICES ASSUME NEW n \in dequeue_pos + 1 .. dequeue_pos + Capacity
                 PROVE  \/ sequence'[Slot(n)] = n /\ n >= enqueue_pos
                        \/ /\ sequence'[Slot(n)] = n
                           /\ \E q \in Producers : Writing(q) /\ prod[q].pos = n
                        \/ /\ sequence'[Slot(n)] = n + 1 /\ n < enqueue_pos
                           /\ event[Slot(n)] = item[n]
      <3>1. Window' = dequeue_pos + 1 .. dequeue_pos + Capacity
        BY <1>t, <1>3 DEF Window
      <3> QED
        BY <1>1, <1>3, <3>1, Zenon DEF SlotsKnown
    <2>1. CASE n = dequeue_pos + Capacity
      BY <1>t, <1>2, <1>4, <2>1, NextRound
    <2>2. CASE n # dequeue_pos + Capacity
      <3>1. n \in Window /\ n \in dequeue_pos + 1 .. dequeue_pos + Capacity - 1
        BY <1>t, <2>2 DEF Window
      <3> QED
        BY <1>6, <3>1, Zenon DEF Shape, SlotsKnown
    <2> QED
      BY <2>1, <2>2, Zenon
  <1>8. WritersKnown'
    <2> SUFFICES ASSUME NEW q \in Producers, Writing(q)
                 PROVE  /\ prod[q].pos \in dequeue_pos + 1 .. enqueue_pos - 1
                        /\ sequence'[Slot(prod[q].pos)] = prod[q].pos
                        /\ item[prod[q].pos] = prod[q].ev
                        /\ \A r \in Producers \ {q} : Writing(r) => prod[r].pos # prod[q].pos
      BY <1>1, <1>3, Zenon DEF WritersKnown
    <2>1. /\ prod[q].pos \in dequeue_pos .. enqueue_pos - 1
          /\ sequence[Slot(prod[q].pos)] = prod[q].pos
          /\ item[prod[q].pos] = prod[q].ev
          /\ \A r \in Producers \ {q} : Writing(r) => prod[r].pos # prod[q].pos
      BY <1>t, Zenon DEF Shape, WritersKnown
    <2>2. prod[q].pos # dequeue_pos
      BY DrainSlot, Zenon DEF FreeSlot
    <2>3. /\ prod[q].pos \in dequeue_pos + 1 .. enqueue_pos - 1
          /\ prod[q].pos \in dequeue_pos + 1 .. dequeue_pos + Capacity - 1
      BY <1>t, <1>4, <2>1, <2>2
    <2> QED
      BY <1>6, <2>1, <2>3, Zenon
  <1>9. ClaimersKnown'
    <2> SUFFICES ASSUME NEW q \in Producers, prod'[q].pc \in {"look", "claim"}
                 PROVE  /\ prod'[q].pos <= enqueue_pos' /\ enqueue_pos' - prod'[q].pos <= MaxStall
                        /\ prod'[q].pc = "claim" => prod'[q].pos < Freed' + Capacity
      BY Zenon DEF ClaimersKnown
    <2>1. prod'[q] = prod[q] /\ prod[q].pos \in Nat
      BY <1>1, ProdFields, Zenon
    <2> QED
      BY <1>1, <1>3, <1>t, <2>1 DEF Shape, ClaimersKnown
  <1>10. DrainKnown'
    BY <1>1, <1>4, Zenon DEF DrainKnown, TakenInOrder
  <1> QED
    BY <1>5, <1>7, <1>8, <1>9, <1>10, Zenon DEF Shape

(* The steps of the consumer that move nothing. *)
LEMMA OtherDrainStep ==
    ASSUME TypeOK, Shape, Drain \/ DrainReturn \/ Advance
    PROVE  Shape'
  <1> USE DEF slotVars, consumerVars, counters
  <1>1. /\ UNCHANGED <<enqueue_pos, sequence, event, item, prod, output>>
        /\ drain' \notin {"copy", "free", "advance"}
    BY Zenon DEF Drain, DrainReturn, Advance
  <1>2. Freed' = Freed /\ Window' = Window /\ \A p \in Producers : Writing(p)' <=> Writing(p)
    BY <1>1, Zenon DEF Drain, DrainReturn, Advance, Freed, Window, Writing
  <1>3. dequeue_pos \in Nat /\ dequeue_pos' \in Nat /\ dequeue_pos' >= dequeue_pos
    BY DEF TypeOK, Later, Drain, DrainReturn, Advance
  <1>4. SlotsKnown' /\ WritersKnown' /\ ClaimersKnown'
    BY <1>1, <1>2, Zenon DEF Shape, SlotsKnown, WritersKnown, ClaimersKnown
  <1>5. Bounded'
    BY <1>1, <1>2, <1>3, RingBoundsAssumption DEF Shape, Bounded
  <1>6. DrainKnown'
    BY <1>1, Zenon DEF DrainKnown, TakenInOrder
  <1> QED
    BY <1>4, <1>5, <1>6, Zenon DEF Shape

-----------------------------------------------------------------------------
LEMMA ShapeInit == Init => Shape
  <1> SUFFICES ASSUME Init PROVE Shape
    BY Zenon
  <1>t. /\ Start \in Nat /\ Capacity \in Nat /\ Capacity >= 2 /\ MaxEvents \in Nat
        /\ enqueue_pos = Start /\ dequeue_pos = Start /\ drain = "idle"
        /\ Freed = Start
    BY RingBoundsAssumption, CapacityAssumption, Zenon DEF Init, Freed
  <1>1. \A p \in Producers : prod[p].pc = "idle"
    BY Zenon DEF Init, Idle
  <1>2. WritersKnown /\ ClaimersKnown
    BY <1>1, Zenon DEF WritersKnown, ClaimersKnown, Writing
  <1>3. Bounded /\ DrainKnown
    BY <1>t DEF Bounded, DrainKnown, TakenInOrder
  <1>4. ASSUME NEW n \in Start .. Start + Capacity - 1
        PROVE  sequence[Slot(n)] = n
    <2>1. n \in Int /\ Slot(n) \in Slots /\ Slot(n) \in Int
      BY <1>t, SlotType DEF Slots
    <2>2. sequence[Slot(n)] = Start + ((Slot(n) - Start) % Capacity)
      BY <2>1, Zenon DEF Init
    <2> DEFINE m == Start + ((Slot(n) - Start) % Capacity)
    <2>3. m \in Start .. Start + Capacity - 1 /\ Slot(m) = Slot(Slot(n))
      <3>1. Start \in Int
        BY <1>t
      <3> QED
        BY <2>1, <3>1, InWindow, Zenon
    <2>4. Slot(Slot(n)) = Slot(n)
      BY <1>t, <2>1, Small DEF Slot, Slots
    <2> HIDE DEF m
    <2>5. m = n
      BY <1>t, <2>1, <2>3, <2>4, SlotsDiffer
    <2> QED
      BY <2>2, <2>5, Zenon DEF m
  <1>5. SlotsKnown
    BY <1>t, <1>4 DEF SlotsKnown, Window
  <1> QED
    BY <1>2, <1>3, <1>5, Zenon DEF Shape

LEMMA ShapeStep ==
    ASSUME TypeOK, Shape, [Next]_vars
    PROVE  Shape'
  <1> USE DEF slotVars, consumerVars, counters
  <1>1. ASSUME NEW p \in Producers, Producer(p)
        PROVE  Shape'
    <2>1. ASSUME NEW e \in Events, Record(p, e)
          PROVE  Shape'
      BY <2>1, NotWriting, Zenon DEF Record, Writing
    <2>2. CASE Load(p) \/ ClaimLost(p)
      <3> DEFINE e == [pc |-> "look", ev |-> prod[p].ev, pos |-> enqueue_pos]
      <3>1. /\ prod' = [prod EXCEPT ![p] = e] /\ ~Writing(p)
            /\ UNCHANGED <<slotVars, consumerVars>>
        BY <2>2, Zenon DEF Load, ClaimLost, Writing
      <3>2. e.pc = "look" /\ e.pos = enqueue_pos
        BY Zenon
      <3> HIDE DEF e
      <3>3. e.pos <= enqueue_pos /\ enqueue_pos - e.pos <= MaxStall
        BY <3>2, WrapAssumption DEF TypeOK, Later
      <3> QED
        BY <3>1, <3>2, <3>3, NotWriting, Zenon
    <2>3. CASE LookFree(p) \/ LookFull(p) \/ LookAhead(p)
      BY <2>3, LookStep, Zenon
    <2>4. CASE Account(p)
      BY <2>4, NotWriting, Zenon DEF Account, Writing, Idle
    <2> QED
      BY <1>1, <2>1, <2>2, <2>3, <2>4, ClaimStep, CopyInStep, PublishStep, Zenon DEF Producer
  <1>2. CASE Consumer
    BY <1>2, DrainLookStep, CopyOutStep, FreeSlotStep, OtherDrainStep, Zenon DEF Consumer
  <1>3. CASE UNCHANGED vars
    <2>1. /\ UNCHANGED <<enqueue_pos, sequence, event, item, prod, dequeue_pos, drain, output>>
          /\ Freed' = Freed /\ Window' = Window /\ \A p \in Producers : Writing(p)' <=> Writing(p)
      BY <1>3, Zenon DEF vars, Freed, Window, Writing
    <2>2. Bounded' /\ ClaimersKnown' /\ DrainKnown'
      BY <2>1, Zenon DEF Shape, Bounded, ClaimersKnown, DrainKnown, TakenInOrder
    <2>3. SlotsKnown' /\ WritersKnown'
      BY <2>1, Zenon DEF Shape, SlotsKnown, WritersKnown
    <2> QED
      BY <2>2, <2>3, Zenon DEF Shape
  <1> QED
    BY <1>1, <1>2, <1>3, Zenon DEF Next

LEMMA ShapeHolds == Spec => []Shape
  BY TypeCorrect, ShapeInit, ShapeStep, PTL DEF Spec

LEMMA ExclusiveFromShape == TypeOK /\ Shape => SlotExclusive
  <1> SUFFICES ASSUME TypeOK, Shape, NEW p \in Producers, Writing(p)
               PROVE  /\ \A q \in Producers \ {p} :
                             Writing(q) => Slot(prod[q].pos) # Slot(prod[p].pos)
                      /\ drain = "copy" => Slot(prod[p].pos) # Slot(dequeue_pos)
    BY Zenon DEF SlotExclusive
  <1>1. ASSUME NEW q \in Producers \ {p}, Writing(q)
        PROVE  Slot(prod[q].pos) # Slot(prod[p].pos)
    <2>1. prod[q].pos \in Freed .. enqueue_pos - 1 /\ prod[q].pos # prod[p].pos
      BY <1>1, Zenon DEF Shape, WritersKnown
    <2>2. /\ Freed \in Nat /\ enqueue_pos \in Nat /\ Capacity \in Nat
          /\ enqueue_pos <= Freed + Capacity
      BY FreedType, CapacityAssumption, Zenon DEF Shape, Bounded, TypeOK, Later
    <2>3. prod[q].pos \in Window
      BY <2>1, <2>2 DEF Window
    <2> QED
      BY <2>1, <2>3, OwnSlot, Zenon
  <1>2. drain = "copy" => Slot(prod[p].pos) # Slot(dequeue_pos)
    BY DrainSlot, Zenon
  <1> QED
    BY <1>1, <1>2, Zenon

(* The event of a slot has one user at a time: no two record calls write    *)
(* the same slot and none writes the slot that vp_drain copies.             *)
THEOREM Exclusive == Spec => []SlotExclusive
  BY TypeCorrect, ShapeHolds, ExclusiveFromShape, PTL

(* vp_drain hands out, for every position, the complete event of the record *)
(* call that claimed it.                                                    *)
THEOREM InOrder == Spec => []TakenInOrder
  <1>1. Shape => TakenInOrder
    BY Zenon DEF Shape, DrainKnown
  <1> QED
    BY <1>1, ShapeHolds, PTL

(* The record calls that hold a position and have not counted it yet; the  *)
(* accepted count is behind the positions given out by their number.       *)
Uncounted == {p \in Producers : prod[p].pc \in {"copy", "publish", "account"}}
Counted ==
    /\ IsFiniteSet(Uncounted)
    /\ accepted + Cardinality(Uncounted) = enqueue_pos - Start

LEMMA CountedStep ==
    ASSUME TypeOK, Counted, [Next]_vars
    PROVE  Counted'
  <1> USE DEF slotVars, consumerVars, counters
  <1>t. /\ accepted \in Nat /\ enqueue_pos \in Nat /\ Start \in Nat
        /\ Cardinality(Uncounted) \in Nat /\ IsFiniteSet(Uncounted)
        /\ accepted + Cardinality(Uncounted) = enqueue_pos - Start
    BY FS_CardinalityType, RingBoundsAssumption DEF Counted, TypeOK, Later
  <1>p. prod \in [Producers -> ProdStates]
    BY Zenon DEF TypeOK
  <1>1. ASSUME Uncounted' = Uncounted, UNCHANGED <<accepted, enqueue_pos>>
        PROVE  Counted'
    BY <1>1, Zenon DEF Counted
  <1>2. ASSUME NEW p \in Producers, Claim(p)
        PROVE  Counted'
    <2>1. /\ prod' = [prod EXCEPT ![p].pc = "copy"] /\ prod[p].pc = "claim"
          /\ accepted' = accepted /\ enqueue_pos' = enqueue_pos + 1
      BY <1>2, Zenon DEF Claim
    <2>2. /\ prod[p] \in [pc : {"look", "claim", "copy", "publish"}, ev : Events, pos : Later]
      BY <2>1, ProdFields
    <2>3. prod'[p].pc = "copy" /\ \A q \in Producers : q # p => prod'[q] = prod[q]
      BY <1>p, <2>1, <2>2
    <2>4. Uncounted' = Uncounted \cup {p} /\ p \notin Uncounted
      BY <2>1, <2>3 DEF Uncounted
    <2>5. /\ IsFiniteSet(Uncounted \cup {p})
          /\ Cardinality(Uncounted \cup {p}) = Cardinality(Uncounted) + 1
      BY <1>t, <2>4, FS_AddElement
    <2>6. IsFiniteSet(Uncounted') /\ Cardinality(Uncounted') = Cardinality(Uncounted) + 1
      BY <2>4, <2>5
    <2> HIDE DEF Uncounted
    <2> QED
      BY <1>t, <2>1, <2>6 DEF Counted
  <1>3. ASSUME NEW p \in Producers, Account(p)
        PROVE  Counted'
    <2>1. /\ prod' = [prod EXCEPT ![p] = Idle] /\ prod[p].pc = "account"
          /\ accepted' = accepted + 1 /\ enqueue_pos' = enqueue_pos
      BY <1>3, Zenon DEF Account
    <2>2. prod'[p].pc = "idle" /\ \A q \in Producers : q # p => prod'[q] = prod[q]
      BY <1>p, <2>1 DEF Idle
    <2>3. Uncounted' = Uncounted \ {p} /\ p \in Uncounted
      BY <2>1, <2>2 DEF Uncounted
    <2>4. /\ IsFiniteSet(Uncounted \ {p})
          /\ Cardinality(Uncounted \ {p}) = Cardinality(Uncounted) - 1
      BY <1>t, <2>3, FS_RemoveElement
    <2>5. IsFiniteSet(Uncounted') /\ Cardinality(Uncounted') = Cardinality(Uncounted) - 1
      BY <2>3, <2>4
    <2> QED
      BY <1>t, <2>1, <2>5 DEF Counted
  <1>4. ASSUME NEW p \in Producers, CopyIn(p) \/ PublishSlot(p)
        PROVE  Counted'
    <2>1. /\ prod[p].pc \in {"copy", "publish"} /\ UNCHANGED <<accepted, enqueue_pos>>
          /\ \/ prod' = [prod EXCEPT ![p].pc = "publish"]
             \/ prod' = [prod EXCEPT ![p] = [pc |-> "account"]]
      BY <1>4, Zenon DEF CopyIn, PublishSlot
    <2>2. prod[p] \in [pc : {"look", "claim", "copy", "publish"}, ev : Events, pos : Later]
      BY <2>1, ProdFields
    <2>3. /\ prod'[p].pc \in {"publish", "account"}
          /\ \A q \in Producers : q # p => prod'[q] = prod[q]
      BY <1>p, <2>1, <2>2
    <2>4. Uncounted' = Uncounted
      BY <2>1, <2>3 DEF Uncounted
    <2> QED
      BY <1>1, <2>1, <2>4
  <1>5. ASSUME NEW p \in Producers, NEW pc \in {"load", "look", "claim", "idle"}, NEW s, s.pc = pc,
               prod[p].pc \in {"idle", "load", "look", "claim"}, prod' = [prod EXCEPT ![p] = s],
               UNCHANGED <<accepted, enqueue_pos>>
        PROVE  Counted'
    <2>1. prod'[p].pc = pc /\ \A q \in Producers : q # p => prod'[q] = prod[q]
      BY <1>p, <1>5
    <2>2. Uncounted' = Uncounted
      BY <1>5, <2>1 DEF Uncounted
    <2> QED
      BY <1>1, <1>5, <2>2
  <1>6. ASSUME NEW p \in Producers, Producer(p)
        PROVE  Counted'
    <2>1. CASE \E e \in Events : Record(p, e)
      BY <1>5, <2>1, ZenonT(60) DEF Record
    <2>2. CASE Load(p) \/ ClaimLost(p) \/ LookAhead(p)
      BY <1>5, <2>2 DEF Load, ClaimLost, LookAhead
    <2>3. CASE LookFree(p)
      <3>1. /\ prod[p].pc = "look" /\ UNCHANGED <<accepted, enqueue_pos>>
            /\ prod' = [prod EXCEPT ![p].pc = "claim"]
        BY <2>3, Zenon DEF LookFree
      <3>2. prod[p] \in [pc : {"look", "claim", "copy", "publish"}, ev : Events, pos : Later]
        BY <3>1, ProdFields
      <3>3. prod'[p].pc = "claim" /\ \A q \in Producers : q # p => prod'[q] = prod[q]
        BY <1>p, <3>1, <3>2
      <3>4. Uncounted' = Uncounted
        BY <3>1, <3>3 DEF Uncounted
      <3> QED
        BY <1>1, <3>1, <3>4
    <2>4. CASE LookFull(p)
      BY <1>5, <2>4, ZenonT(60) DEF LookFull, Idle
    <2>5. CASE Claim(p)
      BY <1>2, <2>5
    <2>6. CASE CopyIn(p) \/ PublishSlot(p)
      BY <1>4, <2>6
    <2>7. CASE Account(p)
      BY <1>3, <2>7
    <2> QED
      BY <1>6, <2>1, <2>2, <2>3, <2>4, <2>5, <2>6, <2>7, Zenon DEF Producer
  <1>7. ASSUME Consumer \/ UNCHANGED vars
        PROVE  Counted'
    <2>1. UNCHANGED <<prod, accepted, enqueue_pos>>
      BY <1>7, Zenon DEF Consumer, Drain, DrainLook, DrainReturn, CopyOut, FreeSlot, Advance, vars
    <2> QED
      BY <1>1, <2>1 DEF Uncounted
  <1> QED
    BY <1>6, <1>7, Zenon DEF Next

(* When no record call is between its claim and its count, the accepted     *)
(* count is the number of positions given out: no event is counted twice or *)
(* forgotten, whichever calls overlapped.                                   *)
THEOREM CountsAccepted == Spec => []CountsExact
  <1>1. Init => Counted
    <2>1. ASSUME Init
          PROVE  Uncounted = {} /\ accepted = 0 /\ enqueue_pos = Start
      BY <2>1 DEF Init, Uncounted, Idle
    <2> QED
      BY <2>1, FS_EmptySet, RingBoundsAssumption DEF Counted
  <1>2. TypeOK /\ Counted /\ [Next]_vars => Counted'
    BY CountedStep, Zenon
  <1>3. TypeOK /\ Counted => CountsExact
    <2>1. ASSUME TypeOK, Counted,
                 \A p \in Producers : prod[p].pc \notin {"copy", "publish", "account"}
          PROVE  accepted = enqueue_pos - Start
      <3>1. Uncounted = {}
        BY <2>1 DEF Uncounted
      <3> QED
        BY <2>1, <3>1, FS_EmptySet DEF Counted, TypeOK
    <2> QED
      BY <2>1, Zenon DEF CountsExact
  <1> QED
    BY <1>1, <1>2, <1>3, TypeCorrect, PTL DEF Spec

(* An event is dropped only while all slots are in use. *)
THEOREM DropsWhenFull == Spec => DropOnlyWhenFull
  <1>1. ASSUME TypeOK, Shape, [Next]_vars
        PROVE  [dropped' # dropped => enqueue_pos - Freed >= Capacity]_vars
    <2> USE DEF slotVars, consumerVars, counters
    <2> SUFFICES ASSUME dropped' # dropped
                 PROVE  \E p \in Producers : LookFull(p)
      BY <1>1, LookStep, Zenon
    <2>1. CASE UNCHANGED vars
      BY <2>1, Zenon DEF vars
    <2>2. CASE Consumer
      BY <2>2, Zenon DEF Consumer, Drain, DrainLook, DrainReturn, CopyOut, FreeSlot, Advance
    <2>3. ASSUME NEW p \in Producers, Producer(p)
          PROVE  LookFull(p)
      BY <2>3, Zenon DEF Producer, Record, Load, LookFree, LookAhead, Claim, ClaimLost, CopyIn,
         PublishSlot, Account
    <2> QED
      BY <1>1, <2>1, <2>2, <2>3, Zenon DEF Next
  <1> QED
    BY <1>1, TypeCorrect, ShapeHolds, PTL DEF Spec, DropOnlyWhenFull

-----------------------------------------------------------------------------
(* The ring implements the bounded queue. *)

LEMMA QueueStart == Init => Queue!QueueInit
  BY RingBoundsAssumption
     DEF Init, Freed, Complete, Positions, Queue!QueueInit, Queue!Places

(* The steps of a record call that neither claim nor publish. *)
LEMMA QueueUnmoved ==
    ASSUME TypeOK, UNCHANGED <<enqueue_pos, item, consumerVars>>,
           \A p \in Producers : \/ prod'[p].pos = prod[p].pos /\ Writing(p)' /\ Writing(p)
                                \/ ~Writing(p)' /\ ~Writing(p)
    PROVE  UNCHANGED Queue!queueVars
  <1>1. UNCHANGED <<Freed, output, IF drain = "free" THEN "taken" ELSE "looking">>
    BY Zenon DEF consumerVars, Freed
  <1>2. Complete' = Complete
    BY Zenon DEF Complete
  <1> QED
    BY <1>1, <1>2, Zenon DEF Queue!queueVars

LEMMA QueueClaim ==
    ASSUME TypeOK, Shape, NEW p \in Producers, Claim(p)
    PROVE  Queue!Reserve(prod[p].ev) /\ prod[p].ev \in Events
  <1> USE DEF slotVars, consumerVars
  <1>t. /\ enqueue_pos \in Nat /\ Freed \in Nat /\ Capacity \in Nat
        /\ prod[p].pos \in Nat /\ Start \in Nat /\ enqueue_pos >= Start
        /\ prod[p] \in [pc : {"look", "claim", "copy", "publish"}, ev : Events, pos : Later]
        /\ prod \in [Producers -> ProdStates]
    BY ProdFields, FreedType, CapacityAssumption, RingBoundsAssumption, Zenon
       DEF TypeOK, Later, Claim
  <1>1. prod[p].pos = enqueue_pos /\ enqueue_pos < Freed + Capacity
    <2>1. /\ prod[p].pos <= enqueue_pos /\ enqueue_pos - prod[p].pos <= MaxStall
          /\ (enqueue_pos - prod[p].pos) % Wrap = 0
          /\ prod[p].pos < Freed + Capacity
      BY Zenon DEF Claim, Shape, ClaimersKnown
    <2>2. /\ enqueue_pos - prod[p].pos \in Int /\ 0 <= enqueue_pos - prod[p].pos
          /\ enqueue_pos - prod[p].pos < Wrap
      BY <1>t, <2>1, WrapAssumption, CapacityAssumption
    <2>3. (enqueue_pos - prod[p].pos) % Wrap = enqueue_pos - prod[p].pos
      BY <2>2, WrapAssumption, Small, Zenon
    <2> QED
      BY <1>t, <2>1, <2>3
  <1>2. /\ enqueue_pos' = enqueue_pos + 1
        /\ item' = [item EXCEPT ![enqueue_pos] = prod[p].ev]
        /\ UNCHANGED <<dequeue_pos, drain, output>> /\ enqueue_pos < Start + MaxEvents
    BY Zenon DEF Claim
  <1>3. /\ ~Writing(p) /\ Writing(p)' /\ prod'[p].pos = enqueue_pos
        /\ \A q \in Producers : q # p => prod'[q] = prod[q] /\ (Writing(q)' <=> Writing(q))
    BY <1>t, <1>1, Zenon DEF Claim, Writing
  <1>4. Complete' = Complete
    <2>1. ASSUME NEW n \in Start .. enqueue_pos
          PROVE  n \in Complete' <=> n \in Complete
      <3>0. /\ n \in Complete <=> n < enqueue_pos /\ \A q \in Producers : ~(Writing(q) /\ prod[q].pos = n)
            /\ n \in Complete' <=> \A q \in Producers : ~(Writing(q)' /\ prod'[q].pos = n)
        BY <1>t, <1>2 DEF Complete
      <3>1. CASE n = enqueue_pos
        BY <1>t, <1>3, <3>0, <3>1
      <3>2. CASE n # enqueue_pos
        BY <1>t, <1>3, <3>0, <3>2
      <3> QED
        BY <3>1, <3>2, Zenon
    <2>2. Complete \subseteq Start .. enqueue_pos /\ Complete' \subseteq Start .. enqueue_pos
      BY <1>t, <1>2 DEF Complete
    <2> QED
      BY <2>1, <2>2, Zenon
  <1>5. UNCHANGED <<Freed, IF drain = "free" THEN "taken" ELSE "looking">>
    BY <1>2, Zenon DEF Freed
  <1> QED
    BY <1>t, <1>1, <1>2, <1>4, <1>5 DEF Queue!Reserve

LEMMA QueuePublish ==
    ASSUME TypeOK, Shape, NEW p \in Producers, PublishSlot(p)
    PROVE  Queue!Publish(prod[p].pos) /\ prod[p].pos \in Queue!Places
  <1> USE DEF slotVars, consumerVars
  <1>t. /\ enqueue_pos \in Nat /\ Freed \in Nat /\ prod[p].pos \in Nat
        /\ Start \in Nat /\ MaxEvents \in Nat /\ Freed >= Start
        /\ prod \in [Producers -> ProdStates]
    BY ProdFields, FreedType, RingBoundsAssumption DEF TypeOK, Later, PublishSlot, Freed
  <1>1. Writing(p)
    BY Zenon DEF PublishSlot, Writing
  <1>2. /\ prod[p].pos \in Freed .. enqueue_pos - 1 /\ enqueue_pos <= Start + MaxEvents
        /\ \A q \in Producers \ {p} : Writing(q) => prod[q].pos # prod[p].pos
    BY <1>1, Zenon DEF Shape, WritersKnown, Bounded
  <1>3. UNCHANGED <<enqueue_pos, item, dequeue_pos, drain, output>>
    BY Zenon DEF PublishSlot
  <1>4. /\ ~Writing(p)'
        /\ \A q \in Producers : q # p => prod'[q] = prod[q] /\ (Writing(q)' <=> Writing(q))
    BY <1>t, Zenon DEF PublishSlot, Writing
  <1>5. Complete' = Complete \cup {prod[p].pos} /\ prod[p].pos \notin Complete
    <2>1. ASSUME NEW n \in Start .. enqueue_pos - 1
          PROVE  n \in Complete' <=> n \in Complete \/ n = prod[p].pos
      BY <1>1, <1>2, <1>3, <1>4, Zenon DEF Complete
    <2>2. prod[p].pos \in Start .. enqueue_pos - 1
      BY <1>t, <1>2
    <2>3. Complete \subseteq Start .. enqueue_pos - 1 /\ Complete' \subseteq Start .. enqueue_pos - 1
      BY <1>3, Zenon DEF Complete
    <2>4. prod[p].pos \notin Complete
      BY <1>1, Zenon DEF Complete
    <2> QED
      BY <2>1, <2>2, <2>3, <2>4, Zenon
  <1>6. UNCHANGED <<Freed, IF drain = "free" THEN "taken" ELSE "looking">>
    BY <1>3, Zenon DEF Freed
  <1> QED
    BY <1>t, <1>2, <1>3, <1>5, <1>6 DEF Queue!Publish, Queue!Places

LEMMA QueueConsumer ==
    ASSUME TypeOK, Shape, Consumer
    PROVE  Queue!Take \/ Queue!GiveBack \/ UNCHANGED Queue!queueVars
  <1> USE DEF slotVars, consumerVars
  <1>1. UNCHANGED <<enqueue_pos, item, prod>>
    BY Zenon DEF Consumer, Drain, DrainLook, DrainReturn, CopyOut, FreeSlot, Advance
  <1>2. Complete' = Complete
    BY <1>1, Zenon DEF Complete, Writing
  <1>3. CASE CopyOut
    <2>t. dequeue_pos \in Nat /\ Freed = dequeue_pos /\ enqueue_pos \in Nat
      BY <1>3, Zenon DEF TypeOK, Later, CopyOut, Freed
    <2>1. dequeue_pos < enqueue_pos /\ Start <= dequeue_pos
      BY <1>3, Zenon DEF Shape, DrainKnown, Bounded, CopyOut
    <2>2. dequeue_pos \in Complete
      BY <1>3, <2>t, <2>1, DrainSlot, RingBoundsAssumption DEF CopyOut, Complete
    <2>3. output' = item[dequeue_pos]
      BY <1>1, <1>3, CopyOutStep, Zenon DEF Shape, DrainKnown, TakenInOrder, CopyOut
    <2>4. Freed' = Freed /\ drain = "copy" /\ drain' = "free"
      BY <1>3, <2>t, Zenon DEF CopyOut, Freed
    <2> QED
      BY <1>1, <1>2, <2>t, <2>2, <2>3, <2>4, Zenon DEF Queue!Take
  <1>4. CASE FreeSlot
    <2>1. Freed' = Freed + 1 /\ drain = "free" /\ drain' = "advance" /\ UNCHANGED output
      BY <1>4, Zenon DEF FreeSlot, Freed
    <2> QED
      BY <1>1, <1>2, <2>1, Zenon DEF Queue!GiveBack
  <1>5. CASE Drain \/ DrainLook \/ DrainReturn \/ Advance
    <2>1. Freed' = Freed /\ drain # "free" /\ drain' # "free" /\ UNCHANGED output
      BY <1>5, Zenon DEF Drain, DrainLook, DrainReturn, Advance, Freed
    <2> QED
      BY <1>1, <1>2, <2>1, Zenon DEF Queue!queueVars
  <1> QED
    BY <1>3, <1>4, <1>5, Zenon DEF Consumer

LEMMA QueueStep ==
    ASSUME TypeOK, Shape, [Next]_vars
    PROVE  [Queue!QueueNext]_(Queue!queueVars)
  <1> USE DEF slotVars, consumerVars
  <1>t. prod \in [Producers -> ProdStates]
    BY Zenon DEF TypeOK
  <1>1. ASSUME NEW p \in Producers, Producer(p)
        PROVE  [Queue!QueueNext]_(Queue!queueVars)
    <2>1. CASE Claim(p)
      BY <2>1, QueueClaim, Zenon DEF Queue!QueueNext
    <2>2. CASE PublishSlot(p)
      BY <2>2, QueuePublish, Zenon DEF Queue!QueueNext
    <2>3. CASE \/ \E e \in Events : Record(p, e)
               \/ Load(p) \/ LookFree(p) \/ LookFull(p) \/ LookAhead(p)
               \/ ClaimLost(p) \/ CopyIn(p) \/ Account(p)
      <3>1. UNCHANGED <<enqueue_pos, item, consumerVars>>
        BY <2>3, Zenon DEF Record, Load, LookFree, LookFull, LookAhead, ClaimLost, CopyIn, Account
      <3>2. ASSUME NEW q \in Producers, q # p
            PROVE  prod'[q] = prod[q]
        BY <1>t, <2>3, <3>2, Zenon
           DEF Record, Load, LookFree, LookFull, LookAhead, ClaimLost, CopyIn, Account
      <3>3. CASE CopyIn(p)
        <4>1. prod[p] \in [pc : {"look", "claim", "copy", "publish"}, ev : Events, pos : Later]
          BY <3>3, ProdFields, Zenon DEF CopyIn
        <4>2. prod'[p].pos = prod[p].pos /\ Writing(p)' /\ Writing(p)
          BY <1>t, <3>3, <4>1, Zenon DEF CopyIn, Writing
        <4> QED
          BY <3>1, <3>2, <4>2, QueueUnmoved, Zenon DEF Writing
      <3>4. CASE ~CopyIn(p)
        <4>1. ~Writing(p)
          BY <2>3, <3>4, Zenon DEF Record, Load, LookFree, LookFull, LookAhead, ClaimLost, Account, Writing
        <4>2. CASE LookFree(p)
          <5>1. prod[p] \in [pc : {"look", "claim", "copy", "publish"}, ev : Events, pos : Later]
            BY <4>2, ProdFields, Zenon DEF LookFree
          <5> QED
            <6>1. ~Writing(p)'
              BY <1>t, <4>2, <5>1, Zenon DEF LookFree, Writing
            <6> QED
              BY <3>1, <3>2, <4>1, <6>1, QueueUnmoved, Zenon DEF Writing
        <4>3. CASE ~LookFree(p)
          <5>1. ~Writing(p)'
            BY <1>t, <2>3, <3>4, <4>3 DEF Record, Load, LookFull, LookAhead, ClaimLost, Account,
               Writing, Idle
          <5> QED
            BY <3>1, <3>2, <4>1, <5>1, QueueUnmoved, Zenon DEF Writing
        <4> QED
          BY <4>2, <4>3, Zenon
      <3> QED
        BY <3>3, <3>4, Zenon
    <2> QED
      BY <1>1, <2>1, <2>2, <2>3, Zenon DEF Producer
  <1>2. CASE Consumer
    BY <1>2, QueueConsumer, Zenon DEF Queue!QueueNext
  <1>3. CASE UNCHANGED vars
    BY <1>3, QueueUnmoved, Zenon DEF vars, Writing
  <1> QED
    BY <1>1, <1>2, <1>3, Zenon DEF Next

(* The ring implements the bounded first-in first-out queue. *)
THEOREM RingImplementsQueue == Spec => ImplementsQueue
  BY TypeCorrect, ShapeHolds, QueueStart, QueueStep, PTL DEF Spec, ImplementsQueue, Queue!QueueSpec

=============================================================================
