------------------------ MODULE ThreadMutationProofs ------------------------
(***************************************************************************)
(* Writing the registers of a stopped thread, for any number of values,     *)
(* banks, stops, handles and faults: what a resumed target carries, which   *)
(* references are released, what an agreed unload means and which           *)
(* transaction a handle names.                                              *)
(***************************************************************************)
EXTENDS ThreadMutation, TLAPS

-----------------------------------------------------------------------------
(* The inductive invariant *)

Contents == Values \cup {Torn}
HandleRecords == [token : Nat, gen : Nat, stop : Nat, bank : Banks \cup {"none", "core"}]
Transactions == [state : {"EMPTY", "SNAPSHOTTED", "STAGED", "RESTORE_PENDING"},
                 h : HandleRecords, staged : BOOLEAN, orig : Contents, want : Contents]
Providers == [lease : BOOLEAN, proc : BOOLEAN, thr : BOOLEAN, pending : BOOLEAN,
              retry : BOOLEAN, unsure : BOOLEAN, acq : BOOLEAN, down : BOOLEAN,
              banks : BOOLEAN]
Releases == {"release", "relT", "relP"}
Begins == {"retainP", "retainT", "retained", "snapshot"}
Writes == {"write", "verify", "restore", "rwrite", "rverify"}
CallRecords == [pc : Releases \cup Begins \cup Writes \cup {"idle", "resume"},
                what : {"none", "begin", "stage", "commit", "restore", "end", "drain"},
                bank : Banks \cup {"none", "core"}, v : Contents, err : BOOLEAN]

Types ==
    /\ tx \in Transactions /\ next \in 1 .. MaxSequence + 1 /\ pv \in Providers
    /\ gate \in BOOLEAN /\ copy \in HandleRecords
    /\ known \in SUBSET [h : HandleRecords, serial : Nat]
    /\ stop \in [token : Nat, on : BOOLEAN, expired : BOOLEAN]
    /\ tgt \in [alive : BOOLEAN, susp : BOOLEAN, regs : Contents]
    /\ bind \in {"live", "gone"}
    /\ refs \in [proc : {"none", "held"}, thr : {"none", "held"}]
    /\ op \in CallRecords /\ faults \in 0 .. MaxFaults
    /\ ghost \in [allowed : Contents, double : BOOLEAN, unloaded : BOOLEAN, serial : Nat]
    /\ op.pc \in Begins => next < MaxSequence

(* What the provider holds and knows, by the stage of the call in progress. *)
NoneHeld == ~pv.proc /\ ~pv.thr /\ ~pv.acq /\ ~pv.unsure /\ ~pv.pending
BothHeld == pv.lease /\ pv.proc /\ pv.thr /\ ~pv.acq /\ ~pv.unsure /\ ~pv.pending

Provided ==
    /\ op.pc \in Releases \cup Begins \cup {"resume"} => tx.state = "EMPTY"
    /\ op.pc \in Writes => tx.state \in {"STAGED", "RESTORE_PENDING"}
    /\ tx.state # "EMPTY" => BothHeld
    /\ op.pc \in {"idle", "resume"} /\ tx.state = "EMPTY" => ~pv.lease /\ (NoneHeld \/ pv.pending)
    /\ op.pc = "retainP" => ~pv.lease /\ NoneHeld
    /\ op.pc = "retainT" =>
          ~pv.lease /\ pv.proc /\ ~pv.thr /\ ~pv.acq /\ ~pv.unsure /\ ~pv.pending
    /\ op.pc = "retained" =>
          ~pv.lease /\ pv.proc /\ pv.thr /\ ~pv.acq /\ ~pv.unsure /\ ~pv.pending
    /\ op.pc = "snapshot" => BothHeld
    /\ op.pc = "release" =>
          \/ pv.acq /\ pv.unsure /\ pv.pending
          \/ ~pv.acq /\ ~pv.unsure /\ ~pv.pending
    /\ op.pc \in {"relT", "relP"} => ~pv.lease /\ ~pv.acq /\ ~pv.unsure
    /\ op.pc = "relP" => ~pv.thr
    /\ pv.banks => ~pv.pending
    /\ pv.acq => pv.unsure

(* Unless an effect is unknown, what the provider records is what is held. *)
RefsKnown ==
    ~pv.unsure => (pv.proc <=> refs.proc = "held") /\ (pv.thr <=> refs.thr = "held")

Unloaded ==
    ghost.unloaded =>
        /\ pv.down /\ ~pv.lease /\ ~pv.banks /\ NoneHeld
        /\ tx.state = "EMPTY" /\ op.pc \in {"idle", "resume"}

(* The registers of a stopped target, and the values they may be left with. *)
TargetKnown ==
    /\ tgt.susp /\ tgt.alive /\ tx.state = "EMPTY" => tgt.regs = ghost.allowed
    /\ tx.state # "EMPTY" => tgt.susp /\ tx.orig = ghost.allowed
    /\ tx.state = "SNAPSHOTTED" => tgt.regs = tx.orig
    /\ op.pc \in Begins => tgt.susp
    /\ copy # NoHandle => tx.state \in {"EMPTY", "SNAPSHOTTED"} /\ op.pc \notin Begins

(* The handle of sequence number s, and who may still hold which. *)
Numbered(h, s) == h.token = s % Base /\ h.gen = s \div Base + 1

HandlesKnown ==
    /\ tx.state # "EMPTY" => Numbered(tx.h, next - 1)
    /\ copy # NoHandle => Numbered(copy, next - 1)
    /\ \A k \in known :
          /\ k.serial <= ghost.serial
          /\ k.serial = ghost.serial => Numbered(k.h, next - 1)
          /\ k.serial # ghost.serial => \E s \in Nat : s < next - 1 /\ Numbered(k.h, s)

Inv ==
    /\ Types
    /\ Provided
    /\ RefsKnown
    /\ ReleasedOnce
    /\ Unloaded
    /\ TargetKnown
    /\ HandlesKnown

-----------------------------------------------------------------------------
(* The records *)

(* A step that may only turn the advertised banks on or off. *)
SamePv ==
    /\ pv' \in Providers
    /\ pv'.lease = pv.lease /\ pv'.proc = pv.proc /\ pv'.thr = pv.thr
    /\ pv'.pending = pv.pending /\ pv'.unsure = pv.unsure /\ pv'.acq = pv.acq
    /\ pv'.down = pv.down
    /\ pv'.banks => ~pv.pending /\ (pv.banks \/ ~pv.down \/ pv.lease)

LEMMA EmptyIs ==
    ASSUME MutationConstants
    PROVE  /\ NoHandle \in HandleRecords
           /\ EmptyTx \in Transactions /\ EmptyTx.state = "EMPTY"
           /\ Idle \in CallRecords /\ Idle.pc = "idle" /\ Idle.what = "none"
  <1>1. NoHandle \in HandleRecords
    BY Zenon DEF NoHandle, HandleRecords
  <1>2. Torn \in Contents
    BY Zenon DEF Contents
  <1> QED
    BY <1>1, <1>2, Zenon DEF EmptyTx, Transactions, Idle, CallRecords, Releases, Begins, Writes

LEMMA DisabledSame ==
    ASSUME pv \in Providers, pv' = Disabled
    PROVE  SamePv /\ ~pv'.banks
  <1> DEFINE no == FALSE
  <1>1. no \in BOOLEAN /\ ~no
    BY Zenon
  <1>2. pv' = [pv EXCEPT !.banks = no]
    BY Zenon DEF Disabled
  <1> HIDE DEF no
  <1> QED
    BY <1>1, <1>2, Zenon DEF SamePv, Providers

LEMMA EnabledSame ==
    ASSUME pv \in Providers, pv' = Enabled
    PROVE  SamePv
  <1> DEFINE b == ~pv.pending /\ (~pv.down \/ pv.lease)
  <1>1. b \in BOOLEAN /\ (b => ~pv.pending /\ (~pv.down \/ pv.lease))
    BY Zenon
  <1>2. pv' = [pv EXCEPT !.banks = b]
    BY Zenon DEF Enabled
  <1> HIDE DEF b
  <1> QED
    BY <1>1, <1>2, Zenon DEF SamePv, Providers

LEMMA KeptSame ==
    ASSUME Types, Provided, UNCHANGED pv
    PROVE  SamePv
  BY Zenon DEF Types, Provided, SamePv

LEMMA GotoIs ==
    ASSUME op \in CallRecords,
           NEW pc \in Releases \cup Begins \cup Writes \cup {"idle", "resume"}, Goto(pc)
    PROVE  op' \in CallRecords /\ op'.pc = pc /\ op'.what = op.what
  BY Zenon DEF Goto, CallRecords

LEMMA FailsType ==
    ASSUME MutationConstants, faults \in 0 .. MaxFaults, Fails
    PROVE  faults' \in 0 .. MaxFaults
  BY DEF Fails, MutationConstants

(* Requests start with a fresh call record. *)
LEMMA StartIs ==
    ASSUME MutationConstants,
           NEW pc \in Releases \cup Begins \cup Writes \cup {"idle", "resume"},
           NEW what \in {"none", "begin", "stage", "commit", "restore", "end", "drain"}
    PROVE  /\ [Idle EXCEPT !.pc = pc] \in CallRecords /\ [Idle EXCEPT !.pc = pc].pc = pc
           /\ [Idle EXCEPT !.pc = pc, !.what = what] \in CallRecords
           /\ [Idle EXCEPT !.pc = pc, !.what = what].pc = pc
  <1>1. Idle \in CallRecords
    BY EmptyIs, Zenon
  <1>2. /\ [Idle EXCEPT !.pc = pc] \in CallRecords /\ [Idle EXCEPT !.pc = pc].pc = pc
    BY <1>1, Zenon DEF CallRecords
  <1>3. /\ [Idle EXCEPT !.pc = pc, !.what = what] \in CallRecords
        /\ [Idle EXCEPT !.pc = pc, !.what = what].pc = pc
    BY <1>1, Zenon DEF CallRecords
  <1> QED
    BY <1>2, <1>3, Zenon

StopRecords == [token : Nat, on : BOOLEAN, expired : BOOLEAN]

LEMMA FinishIs ==
    ASSUME MutationConstants, Types, NEW t \in Transactions, Finish(t)
    PROVE  /\ tx' = t /\ gate' \in BOOLEAN /\ op' \in CallRecords
           /\ op'.pc = "idle" \/ (op'.pc = "resume" /\ t.state = "EMPTY")
           /\ stop' \in StopRecords
  <1>0. gate \in BOOLEAN /\ stop \in StopRecords
    BY Zenon DEF Types, StopRecords
  <1>1. tx' = t /\ gate' \in BOOLEAN
    BY Zenon DEF Finish
  <1>2. CASE op.what = "end" /\ t.state = "EMPTY"
    <2>1. op' = [Idle EXCEPT !.pc = "resume"] /\ UNCHANGED stop
      BY <1>2, Zenon DEF Finish
    <2> QED
      BY <1>0, <1>1, <1>2, <2>1, StartIs, Zenon
  <1>3. CASE ~(op.what = "end" /\ t.state = "EMPTY")
    <2>1. op' = Idle /\ stop' = IF op.what = "end" THEN [stop EXCEPT !.expired = TRUE] ELSE stop
      BY <1>3, Zenon DEF Finish
    <2>2. [stop EXCEPT !.expired = TRUE] \in StopRecords
      BY <1>0, Zenon DEF StopRecords
    <2>3. stop' \in StopRecords
      BY <1>0, <2>1, <2>2, Zenon
    <2> QED
      BY <1>1, <2>1, <2>3, EmptyIs, Zenon
  <1> QED
    BY <1>2, <1>3, Zenon

-----------------------------------------------------------------------------
(* Frames: what a step may leave alone *)

TargetRecords == [alive : BOOLEAN, susp : BOOLEAN, regs : Contents]
Ghosts == [allowed : Contents, double : BOOLEAN, unloaded : BOOLEAN, serial : Nat]

(* A call in a transaction: it stays in it, the writes go on or wait, or    *)
(* the transaction ends with the target exited or its registers allowed.    *)
StaysIn ==
    /\ tx' \in Transactions /\ tx'.state \in {"STAGED", "RESTORE_PENDING"}
    /\ tx'.h = tx.h /\ tx'.orig = tx.orig /\ copy = NoHandle
    /\ op'.pc \in Writes \cup {"idle"} /\ ghost'.allowed = ghost.allowed
StaysAs ==
    /\ tx' = tx /\ op'.pc = "idle" /\ tgt'.regs = tgt.regs /\ ghost'.allowed = ghost.allowed
Leaves ==
    /\ tx' = EmptyTx /\ op'.pc = "release"
    /\ ~tgt'.alive \/ tgt'.regs = ghost'.allowed

LEMMA TransactionStep ==
    ASSUME MutationConstants, Inv, tx.state # "EMPTY", SamePv, UNCHANGED <<Rest, bind, refs>>,
           op' \in CallRecords, gate' \in BOOLEAN, stop' \in StopRecords,
           tgt' \in TargetRecords, tgt'.susp = tgt.susp,
           ghost' \in Ghosts, ghost'.double = ghost.double, ghost'.unloaded = ghost.unloaded,
           ghost'.serial = ghost.serial, faults' \in 0 .. MaxFaults,
           StaysIn \/ StaysAs \/ Leaves
    PROVE  Inv'
  <1>e. EmptyTx \in Transactions /\ EmptyTx.state = "EMPTY"
    BY EmptyIs, Zenon
  <1>0. op'.pc \notin Begins
    BY Zenon DEF StaysIn, StaysAs, Leaves, Begins, Writes
  <1>h. BothHeld /\ tgt.susp /\ tx.orig = ghost.allowed /\ ~ghost.unloaded
    BY Zenon DEF Inv, Provided, TargetKnown, Unloaded
  <1>1. Types'
    <2>1. tx' \in Transactions
      BY <1>e, Zenon DEF StaysIn, StaysAs, Leaves, Inv, Types
    <2> QED
      BY <1>0, <2>1, Zenon DEF Inv, Types, Rest, SamePv, StopRecords, TargetRecords, Ghosts
  <1>2. Provided'
    <2>1. BothHeld'
      BY <1>h, Zenon DEF BothHeld, SamePv
    <2>2. CASE StaysIn
      BY <2>1, <2>2, <1>h, Zenon DEF StaysIn, Provided, SamePv, BothHeld, Releases, Begins, Writes
    <2>3. CASE StaysAs
      BY <2>1, <2>3, <1>h, Zenon DEF StaysAs, Provided, SamePv, BothHeld, Releases, Begins, Writes
    <2>4. CASE Leaves
      BY <2>1, <2>4, <1>h, <1>e, Zenon DEF Leaves, Provided, SamePv, BothHeld, Releases, Begins, Writes
    <2> QED
      BY <2>2, <2>3, <2>4, Zenon
  <1>3. RefsKnown'
    BY Zenon DEF Inv, RefsKnown, SamePv
  <1>4. ReleasedOnce' /\ Unloaded'
    BY <1>h, Zenon DEF Inv, ReleasedOnce, Unloaded
  <1>5. TargetKnown'
    <2>2. CASE StaysIn
      BY <2>2, <1>h, <1>0, Zenon DEF StaysIn, TargetKnown, Rest
    <2>3. CASE StaysAs
      BY <2>3, <1>h, <1>0, Zenon DEF StaysAs, Inv, TargetKnown, Rest
    <2>4. CASE Leaves
      BY <2>4, <1>h, <1>0, <1>e, Zenon DEF Leaves, TargetKnown
    <2> QED
      BY <2>2, <2>3, <2>4, Zenon
  <1>6. HandlesKnown'
    <2>1. tx'.state # "EMPTY" => tx'.h = tx.h
      BY <1>e, Zenon DEF StaysIn, StaysAs, Leaves
    <2> QED
      BY <2>1, Zenon DEF Inv, HandlesKnown, Rest, Numbered
  <1> QED
    BY <1>1, <1>2, <1>3, <1>4, <1>5, <1>6, Zenon DEF Inv

(* A call outside of a transaction that leaves the target, the handles and  *)
(* the verdict on the target as they are; what becomes of the provider and  *)
(* its references is for the caller of this lemma to say.                   *)
LEMMA OutsideStep ==
    ASSUME MutationConstants, Inv, tx.state = "EMPTY", tx' = EmptyTx \/ tx' = tx,
           pv' \in Providers,
           UNCHANGED <<Rest, tgt>>, bind' \in {"live", "gone"},
           refs' \in [proc : {"none", "held"}, thr : {"none", "held"}],
           op' \in CallRecords, gate' \in BOOLEAN, stop' \in StopRecords,
           ghost' \in Ghosts, ghost'.allowed = ghost.allowed, ghost'.serial = ghost.serial,
           faults' \in 0 .. MaxFaults,
           op'.pc \in Begins =>
               op.pc \in Begins \/ (next < MaxSequence /\ tgt.susp /\ copy = NoHandle),
           Provided', RefsKnown', ReleasedOnce', Unloaded'
    PROVE  Inv'
  <1>e. EmptyTx \in Transactions /\ EmptyTx.state = "EMPTY"
    BY EmptyIs, Zenon
  <1>0. tx'.state = "EMPTY" /\ tx' \in Transactions
    BY <1>e, Zenon DEF Inv, Types
  <1>1. Types'
    BY <1>0, Zenon DEF Inv, Types, Rest, StopRecords, Ghosts
  <1>2. TargetKnown'
    BY <1>0, Zenon DEF Inv, TargetKnown, Rest
  <1>3. HandlesKnown'
    BY <1>0, Zenon DEF Inv, HandlesKnown, Rest, Numbered
  <1> QED
    BY <1>1, <1>2, <1>3, Zenon DEF Inv

-----------------------------------------------------------------------------
(* The steps of a transaction *)

LEMMA StatusSame ==
    ASSUME Types, pv' = Enabled \/ pv' = Disabled
    PROVE  SamePv
  <1>1. pv \in Providers
    BY Zenon DEF Types
  <1> QED
    BY <1>1, DisabledSame, EnabledSame, Zenon

LEMMA FaultsKept ==
    ASSUME MutationConstants, Types, Fails \/ UNCHANGED faults
    PROVE  faults' \in 0 .. MaxFaults
  <1>1. faults \in 0 .. MaxFaults
    BY Zenon DEF Types
  <1> QED
    BY <1>1, FailsType, Zenon

(* A bank the target was given, whole or torn. *)
LEMMA RegsIs ==
    ASSUME Types, NEW r \in Contents, tgt' = [tgt EXCEPT !.regs = r]
    PROVE  tgt' \in TargetRecords /\ tgt'.susp = tgt.susp /\ tgt'.regs = r
  <1>1. tgt \in TargetRecords
    BY Zenon DEF Types, TargetRecords
  <1> QED
    BY <1>1, Zenon DEF TargetRecords

(* The transaction is marked, and keeps its handle and its snapshot. *)
LEMMA MarkedIs ==
    ASSUME Types, NEW s \in {"STAGED", "RESTORE_PENDING"}
    PROVE  /\ [tx EXCEPT !.state = s] \in Transactions /\ [tx EXCEPT !.state = s].state = s
           /\ [tx EXCEPT !.state = s].h = tx.h /\ [tx EXCEPT !.state = s].orig = tx.orig
  <1>1. tx \in Transactions
    BY Zenon DEF Types
  <1> QED
    BY <1>1, Zenon DEF Transactions

(* What a step of a write finds. *)
LEMMA WritesFind ==
    ASSUME Inv, op.pc \in Writes
    PROVE  /\ tx.state \in {"STAGED", "RESTORE_PENDING"} /\ copy = NoHandle
           /\ tx \in Transactions /\ op \in CallRecords /\ tgt \in TargetRecords
           /\ gate \in BOOLEAN /\ stop \in StopRecords /\ ghost \in Ghosts
           /\ tx.orig = ghost.allowed /\ tx.orig \in Contents /\ tx.want \in Contents
           /\ tgt.regs \in Contents
  <1>1. tx \in Transactions /\ op \in CallRecords /\ tgt \in TargetRecords
        /\ gate \in BOOLEAN /\ stop \in StopRecords /\ ghost \in Ghosts
    BY Zenon DEF Inv, Types, TargetRecords, StopRecords, Ghosts
  <1>2. tx.state \in {"STAGED", "RESTORE_PENDING"}
    BY Zenon DEF Inv, Provided
  <1>3. copy = NoHandle /\ tx.orig = ghost.allowed
    BY <1>2, Zenon DEF Inv, TargetKnown
  <1>4. tx.orig \in Contents /\ tx.want \in Contents /\ tgt.regs \in Contents
    BY <1>1, Zenon DEF Transactions, TargetRecords
  <1> QED
    BY <1>1, <1>2, <1>3, <1>4, Zenon

LEMMA WriteInv ==
    ASSUME MutationConstants, Inv, Write
    PROVE  Inv'
  <1>0. op.pc \in Writes
    BY Zenon DEF Write, At, Writes
  <1>1. tx.state \in {"STAGED", "RESTORE_PENDING"}
    BY <1>0, WritesFind, Zenon
  <1>2. SamePv
    BY StatusSame, Zenon DEF Write, Status, Inv
  <1>3. faults' \in 0 .. MaxFaults
    BY FaultsKept, Zenon DEF Write, Status, Inv
  <1>4. /\ UNCHANGED <<Rest, bind, refs, tx, gate, stop, ghost>>
    BY Zenon DEF Write, Leave
  <1>5. Goto("verify") \/ Goto("restore")
    BY Zenon DEF Write, Status
  <1>6. op' \in CallRecords /\ op'.pc \in Writes
    BY <1>0, <1>5, GotoIs, WritesFind, Zenon DEF Writes
  <1>7. UNCHANGED tgt \/ \E r \in Contents : tgt' = [tgt EXCEPT !.regs = r]
    <2>1. Torn \in Contents /\ Written(tx.want) \subseteq Contents /\ tx.want \in Contents
      BY <1>0, WritesFind, Zenon DEF Written, Contents
    <2> QED
      BY <2>1, Zenon DEF Write, Status
  <1>8. tgt' \in TargetRecords /\ tgt'.susp = tgt.susp
    BY <1>0, <1>7, RegsIs, WritesFind, Zenon DEF Inv
  <1>9. StaysIn
    BY <1>0, <1>4, <1>6, WritesFind, Zenon DEF StaysIn
  <1> QED
    BY <1>0, <1>1, <1>2, <1>3, <1>4, <1>6, <1>8, <1>9, WritesFind, TransactionStep, Zenon

LEMMA VerifyInv ==
    ASSUME MutationConstants, Inv, Verify
    PROVE  Inv'
  <1>0. op.pc \in Writes
    BY Zenon DEF Verify, At, Writes
  <1>1. tx.state \in {"STAGED", "RESTORE_PENDING"}
    BY <1>0, WritesFind, Zenon
  <1>2. SamePv
    BY StatusSame, Zenon DEF Verify, Status, Inv
  <1>3. faults' \in 0 .. MaxFaults
    BY FaultsKept, Zenon DEF Verify, Status, Inv
  <1>4. UNCHANGED <<Rest, bind, refs, tgt, ghost>>
    BY Zenon DEF Verify, World
  <1>5. \/ Goto("restore") /\ Leave
        \/ Finish([tx EXCEPT !.state = "STAGED"])
    BY Zenon DEF Verify, Status
  <1>6. CASE Goto("restore") /\ Leave
    <2>1. op' \in CallRecords /\ op'.pc \in Writes
      BY <1>0, <1>6, GotoIs, WritesFind, Zenon DEF Writes
    <2>2. StaysIn
      BY <1>0, <1>4, <1>6, <2>1, WritesFind, Zenon DEF StaysIn, Leave
    <2> QED
      BY <1>0, <1>1, <1>2, <1>3, <1>4, <1>6, <2>1, <2>2, WritesFind, TransactionStep, Zenon DEF Leave
  <1>7. CASE Finish([tx EXCEPT !.state = "STAGED"])
    <2> DEFINE t == [tx EXCEPT !.state = "STAGED"]
    <2>1. t \in Transactions /\ t.state = "STAGED" /\ t.h = tx.h /\ t.orig = tx.orig
      BY MarkedIs, Zenon DEF Inv
    <2>2. Finish(t)
      BY <1>7, Zenon
    <2> HIDE DEF t
    <2>3. /\ tx' = t /\ gate' \in BOOLEAN /\ op' \in CallRecords /\ op'.pc = "idle"
          /\ stop' \in StopRecords
      BY <2>1, <2>2, FinishIs, Zenon DEF Inv
    <2>4. StaysIn
      BY <1>0, <1>4, <2>1, <2>3, WritesFind, Zenon DEF StaysIn
    <2> QED
      BY <1>0, <1>1, <1>2, <1>3, <1>4, <2>3, <2>4, WritesFind, TransactionStep, Zenon
  <1> QED
    BY <1>5, <1>6, <1>7, Zenon

LEMMA RestoreInv ==
    ASSUME MutationConstants, Inv, Restore
    PROVE  Inv'
  <1>0. op.pc \in Writes
    BY Zenon DEF Restore, At, Writes
  <1>1. tx.state \in {"STAGED", "RESTORE_PENDING"}
    BY <1>0, WritesFind, Zenon
  <1>2. SamePv
    BY StatusSame, Zenon DEF Restore, Status, Inv
  <1>3. faults' \in 0 .. MaxFaults
    BY FaultsKept, Zenon DEF Restore, Status, Inv
  <1>4. UNCHANGED <<Rest, bind, refs, tgt, ghost>>
    BY Zenon DEF Restore, World
  <1> DEFINE t == [tx EXCEPT !.state = "RESTORE_PENDING"]
             no == FALSE
  <1>5. t \in Transactions /\ t.state = "RESTORE_PENDING" /\ t.h = tx.h /\ t.orig = tx.orig
    BY MarkedIs, Zenon DEF Inv
  <1>6. \/ op' = [op EXCEPT !.pc = "rwrite", !.err = no] /\ tx' = t /\ UNCHANGED <<gate, stop>>
        \/ Finish(t)
    BY Zenon DEF Restore, Status
  <1>n. no \in BOOLEAN
    BY Zenon
  <1> HIDE DEF t, no
  <1>7. CASE op' = [op EXCEPT !.pc = "rwrite", !.err = no] /\ tx' = t /\ UNCHANGED <<gate, stop>>
    <2>1. op' \in CallRecords /\ op'.pc = "rwrite"
      BY <1>0, <1>7, <1>n, WritesFind, Zenon DEF CallRecords, Writes
    <2>2. StaysIn
      BY <1>0, <1>4, <1>5, <1>7, <2>1, WritesFind, Zenon DEF StaysIn, Writes
    <2> QED
      BY <1>0, <1>1, <1>2, <1>3, <1>4, <1>7, <2>1, <2>2, WritesFind, TransactionStep, Zenon
  <1>8. CASE Finish(t)
    <2>3. /\ tx' = t /\ gate' \in BOOLEAN /\ op' \in CallRecords /\ op'.pc = "idle"
          /\ stop' \in StopRecords
      BY <1>5, <1>8, FinishIs, Zenon DEF Inv
    <2>4. StaysIn
      BY <1>0, <1>4, <1>5, <2>3, WritesFind, Zenon DEF StaysIn
    <2> QED
      BY <1>0, <1>1, <1>2, <1>3, <1>4, <2>3, <2>4, WritesFind, TransactionStep, Zenon
  <1> QED
    BY <1>6, <1>7, <1>8, Zenon

LEMMA RestoreWriteInv ==
    ASSUME MutationConstants, Inv, RestoreWrite
    PROVE  Inv'
  <1>0. op.pc \in Writes
    BY Zenon DEF RestoreWrite, At, Writes
  <1>1. tx.state \in {"STAGED", "RESTORE_PENDING"}
    BY <1>0, WritesFind, Zenon
  <1>2. SamePv
    BY StatusSame, Zenon DEF RestoreWrite, Status, Inv
  <1>3. faults' \in 0 .. MaxFaults
    BY FaultsKept, Zenon DEF RestoreWrite, Status, Inv
  <1>4. UNCHANGED <<Rest, bind, refs, tx, gate, stop, ghost>>
    BY Zenon DEF RestoreWrite, Leave
  <1>5. \E e \in BOOLEAN : op' = [op EXCEPT !.pc = "rverify", !.err = e]
    BY Zenon DEF RestoreWrite, Status
  <1>6. op' \in CallRecords /\ op'.pc = "rverify"
    <2>1. PICK e \in BOOLEAN : op' = [op EXCEPT !.pc = "rverify", !.err = e]
      BY <1>5, Zenon
    <2> QED
      BY <1>0, <2>1, WritesFind, Zenon DEF CallRecords, Writes
  <1>7. UNCHANGED tgt \/ \E r \in Contents : tgt' = [tgt EXCEPT !.regs = r]
    <2>1. Torn \in Contents /\ Written(tx.orig) \subseteq Contents /\ tx.orig \in Contents
      BY <1>0, WritesFind, Zenon DEF Written, Contents
    <2> QED
      BY <2>1, Zenon DEF RestoreWrite, Status
  <1>8. tgt' \in TargetRecords /\ tgt'.susp = tgt.susp
    BY <1>0, <1>7, RegsIs, WritesFind, Zenon DEF Inv
  <1>9. StaysIn
    BY <1>0, <1>4, <1>6, WritesFind, Zenon DEF StaysIn, Writes
  <1> QED
    BY <1>0, <1>1, <1>2, <1>3, <1>4, <1>6, <1>8, <1>9, WritesFind, TransactionStep, Zenon

LEMMA RestoreVerifyInv ==
    ASSUME MutationConstants, Inv, RestoreVerify
    PROVE  Inv'
  <1>0. op.pc \in Writes
    BY Zenon DEF RestoreVerify, RestoreVerifyIf, At, Writes
  <1>1. tx.state \in {"STAGED", "RESTORE_PENDING"}
    BY <1>0, WritesFind, Zenon
  <1>2. SamePv
    BY StatusSame, Zenon DEF RestoreVerify, RestoreVerifyIf, Status, Inv
  <1>3. faults' \in 0 .. MaxFaults
    BY FaultsKept, Zenon DEF RestoreVerify, RestoreVerifyIf, Status, Inv
  <1>4. UNCHANGED <<Rest, bind, refs, tgt, ghost>>
    BY Zenon DEF RestoreVerify, RestoreVerifyIf, World
  <1>5. (tgt.regs = tx.orig /\ Clear) \/ Finish(tx)
    BY Zenon DEF RestoreVerify, RestoreVerifyIf, Status
  <1>6. CASE tgt.regs = tx.orig /\ Clear
    <2>1. op' \in CallRecords /\ op'.pc = "release"
      BY <1>0, <1>6, GotoIs, WritesFind, Zenon DEF Clear, Releases
    <2>2. Leaves
      BY <1>0, <1>4, <1>6, <2>1, WritesFind, Zenon DEF Leaves, Clear
    <2> QED
      BY <1>0, <1>1, <1>2, <1>3, <1>4, <1>6, <2>1, <2>2, WritesFind, TransactionStep, Zenon DEF Clear
  <1>7. CASE Finish(tx)
    <2>3. /\ tx' = tx /\ gate' \in BOOLEAN /\ op' \in CallRecords /\ op'.pc = "idle"
          /\ stop' \in StopRecords
      BY <1>0, <1>1, <1>7, WritesFind, FinishIs, Zenon DEF Inv
    <2>4. StaysIn
      BY <1>0, <1>4, <2>3, WritesFind, Zenon DEF StaysIn
    <2> QED
      BY <1>0, <1>1, <1>2, <1>3, <1>4, <2>3, <2>4, WritesFind, TransactionStep, Zenon
  <1> QED
    BY <1>5, <1>6, <1>7, Zenon

(* The call records the requests on a transaction start with. *)
LEMMA RequestIs ==
    ASSUME MutationConstants,
           NEW what \in {"none", "begin", "stage", "commit", "restore", "end", "drain"}
    PROVE  /\ [Idle EXCEPT !.pc = "write", !.what = what] \in CallRecords
           /\ [Idle EXCEPT !.pc = "write", !.what = what].pc \in Writes
           /\ [Idle EXCEPT !.pc = "restore", !.what = what] \in CallRecords
           /\ [Idle EXCEPT !.pc = "restore", !.what = what].pc \in Writes
           /\ [Idle EXCEPT !.pc = "release", !.what = what] \in CallRecords
           /\ [Idle EXCEPT !.pc = "release", !.what = what].pc = "release"
  <1>1. Idle \in CallRecords
    BY EmptyIs, Zenon
  <1>0. /\ [Idle EXCEPT !.pc = "write", !.what = what] \in CallRecords
        /\ [Idle EXCEPT !.pc = "write", !.what = what].pc \in Writes
    BY <1>1, Zenon DEF CallRecords, Writes
  <1>2. /\ [Idle EXCEPT !.pc = "restore", !.what = what] \in CallRecords
        /\ [Idle EXCEPT !.pc = "restore", !.what = what].pc \in Writes
    BY <1>1, Zenon DEF CallRecords, Writes
  <1>3. /\ [Idle EXCEPT !.pc = "release", !.what = what] \in CallRecords
        /\ [Idle EXCEPT !.pc = "release", !.what = what].pc = "release"
    BY <1>1, Zenon DEF CallRecords, Releases
  <1> QED
    BY <1>0, <1>2, <1>3, Zenon

(* What a request on a transaction finds. *)
LEMMA IdleFinds ==
    ASSUME Inv, op.pc = "idle", tx.state # "EMPTY"
    PROVE  /\ tx \in Transactions /\ op \in CallRecords /\ tgt \in TargetRecords
           /\ gate \in BOOLEAN /\ stop \in StopRecords /\ ghost \in Ghosts
           /\ tx.orig = ghost.allowed /\ tx.orig \in Contents /\ tx.want \in Contents
           /\ tx.state = "SNAPSHOTTED" => tgt.regs = ghost.allowed
           /\ tx.state # "SNAPSHOTTED" => copy = NoHandle
  <1>1. tx \in Transactions /\ op \in CallRecords /\ tgt \in TargetRecords
        /\ gate \in BOOLEAN /\ stop \in StopRecords /\ ghost \in Ghosts
    BY Zenon DEF Inv, Types, TargetRecords, StopRecords, Ghosts
  <1>3. /\ tx.orig = ghost.allowed
        /\ tx.state = "SNAPSHOTTED" => tgt.regs = ghost.allowed
        /\ tx.state # "SNAPSHOTTED" => copy = NoHandle
    BY Zenon DEF Inv, TargetKnown
  <1>4. tx.orig \in Contents /\ tx.want \in Contents
    BY <1>1, Zenon DEF Transactions
  <1> QED
    BY <1>1, <1>3, <1>4, Zenon

LEMMA StageInv ==
    ASSUME MutationConstants, Inv, NEW h, NEW v \in Values, Stage(h, v)
    PROVE  Inv'
  <1>0. op.pc = "idle" /\ tx.state # "EMPTY" /\ copy = NoHandle
    BY Zenon DEF Stage, Calls, Free, HandleValid
  <1>2. SamePv
    BY StatusSame, Zenon DEF Stage, Status, Inv
  <1>3. faults' \in 0 .. MaxFaults
    BY FaultsKept, Zenon DEF Stage, Status, Inv
  <1>4. UNCHANGED <<Rest, bind, refs, tgt, gate, stop, ghost>>
    BY Zenon DEF Stage, World
  <1> DEFINE yes == TRUE
             t == [tx EXCEPT !.state = "RESTORE_PENDING", !.staged = yes, !.want = v]
             o == [Idle EXCEPT !.pc = "write", !.what = "stage"]
  <1>5. UNCHANGED <<tx, op>> \/ (tx' = t /\ op' = o)
    BY Zenon DEF Stage, Status
  <1>6. o \in CallRecords /\ o.pc \in Writes
    BY RequestIs, Zenon
  <1>7. t \in Transactions /\ t.state = "RESTORE_PENDING" /\ t.h = tx.h /\ t.orig = tx.orig
    <2>1. yes \in BOOLEAN /\ v \in Contents /\ tx \in Transactions
      BY <1>0, IdleFinds, Zenon DEF Contents
    <2> HIDE DEF yes
    <2> QED
      BY <2>1, Zenon DEF Transactions
  <1> HIDE DEF t, o
  <1>8. StaysIn \/ StaysAs
    BY <1>0, <1>4, <1>5, <1>6, <1>7, Zenon DEF StaysIn, StaysAs
  <1>9. op' \in CallRecords
    BY <1>0, <1>5, <1>6, IdleFinds, Zenon
  <1> QED
    BY <1>0, <1>2, <1>3, <1>4, <1>8, <1>9, IdleFinds, TransactionStep, Zenon

LEMMA CommitInv ==
    ASSUME MutationConstants, Inv, NEW h, Commit(h)
    PROVE  Inv'
  <1>0. op.pc = "idle" /\ tx.state = "STAGED" /\ copy = NoHandle
    BY Zenon DEF Commit, Calls, Free
  <1>1. tx.state # "EMPTY"
    BY <1>0, Zenon
  <1>2. SamePv
    BY StatusSame, Zenon DEF Commit, Status, Inv
  <1>3. faults' \in 0 .. MaxFaults
    BY FaultsKept, Zenon DEF Commit, Status, Inv
  <1>4. UNCHANGED <<Rest, bind, refs, tgt, gate, stop>>
    BY Zenon DEF Commit, World
  <1> DEFINE back == [Idle EXCEPT !.pc = "restore", !.what = "commit"]
             done == [Idle EXCEPT !.pc = "release", !.what = "commit"]
  <1>5. \/ UNCHANGED <<tx, op, ghost>>
        \/ op' = back /\ UNCHANGED <<tx, ghost>>
        \/ /\ op' = done /\ tx' = EmptyTx /\ tgt.regs = tx.want
           /\ ghost' = [ghost EXCEPT !.allowed = tx.want]
    BY Zenon DEF Commit, Status
  <1>6. /\ back \in CallRecords /\ back.pc \in Writes
        /\ done \in CallRecords /\ done.pc = "release"
    BY RequestIs, Zenon
  <1> HIDE DEF back, done
  <1>7. op' \in CallRecords
    BY <1>0, <1>1, <1>5, <1>6, IdleFinds, Zenon
  <1>9. StaysIn \/ StaysAs \/ Leaves
    <2>1. CASE UNCHANGED <<tx, op, ghost>>
      BY <1>0, <1>4, <2>1, Zenon DEF StaysAs
    <2>2. CASE op' = back /\ UNCHANGED <<tx, ghost>>
      BY <1>0, <1>1, <1>6, <2>2, IdleFinds, Zenon DEF StaysIn
    <2>3. CASE /\ op' = done /\ tx' = EmptyTx /\ tgt.regs = tx.want
               /\ ghost' = [ghost EXCEPT !.allowed = tx.want]
      <3>1. ghost'.allowed = tx.want
        BY <1>0, <1>1, <2>3, IdleFinds, Zenon DEF Ghosts
      <3> QED
        BY <1>4, <1>6, <2>3, <3>1, Zenon DEF Leaves
    <2> QED
      BY <1>5, <2>1, <2>2, <2>3, Zenon
  <1>8. ghost' \in Ghosts /\ ghost'.double = ghost.double /\ ghost'.unloaded = ghost.unloaded
         /\ ghost'.serial = ghost.serial
    BY <1>0, <1>1, <1>5, IdleFinds, Zenon DEF Ghosts
  <1> QED
    BY <1>0, <1>1, <1>2, <1>3, <1>4, <1>7, <1>8, <1>9, IdleFinds, TransactionStep, Zenon

LEMMA RestoreCallInv ==
    ASSUME MutationConstants, Inv, NEW h, RestoreCall(h)
    PROVE  Inv'
  <1>0. op.pc = "idle" /\ tx.state # "EMPTY" /\ copy = NoHandle
    BY Zenon DEF RestoreCall, Calls, Free, HandleValid
  <1>2. SamePv
    BY KeptSame, Zenon DEF RestoreCall, Inv
  <1>3. faults' \in 0 .. MaxFaults
    BY FaultsKept, Zenon DEF RestoreCall, Inv
  <1>4. UNCHANGED <<Rest, bind, refs, tgt, gate, stop, ghost>>
    BY Zenon DEF RestoreCall, World
  <1>5. CASE tx.state = "SNAPSHOTTED"
    <2>1. op' = [Idle EXCEPT !.pc = "release", !.what = "restore"] /\ tx' = EmptyTx
      BY <1>5, Zenon DEF RestoreCall
    <2>2. op' \in CallRecords /\ op'.pc = "release"
      BY <2>1, StartIs, Zenon DEF Releases
    <2>3. Leaves
      BY <1>0, <1>4, <1>5, <2>1, <2>2, IdleFinds, Zenon DEF Leaves
    <2> QED
      BY <1>0, <1>2, <1>3, <1>4, <2>2, <2>3, IdleFinds, TransactionStep, Zenon
  <1>6. CASE tx.state # "SNAPSHOTTED"
    <2>1. op' = [Idle EXCEPT !.pc = "restore", !.what = "restore"] /\ tx' = tx
      BY <1>6, Zenon DEF RestoreCall
    <2>2. op' \in CallRecords /\ op'.pc \in Writes
      BY <2>1, RequestIs, Zenon
    <2>3. StaysIn
      BY <1>0, <1>4, <1>6, <2>1, <2>2, IdleFinds, Zenon DEF StaysIn, Transactions
    <2> QED
      BY <1>0, <1>2, <1>3, <1>4, <2>2, <2>3, IdleFinds, TransactionStep, Zenon
  <1> QED
    BY <1>5, <1>6, Zenon

LEMMA EndStopInv ==
    ASSUME MutationConstants, Inv, EndStop
    PROVE  Inv'
  <1>0. op.pc = "idle"
    BY Zenon DEF EndStop, Free
  <1>1. UNCHANGED <<Rest, bind, refs, tgt, ghost>>
    BY Zenon DEF EndStop, World
  <1>2. CASE tx.state = "EMPTY"
    <2>1. /\ op' = [Idle EXCEPT !.pc = "resume", !.what = "end"]
          /\ UNCHANGED <<tx, gate, stop, pv, faults>>
      BY <1>2, Zenon DEF EndStop, Leave
    <2>2. op' \in CallRecords /\ op'.pc = "resume"
      BY <2>1, StartIs, Zenon
    <2>3. Provided'
      BY <1>0, <1>2, <2>1, <2>2, Zenon
      DEF Inv, Provided, NoneHeld, BothHeld, Releases, Begins, Writes
    <2>4. RefsKnown' /\ ReleasedOnce' /\ Unloaded'
      BY <1>1, <1>2, <2>1, <2>2, Zenon DEF Inv, RefsKnown, ReleasedOnce, Unloaded, NoneHeld
    <2>5. /\ pv' \in Providers /\ gate' \in BOOLEAN /\ stop' \in StopRecords /\ ghost' \in Ghosts
          /\ bind' \in {"live", "gone"} /\ faults' \in 0 .. MaxFaults
          /\ refs' \in [proc : {"none", "held"}, thr : {"none", "held"}]
      BY <1>1, <2>1, Zenon DEF Inv, Types, StopRecords, Ghosts
    <2>6. op'.pc \notin Begins
      BY <2>2, Zenon DEF Begins
    <2> QED
      BY <1>1, <1>2, <2>1, <2>2, <2>3, <2>4, <2>5, <2>6, OutsideStep, Zenon
  <1>3. CASE tx.state # "EMPTY"
    <2>1. SamePv
      BY <1>3, KeptSame, StatusSame, Zenon DEF EndStop, Status, Inv
    <2>2. faults' \in 0 .. MaxFaults
      BY <1>3, FaultsKept, Zenon DEF EndStop, Status, Inv
    <2> DEFINE back == [Idle EXCEPT !.pc = "restore", !.what = "end"]
               done == [Idle EXCEPT !.pc = "release", !.what = "end"]
    <2>3. /\ back \in CallRecords /\ back.pc \in Writes
          /\ done \in CallRecords /\ done.pc = "release"
      BY RequestIs, Zenon
    <2>4. \/ /\ op' = done /\ tx' = EmptyTx /\ UNCHANGED <<gate, stop>>
             /\ tx.state = "SNAPSHOTTED" \/ ~tgt.alive
          \/ op' = back /\ UNCHANGED <<tx, gate, stop>> /\ Obliged
          \/ op' = Idle /\ stop' = [stop EXCEPT !.expired = TRUE] /\ UNCHANGED <<tx, gate>>
      <3>1. Obliged \/ tx.state = "SNAPSHOTTED"
        BY <1>3, Zenon DEF Inv, Types, Transactions, Obliged
      <3> QED
        BY <1>3, <3>1, Zenon DEF EndStop, Status, Leave
    <2> HIDE DEF back, done
    <2>5. CASE /\ op' = done /\ tx' = EmptyTx /\ UNCHANGED <<gate, stop>>
               /\ tx.state = "SNAPSHOTTED" \/ ~tgt.alive
      <3>1. Leaves
        BY <1>0, <1>1, <1>3, <2>3, <2>5, IdleFinds, Zenon DEF Leaves
      <3> QED
        BY <1>0, <1>1, <1>3, <2>1, <2>2, <2>3, <2>5, <3>1, IdleFinds, TransactionStep, Zenon
    <2>6. CASE op' = back /\ UNCHANGED <<tx, gate, stop>> /\ Obliged
      <3>1. StaysIn
        BY <1>0, <1>1, <1>3, <2>3, <2>6, IdleFinds, Zenon DEF StaysIn, Obliged
      <3> QED
        BY <1>0, <1>1, <1>3, <2>1, <2>2, <2>3, <2>6, <3>1, IdleFinds, TransactionStep, Zenon
    <2>7. CASE op' = Idle /\ stop' = [stop EXCEPT !.expired = TRUE] /\ UNCHANGED <<tx, gate>>
      <3>1. op' \in CallRecords /\ op'.pc = "idle"
        BY <2>7, EmptyIs, Zenon
      <3>2. stop' \in StopRecords
        BY <1>0, <1>3, <2>7, IdleFinds, Zenon DEF StopRecords
      <3>3. StaysAs
        BY <1>1, <2>7, <3>1, Zenon DEF StaysAs
      <3> QED
        BY <1>0, <1>1, <1>3, <2>1, <2>2, <2>7, <3>1, <3>2, <3>3, IdleFinds, TransactionStep, Zenon
    <2> QED
      BY <2>4, <2>5, <2>6, <2>7, Zenon
  <1> QED
    BY <1>2, <1>3, Zenon

-----------------------------------------------------------------------------
(* Steps that leave the provider and the transaction alone *)

(* The invariant speaks of the stop session and of the binding only in its  *)
(* types, and of the target only while it is suspended and alive.           *)
LEMMA WorldStep ==
    ASSUME Inv, UNCHANGED <<tx, next, pv, gate, copy, known, refs, op, faults, ghost>>,
           stop' \in StopRecords, bind' \in {"live", "gone"}, tgt' \in TargetRecords,
           tgt'.regs = tgt.regs, tgt'.susp = tgt.susp, tgt'.alive => tgt.alive
    PROVE  Inv'
  <1>1. Types'
    BY Zenon DEF Inv, Types, StopRecords, TargetRecords
  <1>2. Provided'
    BY Zenon DEF Inv, Provided, NoneHeld, BothHeld
  <1>3. RefsKnown' /\ ReleasedOnce' /\ Unloaded'
    BY Zenon DEF Inv, RefsKnown, ReleasedOnce, Unloaded, NoneHeld
  <1>4. TargetKnown'
    BY Zenon DEF Inv, TargetKnown
  <1>5. HandlesKnown'
    BY Zenon DEF Inv, HandlesKnown, Numbered
  <1> QED
    BY <1>1, <1>2, <1>3, <1>4, <1>5, Zenon DEF Inv

LEMMA EnvironmentInv ==
    ASSUME Inv, Expire \/ TargetExits \/ BindingGoes \/ UNCHANGED vars
    PROVE  Inv'
  <1>1. /\ stop \in StopRecords /\ tgt \in TargetRecords /\ bind \in {"live", "gone"}
    BY Zenon DEF Inv, Types, StopRecords, TargetRecords
  <1>2. CASE Expire
    <2>1. stop' \in StopRecords
      BY <1>1, <1>2, Zenon DEF Expire, StopRecords
    <2> QED
      BY <1>1, <1>2, <2>1, WorldStep, Zenon DEF Expire, World
  <1>3. CASE TargetExits
    <2>1. tgt' \in TargetRecords /\ tgt'.regs = tgt.regs /\ tgt'.susp = tgt.susp
      BY <1>1, <1>3, Zenon DEF TargetExits, TargetRecords
    <2>2. tgt.alive
      BY <1>3, Zenon DEF TargetExits
    <2> QED
      BY <1>1, <1>3, <2>1, <2>2, WorldStep, Zenon DEF TargetExits
  <1>4. CASE BindingGoes \/ UNCHANGED vars
    BY <1>1, <1>4, WorldStep, Zenon DEF BindingGoes, vars
  <1> QED
    BY <1>2, <1>3, <1>4, Zenon

LEMMA ResumeInv ==
    ASSUME MutationConstants, Inv, Resume
    PROVE  Inv'
  <1>0. /\ op.pc = "resume" /\ op' = Idle
        /\ UNCHANGED <<tx, pv, gate, via, copy, known, next, bind, refs, faults, ghost>>
        /\ stop' = [stop EXCEPT !.on = FALSE, !.expired = FALSE]
        /\ tgt' = [tgt EXCEPT !.susp = FALSE]
    BY Zenon DEF Resume, At, Rest
  <1>1. /\ stop \in StopRecords /\ tgt \in TargetRecords /\ tx.state = "EMPTY"
    BY <1>0, Zenon DEF Inv, Types, Provided, StopRecords, TargetRecords
  <1>2. op' \in CallRecords /\ op'.pc = "idle"
    BY <1>0, EmptyIs, Zenon
  <1>3. stop' \in StopRecords
    BY <1>0, <1>1, Zenon DEF StopRecords
  <1>4. tgt' \in TargetRecords /\ ~tgt'.susp
    BY <1>0, <1>1, Zenon DEF TargetRecords
  <1>5. Types'
    BY <1>0, <1>2, <1>3, <1>4, Zenon DEF Inv, Types, StopRecords, TargetRecords, Begins
  <1>6. Provided'
    BY <1>0, <1>1, <1>2, Zenon DEF Inv, Provided, NoneHeld, BothHeld, Releases, Begins, Writes
  <1>7. RefsKnown' /\ ReleasedOnce' /\ Unloaded'
    BY <1>0, <1>2, Zenon DEF Inv, RefsKnown, ReleasedOnce, Unloaded, NoneHeld
  <1>8. TargetKnown'
    BY <1>0, <1>1, <1>2, <1>4, Zenon DEF Inv, TargetKnown, Begins
  <1>9. HandlesKnown'
    BY <1>0, Zenon DEF Inv, HandlesKnown, Numbered
  <1> QED
    BY <1>5, <1>6, <1>7, <1>8, <1>9, Zenon DEF Inv

LEMMA StopInv ==
    ASSUME MutationConstants, Inv, Stop
    PROVE  Inv'
  <1>0. /\ op.pc = "idle" /\ tx.state = "EMPTY"
        /\ UNCHANGED <<tx, pv, gate, op, via, copy, known, next, bind, refs, faults>>
        /\ stop' = [token |-> stop.token + 1, on |-> TRUE, expired |-> FALSE]
    BY Zenon DEF Stop, Free, Rest
  <1>1. PICK v \in Values : /\ tgt' = [tgt EXCEPT !.susp = TRUE, !.regs = v]
                            /\ ghost' = [ghost EXCEPT !.allowed = v]
    BY Zenon DEF Stop
  <1>2. /\ stop \in StopRecords /\ tgt \in TargetRecords /\ ghost \in Ghosts /\ v \in Contents
    BY Zenon DEF Inv, Types, StopRecords, TargetRecords, Ghosts, Contents
  <1>3. stop' \in StopRecords
    BY <1>0, <1>2 DEF StopRecords
  <1>4. tgt' \in TargetRecords /\ tgt'.regs = v
    BY <1>1, <1>2, Zenon DEF TargetRecords
  <1>5. /\ ghost' \in Ghosts /\ ghost'.allowed = v /\ ghost'.serial = ghost.serial
        /\ ghost'.double = ghost.double /\ ghost'.unloaded = ghost.unloaded
    BY <1>1, <1>2, Zenon DEF Ghosts
  <1>6. Types'
    BY <1>0, <1>3, <1>4, <1>5, Zenon DEF Inv, Types, StopRecords, TargetRecords, Ghosts
  <1>7. Provided'
    BY <1>0, Zenon DEF Inv, Provided, NoneHeld, BothHeld
  <1>8. RefsKnown' /\ ReleasedOnce' /\ Unloaded'
    BY <1>0, <1>5, Zenon DEF Inv, RefsKnown, ReleasedOnce, Unloaded, NoneHeld
  <1>9. TargetKnown'
    BY <1>0, <1>4, <1>5, Zenon DEF Inv, TargetKnown, Begins
  <1>10. HandlesKnown'
    BY <1>0, <1>5, Zenon DEF Inv, HandlesKnown, Numbered
  <1> QED
    BY <1>6, <1>7, <1>8, <1>9, <1>10, Zenon DEF Inv

-----------------------------------------------------------------------------
(* The provider's references *)

RefRecords == [proc : {"none", "held"}, thr : {"none", "held"}]

LEMMA TypesAre ==
    ASSUME Inv
    PROVE  /\ pv \in Providers /\ gate \in BOOLEAN /\ stop \in StopRecords /\ ghost \in Ghosts
           /\ tx \in Transactions /\ op \in CallRecords /\ bind \in {"live", "gone"}
           /\ refs \in RefRecords /\ faults \in 0 .. MaxFaults
  BY Zenon DEF Inv, Types, StopRecords, Ghosts, RefRecords

(* A step outside of a transaction that touches the provider, its           *)
(* references and the call.                                                 *)
LEMMA ProviderStep ==
    ASSUME MutationConstants, Inv, tx.state = "EMPTY", tx' = EmptyTx \/ tx' = tx,
           pv' \in Providers, refs' \in RefRecords, UNCHANGED <<Rest, World>>,
           op' \in CallRecords, gate' \in BOOLEAN, stop' \in StopRecords,
           faults' \in 0 .. MaxFaults, UNCHANGED ghost, ~ghost.unloaded,
           op'.pc \in Begins => op.pc \in Begins, Provided', RefsKnown'
    PROVE  Inv'
  <1>1. ghost' \in Ghosts /\ bind' \in {"live", "gone"}
    BY TypesAre, Zenon DEF World
  <1>2. ReleasedOnce' /\ Unloaded'
    BY Zenon DEF Inv, ReleasedOnce, Unloaded
  <1> QED
    BY <1>1, <1>2, OutsideStep, Zenon DEF World, RefRecords

(* The provider records that something is left over: kept for a retry, or   *)
(* with an unknown effect.                                                  *)
LEMMA PendingIs ==
    ASSUME pv \in Providers, NEW again \in BOOLEAN, NEW unknown \in BOOLEAN,
           pv' = [pv EXCEPT !.pending = TRUE, !.retry = again, !.unsure = unknown,
                            !.banks = FALSE]
    PROVE  /\ pv' \in Providers /\ pv'.pending /\ ~pv'.banks /\ pv'.unsure = unknown
           /\ pv'.lease = pv.lease /\ pv'.proc = pv.proc /\ pv'.thr = pv.thr
           /\ pv'.acq = pv.acq /\ pv'.down = pv.down
  <1> DEFINE yes == TRUE
             no == FALSE
  <1>1. yes \in BOOLEAN /\ no \in BOOLEAN /\ yes /\ ~no
    BY Zenon
  <1>2. pv' = [pv EXCEPT !.pending = yes, !.retry = again, !.unsure = unknown, !.banks = no]
    BY Zenon
  <1> HIDE DEF yes, no
  <1> QED
    BY <1>1, <1>2, Zenon DEF Providers

LEMMA SettledIs ==
    ASSUME pv \in Providers, pv' = Settled(pv)
    PROVE  /\ pv' \in Providers /\ ~pv'.proc /\ ~pv'.pending /\ ~pv'.unsure
           /\ pv'.lease = pv.lease /\ pv'.thr = pv.thr
           /\ pv'.acq = pv.acq /\ pv'.down = pv.down
  <1> DEFINE b == ~pv.down /\ bind = "live"
             no == FALSE
  <1>1. b \in BOOLEAN /\ no \in BOOLEAN /\ ~no
    BY Zenon
  <1>2. pv' = [pv EXCEPT !.proc = no, !.pending = no, !.retry = no, !.unsure = no, !.banks = b]
    BY Zenon DEF Settled
  <1> HIDE DEF b, no
  <1> QED
    BY <1>1, <1>2, Zenon DEF Providers

LEMMA ReleaseInv ==
    ASSUME MutationConstants, Inv, Release
    PROVE  Inv'
  <1>0. op.pc = "release" /\ tx.state = "EMPTY" /\ ~ghost.unloaded
    BY Zenon DEF Release, At, Inv, Provided, Unloaded, Releases
  <1>1. UNCHANGED <<Rest, World, refs, faults, ghost>>
    BY Zenon DEF Release
  <1>2. /\ pv \in Providers /\ refs' \in RefRecords /\ faults' \in 0 .. MaxFaults
        /\ gate \in BOOLEAN /\ stop \in StopRecords /\ op \in CallRecords /\ tx \in Transactions
    BY <1>1, TypesAre, Zenon
  <1>3. CASE pv.acq
    <2>1. pv' = [Quarantined EXCEPT !.lease = FALSE] /\ Finish(tx)
      BY <1>3, Zenon DEF Release
    <2>2. pv' \in Providers /\ ~pv'.lease /\ pv'.pending /\ pv'.unsure /\ ~pv'.banks
      <3> DEFINE yes == TRUE
                 no == FALSE
      <3>1. yes \in BOOLEAN /\ no \in BOOLEAN /\ yes /\ ~no
        BY Zenon
      <3>2. pv' = [pv EXCEPT !.acq = yes, !.pending = yes, !.retry = no, !.unsure = yes,
                             !.banks = no, !.lease = no]
        BY <2>1, Zenon DEF Quarantined
      <3> HIDE DEF yes, no
      <3> QED
        BY <1>2, <3>1, <3>2, Zenon DEF Providers
    <2>3. /\ tx' = tx /\ gate' \in BOOLEAN /\ op' \in CallRecords /\ stop' \in StopRecords
          /\ op'.pc \in {"idle", "resume"}
      BY <1>2, <2>1, FinishIs, Zenon DEF Inv
    <2>4. Provided'
      BY <1>0, <2>2, <2>3, Zenon DEF Provided, Releases, Begins, Writes
    <2>5. RefsKnown' /\ op'.pc \notin Begins
      BY <2>2, <2>3, Zenon DEF RefsKnown, Begins
    <2> QED
      BY <1>0, <1>1, <1>2, <2>2, <2>3, <2>4, <2>5, ProviderStep, Zenon
  <1>4. CASE ~pv.acq
    <2>1. pv' = [pv EXCEPT !.lease = FALSE] /\ Goto("relT") /\ Leave
      BY <1>4, Zenon DEF Release
    <2>2. /\ pv' \in Providers /\ ~pv'.lease /\ pv'.proc = pv.proc /\ pv'.thr = pv.thr
          /\ pv'.pending = pv.pending /\ pv'.unsure = pv.unsure /\ pv'.acq = pv.acq
          /\ pv'.banks = pv.banks
      <3> DEFINE no == FALSE
      <3>1. no \in BOOLEAN /\ ~no /\ pv' = [pv EXCEPT !.lease = no]
        BY <2>1, Zenon
      <3> HIDE DEF no
      <3> QED
        BY <1>2, <3>1, Zenon DEF Providers
    <2>3. op' \in CallRecords /\ op'.pc = "relT"
      BY <1>2, <2>1, GotoIs, Zenon DEF Releases
    <2>4. tx' = tx /\ gate' \in BOOLEAN /\ stop' \in StopRecords
      BY <1>2, <2>1, Zenon DEF Leave
    <2>5. Provided'
      BY <1>0, <1>4, <2>2, <2>3, <2>4, Zenon DEF Inv, Provided, Releases, Begins, Writes
    <2>6. RefsKnown' /\ op'.pc \notin Begins
      BY <1>1, <2>2, <2>3, Zenon DEF Inv, RefsKnown, Begins
    <2> QED
      BY <1>0, <1>1, <1>2, <2>2, <2>3, <2>4, <2>5, <2>6, ProviderStep, Zenon
  <1> QED
    BY <1>3, <1>4, Zenon

(* A release that failed: it is kept for a retry, or nobody knows. *)
ReleaseFails(r) ==
    /\ Finish(tx) /\ Fails
    /\ \/ /\ UNCHANGED refs
          /\ pv' = [pv EXCEPT !.pending = TRUE, !.retry = TRUE, !.unsure = FALSE, !.banks = FALSE]
       \/ /\ \E e \in {"held", "none"} : refs' = [refs EXCEPT ![r] = e]
          /\ pv' = [pv EXCEPT !.pending = TRUE, !.retry = FALSE, !.unsure = TRUE, !.banks = FALSE]

LEMMA ReleaseFailsInv ==
    ASSUME MutationConstants, Inv, NEW r \in {"proc", "thr"}, op.pc \in {"relT", "relP"},
           ReleaseFails(r), UNCHANGED <<Rest, World, ghost>>
    PROVE  Inv'
  <1>0. tx.state = "EMPTY" /\ ~ghost.unloaded /\ ~pv.lease /\ ~pv.acq
    BY Zenon DEF Inv, Provided, Unloaded, Releases
  <1>1. /\ pv \in Providers /\ refs \in RefRecords /\ tx \in Transactions
    BY TypesAre, Zenon
  <1>2. /\ tx' = tx /\ gate' \in BOOLEAN /\ op' \in CallRecords /\ stop' \in StopRecords
        /\ op'.pc \in {"idle", "resume"}
    BY <1>1, FinishIs, Zenon DEF Inv, ReleaseFails
  <1>3. /\ pv' \in Providers /\ pv'.pending /\ ~pv'.banks /\ ~pv'.lease /\ ~pv'.acq
        /\ pv'.proc = pv.proc /\ pv'.thr = pv.thr
        /\ pv'.unsure \/ UNCHANGED refs
    BY <1>0, <1>1, PendingIs, Zenon DEF ReleaseFails
  <1>4. refs' \in RefRecords
    BY <1>1, Zenon DEF ReleaseFails, RefRecords
  <1>5. faults' \in 0 .. MaxFaults
    BY FaultsKept, Zenon DEF ReleaseFails, Inv
  <1>6. Provided'
    BY <1>0, <1>2, <1>3, Zenon DEF Provided, Releases, Begins, Writes
  <1>7. RefsKnown'
    <2>1. ~pv.unsure
      BY Zenon DEF Inv, Provided
    <2> QED
      BY <1>3, <2>1, Zenon DEF Inv, RefsKnown
  <1>8. op'.pc \notin Begins
    BY <1>2, Zenon DEF Begins
  <1> QED
    BY <1>0, <1>2, <1>3, <1>4, <1>5, <1>6, <1>7, <1>8, ProviderStep, Zenon

(* A reference the provider records, with no unknown effect, is held, so    *)
(* its release is the first.                                                *)
LEMMA ReleaseIsFirst ==
    ASSUME Inv, NEW r \in {"proc", "thr"}, op.pc \in {"relT", "relP"}, refs[r] = "held",
           ghost' = [ghost EXCEPT !.double = @ \/ refs[r] # "held"]
    PROVE  UNCHANGED ghost
  <1>1. ghost \in Ghosts /\ ghost.double = FALSE
    BY TypesAre, Zenon DEF Inv, ReleasedOnce, Ghosts
  <1> QED
    BY <1>1, Zenon DEF Ghosts

LEMMA ReleaseThreadInv ==
    ASSUME MutationConstants, Inv, ReleaseThread
    PROVE  Inv'
  <1>0. /\ op.pc = "relT" /\ tx.state = "EMPTY" /\ ~ghost.unloaded
        /\ ~pv.lease /\ ~pv.acq /\ ~pv.unsure
    BY Zenon DEF ReleaseThread, At, Inv, Provided, Unloaded, Releases
  <1>1. UNCHANGED <<Rest, World>>
    BY Zenon DEF ReleaseThread
  <1>2. /\ pv \in Providers /\ refs \in RefRecords /\ faults \in 0 .. MaxFaults
        /\ gate \in BOOLEAN /\ stop \in StopRecords /\ op \in CallRecords
    BY TypesAre, Zenon
  <1>3. ASSUME Goto("relP"), Leave, pv' \in Providers, ~pv'.thr, UNCHANGED <<ghost, faults>>,
               pv'.lease = pv.lease, pv'.proc = pv.proc, pv'.acq = pv.acq,
               pv'.unsure = pv.unsure, pv'.pending = pv.pending, pv'.banks = pv.banks,
               refs' \in RefRecords, refs'.proc = refs.proc, refs'.thr = "none"
        PROVE  Inv'
    <2>1. op' \in CallRecords /\ op'.pc = "relP"
      BY <1>2, <1>3, GotoIs, Zenon DEF Releases
    <2>2. tx' = tx /\ gate' \in BOOLEAN /\ stop' \in StopRecords
      BY <1>2, <1>3, Zenon DEF Leave
    <2>3. Provided'
      BY <1>0, <1>3, <2>1, <2>2, Zenon DEF Inv, Provided, Releases, Begins, Writes
    <2>4. RefsKnown' /\ op'.pc \notin Begins
      BY <1>0, <1>3, <2>1, Zenon DEF Inv, RefsKnown, Begins
    <2> QED
      BY <1>0, <1>1, <1>2, <1>3, <2>1, <2>2, <2>3, <2>4, ProviderStep, Zenon
  <1>4. CASE pv.thr
    <2>1. refs.thr = "held"
      BY <1>0, <1>4, Zenon DEF Inv, RefsKnown
    <2>2. UNCHANGED ghost
      BY <1>0, <1>4, <2>1, ReleaseIsFirst, Zenon DEF ReleaseThread, ReleaseRef
    <2>3. \/ ReleaseFails("thr")
          \/ /\ refs' = [refs EXCEPT !.thr = "none"] /\ UNCHANGED faults
             /\ pv' = [pv EXCEPT !.thr = FALSE] /\ Goto("relP") /\ Leave
      BY <1>4, Zenon DEF ReleaseThread, ReleaseRef, ReleaseFails
    <2>4. CASE /\ refs' = [refs EXCEPT !.thr = "none"] /\ UNCHANGED faults
               /\ pv' = [pv EXCEPT !.thr = FALSE] /\ Goto("relP") /\ Leave
      <3>1. refs' \in RefRecords /\ refs'.proc = refs.proc /\ refs'.thr = "none"
        BY <1>2, <2>4, Zenon DEF RefRecords
      <3>2. /\ pv' \in Providers /\ ~pv'.thr
            /\ pv'.lease = pv.lease /\ pv'.proc = pv.proc /\ pv'.acq = pv.acq
            /\ pv'.unsure = pv.unsure /\ pv'.pending = pv.pending /\ pv'.banks = pv.banks
        <4> DEFINE no == FALSE
        <4>1. no \in BOOLEAN /\ ~no /\ pv' = [pv EXCEPT !.thr = no]
          BY <2>4, Zenon
        <4> HIDE DEF no
        <4> QED
          BY <1>2, <4>1, Zenon DEF Providers
      <3> QED
        BY <1>3, <2>2, <2>4, <3>1, <3>2, Zenon
    <2> QED
      BY <1>0, <1>1, <2>2, <2>3, <2>4, ReleaseFailsInv, Zenon
  <1>5. CASE ~pv.thr
    <2>1. Goto("relP") /\ Leave /\ UNCHANGED <<pv, refs, faults, ghost>>
      BY <1>5, Zenon DEF ReleaseThread
    <2>2. refs.thr = "none"
      BY <1>0, <1>2, <1>5, Zenon DEF Inv, RefsKnown, RefRecords
    <2> QED
      BY <1>2, <1>3, <1>5, <2>1, <2>2, Zenon
  <1> QED
    BY <1>4, <1>5, Zenon

LEMMA ReleaseProcessInv ==
    ASSUME MutationConstants, Inv, ReleaseProcess
    PROVE  Inv'
  <1>0. /\ op.pc = "relP" /\ tx.state = "EMPTY" /\ ~ghost.unloaded
        /\ ~pv.lease /\ ~pv.acq /\ ~pv.unsure /\ ~pv.thr
    BY Zenon DEF ReleaseProcess, At, Inv, Provided, Unloaded, Releases
  <1>1. UNCHANGED <<Rest, World>>
    BY Zenon DEF ReleaseProcess
  <1>2. /\ pv \in Providers /\ refs \in RefRecords /\ faults \in 0 .. MaxFaults
        /\ tx \in Transactions
    BY TypesAre, Zenon
  <1>3. ASSUME Finish(tx), pv' = Settled(pv), UNCHANGED <<ghost, faults>>,
               refs' \in RefRecords, refs'.thr = refs.thr, refs'.proc = "none"
        PROVE  Inv'
    <2>1. /\ tx' = tx /\ gate' \in BOOLEAN /\ op' \in CallRecords /\ stop' \in StopRecords
          /\ op'.pc \in {"idle", "resume"}
      BY <1>2, <1>3, FinishIs, Zenon DEF Inv
    <2>2. /\ pv' \in Providers /\ ~pv'.proc /\ ~pv'.pending /\ ~pv'.unsure
          /\ ~pv'.lease /\ ~pv'.thr /\ ~pv'.acq
      BY <1>0, <1>2, <1>3, SettledIs, Zenon
    <2>3. Provided'
      BY <1>0, <2>1, <2>2, Zenon DEF Provided, NoneHeld, Releases, Begins, Writes
    <2>4. RefsKnown' /\ op'.pc \notin Begins
      BY <1>0, <1>3, <2>1, <2>2, Zenon DEF Inv, RefsKnown, Begins
    <2> QED
      BY <1>0, <1>1, <1>2, <1>3, <2>1, <2>2, <2>3, <2>4, ProviderStep, Zenon
  <1>4. CASE pv.proc
    <2>1. refs.proc = "held"
      BY <1>0, <1>4, Zenon DEF Inv, RefsKnown
    <2>2. UNCHANGED ghost
      BY <1>0, <1>4, <2>1, ReleaseIsFirst, Zenon DEF ReleaseProcess, ReleaseRef
    <2>3. \/ ReleaseFails("proc")
          \/ /\ refs' = [refs EXCEPT !.proc = "none"] /\ UNCHANGED faults
             /\ pv' = Settled(pv) /\ Finish(tx)
      BY <1>4, Zenon DEF ReleaseProcess, ReleaseRef, ReleaseFails
    <2>4. CASE /\ refs' = [refs EXCEPT !.proc = "none"] /\ UNCHANGED faults
               /\ pv' = Settled(pv) /\ Finish(tx)
      <3>1. refs' \in RefRecords /\ refs'.thr = refs.thr /\ refs'.proc = "none"
        BY <1>2, <2>4, Zenon DEF RefRecords
      <3> QED
        BY <1>3, <2>2, <2>4, <3>1, Zenon
    <2> QED
      BY <1>0, <1>1, <2>2, <2>3, <2>4, ReleaseFailsInv, Zenon
  <1>5. CASE ~pv.proc
    <2>1. pv' = Settled(pv) /\ Finish(tx) /\ UNCHANGED <<refs, faults, ghost>>
      BY <1>5, Zenon DEF ReleaseProcess
    <2>2. refs.proc = "none"
      BY <1>0, <1>2, <1>5, Zenon DEF Inv, RefsKnown, RefRecords
    <2> QED
      BY <1>2, <1>3, <2>1, <2>2, Zenon
  <1> QED
    BY <1>4, <1>5, Zenon

LEMMA DrainInv ==
    ASSUME MutationConstants, Inv, Drain
    PROVE  Inv'
  <1>0. /\ op.pc = "idle" /\ ~pv.lease /\ ~pv.unsure /\ (pv.pending \/ pv.proc \/ pv.thr)
        /\ UNCHANGED <<tx, pv, gate, stop, Rest, World, refs, faults, ghost>>
        /\ op' = [Idle EXCEPT !.pc = "relT", !.what = "drain"]
    BY Zenon DEF Drain, Free
  <1>1. op' \in CallRecords /\ op'.pc = "relT"
    BY <1>0, StartIs, Zenon DEF Releases
  <1>2. tx.state = "EMPTY" /\ ~ghost.unloaded /\ ~pv.acq
    BY <1>0, Zenon DEF Inv, Provided, Unloaded, NoneHeld, BothHeld
  <1>3. Provided' /\ RefsKnown'
    BY <1>0, <1>1, <1>2, Zenon DEF Inv, Provided, RefsKnown, Releases, Begins, Writes
  <1>4. op'.pc \notin Begins
    BY <1>1, Zenon DEF Begins
  <1> QED
    BY <1>0, <1>1, <1>2, <1>3, <1>4, TypesAre, ProviderStep, Zenon

LEMMA PrepareUnloadInv ==
    ASSUME MutationConstants, Inv, PrepareUnload
    PROVE  Inv'
  <1> DEFINE clean == ~pv.acq /\ ~pv.unsure /\ ~pv.pending /\ ~pv.proc /\ ~pv.thr
             yes == TRUE
             b == pv.banks /\ pv.lease
             u == ghost.unloaded \/ (~pv.lease /\ clean)
  <1>0. /\ op.pc = "idle" /\ UNCHANGED <<tx, gate, stop, op, Rest, World, refs, faults>>
        /\ pv' = [pv EXCEPT !.down = yes, !.banks = b]
        /\ ghost' = [ghost EXCEPT !.unloaded = u]
    BY Zenon DEF PrepareUnload, Free
  <1>1. yes \in BOOLEAN /\ yes /\ b \in BOOLEAN /\ (b => pv.banks /\ pv.lease) /\ u \in BOOLEAN
    BY Zenon
  <1>2. u => ~pv.lease /\ NoneHeld /\ tx.state = "EMPTY"
    BY Zenon DEF Inv, Unloaded, Provided, NoneHeld, BothHeld
  <1>t. pv \in Providers /\ ghost \in Ghosts
    BY TypesAre, Zenon
  <1> HIDE DEF yes, b, u
  <1>3. /\ pv' \in Providers /\ pv'.down
        /\ pv'.lease = pv.lease /\ pv'.proc = pv.proc /\ pv'.thr = pv.thr
        /\ pv'.pending = pv.pending /\ pv'.unsure = pv.unsure /\ pv'.acq = pv.acq
        /\ pv'.banks = b
    BY <1>0, <1>1, <1>t, Zenon DEF Providers
  <1>4. /\ ghost' \in Ghosts /\ ghost'.allowed = ghost.allowed /\ ghost'.serial = ghost.serial
        /\ ghost'.double = ghost.double /\ ghost'.unloaded = u
    BY <1>0, <1>1, <1>t, Zenon DEF Ghosts
  <1>5. Types'
    BY <1>0, <1>3, <1>4, Zenon DEF Inv, Types, Rest, World, Ghosts
  <1>6. Provided'
    BY <1>0, <1>1, <1>3, Zenon DEF Inv, Provided, NoneHeld, BothHeld, Releases, Begins, Writes
  <1>7. RefsKnown' /\ ReleasedOnce'
    BY <1>0, <1>3, <1>4, Zenon DEF Inv, RefsKnown, ReleasedOnce
  <1>8. Unloaded'
    BY <1>0, <1>1, <1>2, <1>3, <1>4, Zenon DEF Unloaded, NoneHeld
  <1>9. TargetKnown'
    BY <1>0, <1>4, Zenon DEF Inv, TargetKnown, Rest, World
  <1>10. HandlesKnown'
    BY <1>0, <1>4, Zenon DEF Inv, HandlesKnown, Numbered, Rest
  <1> QED
    BY <1>5, <1>6, <1>7, <1>8, <1>9, <1>10, Zenon DEF Inv

-----------------------------------------------------------------------------
(* Beginning a transaction *)

(* Nothing begins after an unload: the banks are withdrawn, and the gate's  *)
(* question to the provider is refused.                                     *)
LEMMA BeginInv ==
    ASSUME MutationConstants, Inv, NEW b \in Banks \cup {"core"}, Begin(b),
           KernelBegin(b) \/ GateBegin
    PROVE  Inv'
  <1>0. /\ op.pc = "idle" /\ tx.state = "EMPTY" /\ copy = NoHandle /\ next < MaxSequence
        /\ tgt.susp /\ UNCHANGED <<tx, gate, stop, Rest, World, refs, faults, ghost>>
        /\ op' = [Idle EXCEPT !.pc = "retainP", !.what = "begin", !.bank = b]
    BY Zenon DEF Begin, Free, Current
  <1>1. ~pv.pending /\ ~ghost.unloaded
    BY Zenon DEF KernelBegin, GateBegin, Ready, Inv, Provided, Unloaded
  <1>2. ~pv.lease /\ NoneHeld
    BY <1>0, <1>1, Zenon DEF Inv, Provided
  <1>3. SamePv
    <2>1. CASE KernelBegin(b)
      BY <2>1, KeptSame, Zenon DEF KernelBegin, Inv
    <2>2. CASE GateBegin
      BY <2>2, StatusSame, Zenon DEF GateBegin, Inv
    <2> QED
      BY <2>1, <2>2, Zenon
  <1>4. op' \in CallRecords /\ op'.pc = "retainP"
    <2>1. Idle \in CallRecords
      BY EmptyIs, Zenon
    <2> QED
      BY <1>0, <2>1, Zenon DEF CallRecords, Begins
  <1>5. Provided'
    BY <1>0, <1>1, <1>2, <1>3, <1>4, Zenon DEF Provided, NoneHeld, SamePv, Releases, Begins, Writes
  <1>6. RefsKnown' /\ ReleasedOnce' /\ Unloaded'
    BY <1>0, <1>1, <1>3, Zenon DEF Inv, RefsKnown, ReleasedOnce, Unloaded, SamePv
  <1>7. pv' \in Providers
    BY <1>3, Zenon DEF SamePv
  <1> QED
    BY <1>0, <1>4, <1>5, <1>6, <1>7, TypesAre, OutsideStep, Zenon DEF RefRecords, World

(* A begin that fails before the provider is in doubt only releases. *)
LEMMA ClearInv ==
    ASSUME MutationConstants, Inv, op.pc \in Begins, Clear, SamePv,
           ~pv.acq /\ ~pv.unsure /\ ~pv.pending,
           faults' \in 0 .. MaxFaults, UNCHANGED <<Rest, World, refs, ghost>>
    PROVE  Inv'
  <1>0. tx.state = "EMPTY" /\ ~ghost.unloaded
    BY Zenon DEF Inv, Provided, Unloaded, Begins
  <1>1. op' \in CallRecords /\ op'.pc = "release"
    BY TypesAre, GotoIs, Zenon DEF Clear, Releases
  <1>2. EmptyTx.state = "EMPTY"
    BY EmptyIs, Zenon
  <1>3. Provided'
    BY <1>1, <1>2, Zenon DEF Clear, Provided, SamePv, Releases, Begins, Writes
  <1>4. RefsKnown' /\ op'.pc \notin Begins /\ pv' \in Providers
    BY <1>1, Zenon DEF Inv, RefsKnown, SamePv, Begins
  <1> QED
    BY <1>0, <1>1, <1>3, <1>4, TypesAre, ProviderStep, Zenon DEF Clear

(* The same with an output of the retain that nobody can trust. *)
LEMMA QuarantineInv ==
    ASSUME MutationConstants, Inv, op.pc \in Begins, Clear, NEW r \in {"proc", "thr"},
           pv' = [Quarantined EXCEPT ![r] = TRUE], NEW e \in {"held", "none"},
           refs' = [refs EXCEPT ![r] = e],
           faults' \in 0 .. MaxFaults, UNCHANGED <<Rest, World, ghost>>
    PROVE  Inv'
  <1>0. tx.state = "EMPTY" /\ ~ghost.unloaded
    BY Zenon DEF Inv, Provided, Unloaded, Begins
  <1>1. op' \in CallRecords /\ op'.pc = "release"
    BY TypesAre, GotoIs, Zenon DEF Clear, Releases
  <1>2. EmptyTx.state = "EMPTY"
    BY EmptyIs, Zenon
  <1>3. pv' \in Providers /\ pv'.acq /\ pv'.unsure /\ pv'.pending /\ ~pv'.banks
    <2> DEFINE yes == TRUE
               no == FALSE
    <2>1. yes \in BOOLEAN /\ no \in BOOLEAN /\ yes /\ ~no /\ pv \in Providers
      BY TypesAre, Zenon
    <2>2. pv' = [pv EXCEPT !.acq = yes, !.pending = yes, !.retry = no, !.unsure = yes,
                           !.banks = no, ![r] = yes]
      BY Zenon DEF Quarantined
    <2> HIDE DEF yes, no
    <2> QED
      BY <2>1, <2>2, Zenon DEF Providers
  <1>4. Provided'
    BY <1>1, <1>2, <1>3, Zenon DEF Clear, Provided, Releases, Begins, Writes
  <1>5. RefsKnown' /\ op'.pc \notin Begins
    BY <1>1, <1>3, Zenon DEF RefsKnown, Begins
  <1>6. refs' \in RefRecords
    BY TypesAre, Zenon DEF RefRecords
  <1> QED
    BY <1>0, <1>1, <1>3, <1>4, <1>5, <1>6, TypesAre, ProviderStep, Zenon DEF Clear

LEMMA RetainInv ==
    ASSUME MutationConstants, Inv, RetainProcess \/ RetainThread
    PROVE  Inv'
  <1>0. /\ op.pc \in Begins /\ UNCHANGED <<Rest, World, ghost>>
        /\ op.pc = "retainP" \/ op.pc = "retainT"
    BY Zenon DEF RetainProcess, RetainThread, At, Begins
  <1>1. tx.state = "EMPTY" /\ ~ghost.unloaded /\ ~pv.lease /\ ~pv.acq /\ ~pv.unsure /\ ~pv.pending
    BY <1>0, Zenon DEF Inv, Provided, Unloaded, NoneHeld, Begins
  <1>2. /\ pv \in Providers /\ refs \in RefRecords /\ faults \in 0 .. MaxFaults
        /\ gate \in BOOLEAN /\ stop \in StopRecords /\ op \in CallRecords
    BY TypesAre, Zenon
  <1>3. ASSUME Clear, UNCHANGED <<pv, refs>>, Fails \/ UNCHANGED faults
        PROVE  Inv'
    <2>1. SamePv /\ faults' \in 0 .. MaxFaults
      BY <1>3, KeptSame, FaultsKept, Zenon DEF Inv
    <2> QED
      BY <1>0, <1>1, <1>3, <2>1, ClearInv, Zenon
  <1>4. ASSUME NEW r \in {"proc", "thr"}, Fails, Clear,
               \E e \in {"held", "none"} : refs' = [refs EXCEPT ![r] = e],
               pv' = [Quarantined EXCEPT ![r] = TRUE]
        PROVE  Inv'
    <2>1. faults' \in 0 .. MaxFaults
      BY <1>4, FaultsKept, Zenon DEF Inv
    <2> QED
      BY <1>0, <1>4, <2>1, QuarantineInv, Zenon
  <1>5. ASSUME refs' \in RefRecords, pv' \in Providers, Leave, UNCHANGED faults,
               pv'.lease = pv.lease, pv'.acq = pv.acq, pv'.unsure = pv.unsure,
               pv'.pending = pv.pending, pv'.banks = pv.banks,
               NEW pc \in {"retainT", "retained"}, Goto(pc),
               pv'.proc /\ refs'.proc = "held", pv'.thr <=> refs'.thr = "held",
               pv'.thr <=> pc = "retained"
        PROVE  Inv'
    <2>1. op' \in CallRecords /\ op'.pc = pc
      BY <1>2, <1>5, GotoIs, Zenon DEF Begins
    <2>2. tx' = tx /\ gate' \in BOOLEAN /\ stop' \in StopRecords /\ faults' \in 0 .. MaxFaults
      BY <1>2, <1>5, Zenon DEF Leave
    <2>3. Provided'
      BY <1>1, <1>5, <2>1, <2>2, Zenon DEF Provided, Releases, Begins, Writes
    <2>4. RefsKnown'
      BY <1>5, Zenon DEF RefsKnown
    <2> QED
      BY <1>0, <1>1, <1>5, <2>1, <2>2, <2>3, <2>4, ProviderStep, Zenon
  <1> DEFINE yes == TRUE
  <1>6. CASE RetainProcess
    <2>1. \/ Clear /\ UNCHANGED <<pv, refs, faults>>
          \/ RetainRef("proc", Goto("retainT") /\ Leave)
      BY <1>6, Zenon DEF RetainProcess
    <2>2. CASE /\ refs' = [refs EXCEPT !.proc = "held"] /\ pv' = [pv EXCEPT !.proc = yes]
               /\ Goto("retainT") /\ Leave /\ UNCHANGED faults
      <3>1. refs' \in RefRecords /\ refs'.proc = "held" /\ refs'.thr = refs.thr
        BY <1>2, <2>2, Zenon DEF RefRecords
      <3>2. /\ pv' \in Providers /\ pv'.proc /\ pv'.thr = pv.thr
            /\ pv'.lease = pv.lease /\ pv'.acq = pv.acq /\ pv'.unsure = pv.unsure
            /\ pv'.pending = pv.pending /\ pv'.banks = pv.banks
        <4>1. yes \in BOOLEAN /\ yes
          BY Zenon
        <4>2. pv' = [pv EXCEPT !.proc = yes]
          BY <2>2, Zenon
        <4> HIDE DEF yes
        <4> QED
          BY <1>2, <4>1, <4>2, Zenon DEF Providers
      <3>3. ~pv.thr /\ refs.thr # "held"
        BY <1>1, <1>6, Zenon DEF RetainProcess, At, Inv, Provided, NoneHeld, RefsKnown
      <3> QED
        BY <1>5, <2>2, <3>1, <3>2, <3>3, Zenon
    <2> QED
      BY <1>3, <1>4, <2>1, <2>2, Zenon DEF RetainRef
  <1>7. CASE RetainThread
    <2>1. RetainRef("thr", Goto("retained") /\ Leave)
      BY <1>7, Zenon DEF RetainThread
    <2>2. CASE /\ refs' = [refs EXCEPT !.thr = "held"] /\ pv' = [pv EXCEPT !.thr = yes]
               /\ Goto("retained") /\ Leave /\ UNCHANGED faults
      <3>1. refs' \in RefRecords /\ refs'.thr = "held" /\ refs'.proc = refs.proc
        BY <1>2, <2>2, Zenon DEF RefRecords
      <3>2. /\ pv' \in Providers /\ pv'.thr /\ pv'.proc = pv.proc
            /\ pv'.lease = pv.lease /\ pv'.acq = pv.acq /\ pv'.unsure = pv.unsure
            /\ pv'.pending = pv.pending /\ pv'.banks = pv.banks
        <4>1. yes \in BOOLEAN /\ yes
          BY Zenon
        <4>2. pv' = [pv EXCEPT !.thr = yes]
          BY <2>2, Zenon
        <4> HIDE DEF yes
        <4> QED
          BY <1>2, <4>1, <4>2, Zenon DEF Providers
      <3>3. pv.proc /\ refs.proc = "held"
        BY <1>1, <1>7, Zenon DEF RetainThread, At, Inv, Provided, RefsKnown
      <3> QED
        BY <1>5, <2>2, <3>1, <3>2, <3>3, Zenon
    <2> QED
      BY <1>3, <1>4, <2>1, <2>2, Zenon DEF RetainRef
  <1> QED
    BY <1>6, <1>7, Zenon

LEMMA RetainedInv ==
    ASSUME MutationConstants, Inv, Retained
    PROVE  Inv'
  <1>0. /\ op.pc = "retained" /\ UNCHANGED <<Rest, World, refs, ghost>>
        /\ pv' = [pv EXCEPT !.lease = TRUE]
        /\ (Goto("snapshot") /\ Leave) \/ Clear
        /\ Fails \/ UNCHANGED faults
    BY Zenon DEF Retained, At
  <1>1. /\ tx.state = "EMPTY" /\ ~ghost.unloaded /\ pv.proc /\ pv.thr
        /\ ~pv.acq /\ ~pv.unsure /\ ~pv.pending
    BY <1>0, Zenon DEF Inv, Provided, Unloaded, Begins
  <1>2. /\ pv \in Providers /\ refs' \in RefRecords
        /\ gate \in BOOLEAN /\ stop \in StopRecords /\ op \in CallRecords
    BY <1>0, TypesAre, Zenon
  <1>3. faults' \in 0 .. MaxFaults
    BY <1>0, FaultsKept, Zenon DEF Inv
  <1>4. /\ pv' \in Providers /\ pv'.lease /\ pv'.thr = pv.thr /\ pv'.proc = pv.proc
        /\ pv'.acq = pv.acq /\ pv'.unsure = pv.unsure /\ pv'.pending = pv.pending
    <2> DEFINE yes == TRUE
    <2>1. yes \in BOOLEAN /\ yes /\ pv' = [pv EXCEPT !.lease = yes]
      BY <1>0, Zenon
    <2> HIDE DEF yes
    <2> QED
      BY <1>2, <2>1, Zenon DEF Providers
  <1>5. /\ op' \in CallRecords /\ op'.pc \in {"snapshot", "release"}
        /\ tx' = EmptyTx \/ tx' = tx
        /\ gate' \in BOOLEAN /\ stop' \in StopRecords
    BY <1>0, <1>2, GotoIs, Zenon DEF Clear, Leave, Begins, Releases
  <1>6. EmptyTx.state = "EMPTY"
    BY EmptyIs, Zenon
  <1>7. Provided'
    BY <1>1, <1>4, <1>5, <1>6, Zenon DEF Provided, BothHeld, Releases, Begins, Writes
  <1>8. RefsKnown' /\ op.pc \in Begins
    BY <1>0, <1>1, <1>4, Zenon DEF Inv, RefsKnown, Begins
  <1> QED
    BY <1>0, <1>1, <1>2, <1>3, <1>4, <1>5, <1>7, <1>8, ProviderStep, Zenon

(* The handle the snapshot makes. *)
LEMMA SequenceIs ==
    ASSUME MutationConstants, Types, op.pc \in Begins
    PROVE  /\ Sequence \in Nat /\ next <= Sequence /\ Sequence + 1 \in 1 .. MaxSequence + 1
           /\ Sequence % Base \in Nat /\ Generation(Sequence) \in Nat
           /\ next \in Nat
  <1>1. next \in Nat /\ next < MaxSequence /\ MaxSequence \in Nat /\ Base \in Nat /\ Base > 0
        /\ next >= 1
    BY DEF Types, MutationConstants
  <1>2. Sequence \in Nat /\ next <= Sequence /\ Sequence + 1 \in 1 .. MaxSequence + 1
    BY <1>1 DEF Sequence
  <1> HIDE DEF Sequence
  <1>3. Sequence % Base \in Nat /\ Sequence \div Base \in Nat
    BY <1>1, <1>2
  <1> QED
    BY <1>1, <1>2, <1>3 DEF Generation

LEMMA BegunInv ==
    ASSUME MutationConstants, Inv, op.pc = "snapshot", SamePv, tgt.alive,
           NEW h, h = [token |-> Sequence % Base, gen |-> Generation(Sequence),
                       stop |-> stop.token, bank |-> op.bank],
           tx' = [EmptyTx EXCEPT !.state = "SNAPSHOTTED", !.h = h,
                                 !.orig = tgt.regs, !.want = tgt.regs],
           next' = Sequence + 1, gate' \in BOOLEAN, copy' \in {h, NoHandle},
           \/ known' = {[h |-> h, serial |-> ghost.serial + 1]}
           \/ known' = known,
           ghost' = [ghost EXCEPT !.serial = @ + 1], op' = Idle,
           UNCHANGED <<stop, faults, World, refs>>
    PROVE  Inv'
  <1>0. op.pc \in Begins /\ tx.state = "EMPTY" /\ BothHeld /\ ~ghost.unloaded /\ tgt.susp
        /\ tgt.regs = ghost.allowed
    BY Zenon DEF Inv, Provided, Unloaded, TargetKnown, Begins
  <1>1. /\ Sequence \in Nat /\ next <= Sequence /\ next' \in 1 .. MaxSequence + 1
        /\ Sequence % Base \in Nat /\ Generation(Sequence) \in Nat
        /\ next \in Nat
    BY <1>0, SequenceIs, Zenon DEF Inv
  <1>2. /\ ghost \in Ghosts /\ stop \in StopRecords /\ op \in CallRecords
        /\ known \in SUBSET [h : HandleRecords, serial : Nat]
        /\ tgt \in TargetRecords
    BY TypesAre, Zenon DEF Inv, Types, TargetRecords
  <1>3. h \in HandleRecords /\ Numbered(h, Sequence) /\ NoHandle \in HandleRecords
    <2>1. stop.token \in Nat /\ op.bank \in Banks \cup {"none", "core"}
      BY <1>2, Zenon DEF StopRecords, CallRecords
    <2> QED
      BY <1>1, <2>1, EmptyIs, Zenon DEF HandleRecords, Numbered, Generation
  <1>4. /\ tx' \in Transactions /\ tx'.state = "SNAPSHOTTED" /\ tx'.h = h
        /\ tx'.orig = tgt.regs
    <2>1. EmptyTx \in Transactions /\ tgt.regs \in Contents
      BY <1>2, EmptyIs, Zenon DEF TargetRecords
    <2> QED
      BY <1>3, <2>1, Zenon DEF Transactions
  <1>5. /\ ghost' \in Ghosts /\ ghost'.allowed = ghost.allowed /\ ghost'.double = ghost.double
        /\ ghost'.unloaded = ghost.unloaded /\ ghost'.serial = ghost.serial + 1
        /\ ghost.serial \in Nat
    BY <1>2 DEF Ghosts
  <1>6. op' \in CallRecords /\ op'.pc = "idle"
    BY EmptyIs, Zenon
  <1>7. known' \in SUBSET [h : HandleRecords, serial : Nat]
    BY <1>2, <1>3, <1>5
  <1>8. Types'
    BY <1>1, <1>3, <1>4, <1>5, <1>6, <1>7 DEF Inv, Types, SamePv, Ghosts, Begins, World
  <1>9. Provided'
    BY <1>0, <1>4, <1>6, Zenon DEF Provided, SamePv, BothHeld, Releases, Begins, Writes
  <1>10. RefsKnown' /\ ReleasedOnce' /\ Unloaded'
    BY <1>0, <1>5, Zenon DEF Inv, RefsKnown, ReleasedOnce, Unloaded, SamePv
  <1>11. TargetKnown'
    BY <1>0, <1>4, <1>5, <1>6, Zenon DEF TargetKnown, World, Begins
  <1>12. HandlesKnown'
    <2>1. next' - 1 = Sequence
      BY <1>1
    <2>2. Numbered(tx'.h, next' - 1) /\ (copy' # NoHandle => Numbered(copy', next' - 1))
      BY <1>3, <1>4, <2>1, Zenon
    <2>3. ASSUME NEW k \in known'
          PROVE  /\ k.serial <= ghost'.serial
                 /\ k.serial = ghost'.serial => Numbered(k.h, next' - 1)
                 /\ k.serial # ghost'.serial => \E s \in Nat : s < next' - 1 /\ Numbered(k.h, s)
      <3>1. CASE known' = {[h |-> h, serial |-> ghost.serial + 1]}
        BY <1>3, <1>5, <2>1, <3>1
      <3>2. CASE known' = known
        <4>1. /\ k.serial \in Nat /\ k.serial <= ghost.serial
              /\ k.serial = ghost.serial => Numbered(k.h, next - 1)
              /\ k.serial # ghost.serial => \E s \in Nat : s < next - 1 /\ Numbered(k.h, s)
          BY <1>2, <3>2, Zenon DEF Inv, HandlesKnown
        <4>2. next - 1 \in Nat
          BY DEF Inv, Types
        <4>3. \E s \in Nat : s < next /\ Numbered(k.h, s)
          <5>1. CASE k.serial = ghost.serial
            BY <1>1, <4>1, <4>2, <5>1
          <5>2. CASE k.serial # ghost.serial
            BY <1>1, <4>1, <5>2
          <5> QED
            BY <5>1, <5>2, Zenon
        <4> QED
          BY <1>1, <1>5, <2>1, <4>1, <4>3
      <3> QED
        BY <3>1, <3>2, Zenon
    <2> QED
      BY <2>2, <2>3, Zenon DEF HandlesKnown, Numbered
  <1> QED
    BY <1>8, <1>9, <1>10, <1>11, <1>12, Zenon DEF Inv

LEMMA SnapshotInv ==
    ASSUME MutationConstants, Inv, Snapshot
    PROVE  Inv'
  <1> DEFINE h == [token |-> Sequence % Base, gen |-> Generation(Sequence),
                   stop |-> stop.token, bank |-> op.bank]
             Begun == /\ tx' = [EmptyTx EXCEPT !.state = "SNAPSHOTTED", !.h = h,
                                               !.orig = tgt.regs, !.want = tgt.regs]
                      /\ next' = Sequence + 1
                      /\ gate' = (via = "gate")
                      /\ copy' = IF via = "kernel" THEN h ELSE NoHandle
                      /\ known' = IF via = "gate"
                                  THEN {[h |-> h, serial |-> ghost.serial + 1]} ELSE known
                      /\ ghost' = [ghost EXCEPT !.serial = @ + 1]
                      /\ op' = Idle /\ UNCHANGED <<stop, faults>>
             Failed == Clear /\ UNCHANGED <<next, copy, known, ghost>>
  <1>0. op.pc = "snapshot" /\ UNCHANGED <<via, World, refs>>
    BY Zenon DEF Snapshot, At
  <1>1. \/ Begun /\ tgt.alive /\ pv' = Enabled
        \/ Failed /\ (Fails \/ UNCHANGED faults) /\ (pv' = Enabled \/ pv' = Disabled)
    BY Zenon DEF Snapshot, Status
  <1>2. SamePv
    BY <1>1, StatusSame, Zenon DEF Inv
  <1>3. CASE Begun /\ tgt.alive
    <2>1. gate' \in BOOLEAN /\ copy' \in {h, NoHandle}
          /\ (known' = {[h |-> h, serial |-> ghost.serial + 1]} \/ known' = known)
      BY <1>3, Zenon
    <2> QED
      BY <1>0, <1>2, <1>3, <2>1, BegunInv, Zenon
  <1>4. CASE Failed /\ (Fails \/ UNCHANGED faults)
    <2>1. faults' \in 0 .. MaxFaults
      BY <1>4, FaultsKept, Zenon DEF Inv
    <2>2. op.pc \in Begins /\ ~pv.acq /\ ~pv.unsure /\ ~pv.pending
      BY <1>0, Zenon DEF Inv, Provided, BothHeld, Begins
    <2> QED
      BY <1>0, <1>2, <1>4, <2>1, <2>2, ClearInv, Zenon DEF Rest
  <1> QED
    BY <1>1, <1>3, <1>4, Zenon

LEMMA CopyOutInv ==
    ASSUME MutationConstants, Inv, CopyOut
    PROVE  Inv'
  <1>0. /\ op.pc = "idle" /\ copy # NoHandle /\ copy' = NoHandle
        /\ UNCHANGED <<next, via, pv, World, refs, ghost>>
    BY Zenon DEF CopyOut, Free
  <1>1. NoHandle \in HandleRecords
    BY EmptyIs, Zenon
  <1>2. CASE /\ known' = known \cup {[h |-> copy, serial |-> ghost.serial]}
             /\ UNCHANGED <<faults, tx, gate, stop, op>>
    <2>1. ghost.serial \in Nat /\ copy \in HandleRecords /\ Numbered(copy, next - 1)
      BY <1>0, Zenon DEF Inv, Types, HandlesKnown
    <2>2. known' \in SUBSET [h : HandleRecords, serial : Nat]
      BY <1>2, <2>1 DEF Inv, Types
    <2>3. Types'
      BY <1>0, <1>1, <1>2, <2>2 DEF Inv, Types, World
    <2>4. Provided' /\ RefsKnown' /\ ReleasedOnce' /\ Unloaded'
      BY <1>0, <1>2, Zenon
      DEF Inv, Provided, RefsKnown, ReleasedOnce, Unloaded, NoneHeld, BothHeld
    <2>5. TargetKnown'
      BY <1>0, <1>2, Zenon DEF Inv, TargetKnown, World
    <2>6. HandlesKnown'
      <3>1. ASSUME NEW k \in known'
            PROVE  /\ k.serial <= ghost.serial
                   /\ k.serial = ghost.serial => Numbered(k.h, next - 1)
                   /\ k.serial # ghost.serial => \E s \in Nat : s < next - 1 /\ Numbered(k.h, s)
        <4>1. CASE k \in known
          BY <4>1, Zenon DEF Inv, HandlesKnown
        <4>2. CASE k = [h |-> copy, serial |-> ghost.serial]
          BY <2>1, <4>2
        <4> QED
          BY <1>2, <4>1, <4>2, Zenon
      <3> QED
        BY <1>0, <1>2, <3>1, Zenon DEF Inv, HandlesKnown, Numbered
    <2> QED
      BY <2>3, <2>4, <2>5, <2>6, Zenon DEF Inv
  <1>3. CASE Fails /\ UNCHANGED <<known, tx, gate, stop, op>>
    <2>1. faults' \in 0 .. MaxFaults
      BY <1>3, FaultsKept, Zenon DEF Inv
    <2>3. Types'
      BY <1>0, <1>1, <1>3, <2>1 DEF Inv, Types, World
    <2>4. Provided' /\ RefsKnown' /\ ReleasedOnce' /\ Unloaded'
      BY <1>0, <1>3, Zenon
      DEF Inv, Provided, RefsKnown, ReleasedOnce, Unloaded, NoneHeld, BothHeld
    <2>5. TargetKnown' /\ HandlesKnown'
      BY <1>0, <1>3, Zenon DEF Inv, TargetKnown, World, HandlesKnown, Numbered
    <2> QED
      BY <2>3, <2>4, <2>5, Zenon DEF Inv
  <1>4. CASE Fails /\ UNCHANGED known /\ HandleValid(copy) /\ Clear
    <2>0. /\ tx.state = "SNAPSHOTTED" /\ BothHeld /\ tgt.susp /\ ~ghost.unloaded
          /\ tgt.regs = ghost.allowed
      BY <1>0, <1>4, Zenon DEF HandleValid, Inv, TargetKnown, Provided, Unloaded
    <2>1. faults' \in 0 .. MaxFaults
      BY <1>4, FaultsKept, Zenon DEF Inv
    <2>2. op' \in CallRecords /\ op'.pc = "release"
      BY <1>4, TypesAre, GotoIs, Zenon DEF Clear, Releases
    <2>3. tx' = EmptyTx /\ EmptyTx \in Transactions /\ EmptyTx.state = "EMPTY"
      BY <1>4, EmptyIs, Zenon DEF Clear
    <2>4. Types'
      BY <1>0, <1>1, <1>4, <2>1, <2>2, <2>3 DEF Inv, Types, World, Clear, Begins
    <2>5. Provided'
      BY <1>0, <2>0, <2>2, <2>3, Zenon DEF Provided, BothHeld, Releases, Begins, Writes
    <2>6. RefsKnown' /\ ReleasedOnce' /\ Unloaded'
      BY <1>0, <2>0, Zenon DEF Inv, RefsKnown, ReleasedOnce, Unloaded
    <2>7. TargetKnown'
      BY <1>0, <2>0, <2>2, <2>3, Zenon DEF TargetKnown, World, Begins
    <2>8. HandlesKnown'
      BY <1>0, <1>4, <2>3, Zenon DEF Inv, HandlesKnown, Numbered
    <2> QED
      BY <2>4, <2>5, <2>6, <2>7, <2>8, Zenon DEF Inv
  <1> QED
    BY <1>2, <1>3, <1>4, Zenon DEF CopyOut

LEMMA InitInv ==
    ASSUME MutationConstants, Init
    PROVE  Inv
  <1> DEFINE v == CHOOSE v \in Values : TRUE
  <1>0. v \in Contents /\ Torn \in Contents
    BY Zenon DEF MutationConstants, Contents
  <1> HIDE DEF v
  <1>1. /\ EmptyTx \in Transactions /\ EmptyTx.state = "EMPTY" /\ NoHandle \in HandleRecords
        /\ Idle \in CallRecords /\ Idle.pc = "idle"
    BY EmptyIs, Zenon
  <1>2. tgt \in TargetRecords /\ ~tgt.susp
    BY <1>0, Zenon DEF Init, v, TargetRecords
  <1>3. /\ pv \in Providers /\ ~pv.lease /\ NoneHeld
    BY Zenon DEF Init, Providers, NoneHeld
  <1>4. ghost \in Ghosts /\ ~ghost.double /\ ~ghost.unloaded
    BY <1>0, Zenon DEF Init, Ghosts
  <1>5. Types
    <2>0. next = 1 /\ faults = 0 /\ gate \in BOOLEAN /\ bind \in {"live", "gone"}
      BY Zenon DEF Init
    <2>1. next \in 1 .. MaxSequence + 1 /\ faults \in 0 .. MaxFaults
      BY <2>0 DEF MutationConstants
    <2>2. stop \in StopRecords /\ refs \in RefRecords
      BY Zenon DEF Init, StopRecords, RefRecords
    <2>3. /\ tx \in Transactions /\ copy \in HandleRecords /\ op \in CallRecords
          /\ op.pc \notin Begins /\ known \in SUBSET [h : HandleRecords, serial : Nat]
      BY <1>1, Zenon DEF Init, Begins
    <2> QED
      BY <1>2, <1>3, <1>4, <2>0, <2>1, <2>2, <2>3, Zenon
      DEF Types, TargetRecords, Ghosts, StopRecords, RefRecords
  <1>6. Provided
    BY <1>1, <1>3, Zenon DEF Init, Provided, NoneHeld, Releases, Begins, Writes
  <1>7. RefsKnown /\ ReleasedOnce /\ Unloaded
    BY <1>3, <1>4, Zenon DEF Init, RefsKnown, ReleasedOnce, Unloaded, NoneHeld
  <1>8. TargetKnown /\ HandlesKnown
    BY <1>1, <1>2, Zenon DEF Init, TargetKnown, HandlesKnown, Begins
  <1> QED
    BY <1>5, <1>6, <1>7, <1>8, Zenon DEF Inv

LEMMA NextInv ==
    ASSUME MutationConstants, Inv, [Next]_vars
    PROVE  Inv'
  <1>1. CASE Steps
    BY <1>1, ReleaseInv, ReleaseThreadInv, ReleaseProcessInv, RetainInv, RetainedInv,
       SnapshotInv, WriteInv, VerifyInv, RestoreInv, RestoreWriteInv, RestoreVerifyInv,
       ResumeInv, Zenon DEF Steps
  <1>2. CASE Requests
    <2>1. CASE GateBegin \/ \E b \in Banks : KernelBegin(b)
      <3>1. CASE GateBegin
        <4>1. Begin("core") /\ "core" \in Banks \cup {"core"}
          BY <3>1, Zenon DEF GateBegin
        <4> QED
          BY <3>1, <4>1, BeginInv, Zenon
      <3>2. ASSUME NEW b \in Banks, KernelBegin(b)
            PROVE  Inv'
        <4>1. Begin(b) /\ b \in Banks \cup {"core"}
          BY <3>2, Zenon DEF KernelBegin
        <4> QED
          BY <3>2, <4>1, BeginInv, Zenon
      <3> QED
        BY <2>1, <3>1, <3>2, Zenon
    <2>2. ASSUME NEW h \in Handles, Commit(h) \/ RestoreCall(h)
          PROVE  Inv'
      BY <2>2, CommitInv, RestoreCallInv, Zenon
    <2>3. ASSUME NEW h \in Handles, NEW v \in Values, KernelStage(h, v) \/ GateApply(h, v)
          PROVE  Inv'
      BY <2>3, StageInv, Zenon DEF KernelStage, GateApply
    <2>4. CASE Drain \/ PrepareUnload \/ OwnerEnds \/ Stop
      BY <2>4, DrainInv, PrepareUnloadInv, EndStopInv, StopInv, Zenon DEF OwnerEnds
    <2> QED
      BY <1>2, <2>1, <2>2, <2>3, <2>4, Zenon DEF Requests
  <1>3. CASE CopyOut \/ Watchdog
    BY <1>3, CopyOutInv, EndStopInv, Zenon DEF Watchdog
  <1>4. CASE Expire \/ TargetExits \/ BindingGoes \/ UNCHANGED vars
    BY <1>4, EnvironmentInv, Zenon
  <1> QED
    BY <1>1, <1>2, <1>3, <1>4, Zenon DEF Next

-----------------------------------------------------------------------------
(* The theorems *)

(* The transaction, its provider, the stop session, the call in progress    *)
(* and the handles given out fit together as Inv says, whatever calls fail, *)
(* the target does and the stop's lease brings.                             *)
THEOREM Invariance == ASSUME MutationConstants PROVE Spec => []Inv
  <1>1. Init => Inv
    BY InitInv, Zenon
  <1>2. Inv /\ [Next]_vars => Inv'
    BY NextInv, Zenon
  <1> QED
    BY <1>1, <1>2, PTL DEF Spec

(* An obligation to restore holds the lease and both references of the      *)
(* exact target (kernel/src/thread_mutation.c).                             *)
THEOREM Typed == ASSUME MutationConstants PROVE Spec => []TypeOK
  <1>1. Inv => TypeOK
    <2> SUFFICES ASSUME Inv
                 PROVE  TypeOK
      BY Zenon
    <2>1. /\ tx.state \in {"EMPTY", "SNAPSHOTTED", "STAGED", "RESTORE_PENDING"}
          /\ tx.orig \in Contents /\ tx.want \in Contents /\ tgt.regs \in Contents
      BY Zenon DEF Inv, Types, Transactions
    <2>2. next \in 1 .. MaxSequence + 1
      BY Zenon DEF Inv, Types
    <2>3. \A f \in DOMAIN pv : pv[f] \in BOOLEAN
      BY TypesAre, Zenon DEF Providers
    <2>4. tx.state # "EMPTY" => /\ pv.lease /\ pv.proc /\ pv.thr
                                /\ refs.proc = "held" /\ refs.thr = "held"
      BY Zenon DEF Inv, Provided, BothHeld, RefsKnown
    <2> QED
      BY <2>1, <2>2, <2>3, <2>4, Zenon DEF TypeOK, Contents
  <1> QED
    BY <1>1, Invariance, PTL

(* A target is resumed with the registers it was stopped with, or with the  *)
(* ones of a committed transaction, unless it exited: no failing, torn or   *)
(* unverified write is left in it.                                          *)
THEOREM ResumesClean == ASSUME MutationConstants PROVE Spec => [][ResumedClean]_vars
  <1>1. Inv /\ [Next]_vars => [ResumedClean]_vars
    <2> SUFFICES ASSUME Inv, Next, tgt.susp, ~tgt'.susp
                 PROVE  ~tgt.alive \/ tgt.regs = ghost.allowed
      BY Zenon DEF ResumedClean
    <2>t. tgt \in TargetRecords
      BY Zenon DEF Inv, Types, TargetRecords
    <2>1. CASE Resume
      BY <2>1, Zenon DEF Resume, At, Inv, Provided, TargetKnown
    <2>2. ASSUME Write \/ RestoreWrite \/ Stop \/ TargetExits
          PROVE  tgt'.susp
      <3>1. \/ UNCHANGED tgt
            \/ \E v : tgt' = [tgt EXCEPT !.regs = v]
            \/ \E v : tgt' = [tgt EXCEPT !.susp = TRUE, !.regs = v]
            \/ tgt' = [tgt EXCEPT !.alive = FALSE]
        BY <2>2, Zenon DEF Write, RestoreWrite, Stop, TargetExits, Status
      <3> QED
        BY <2>t, <3>1, Zenon DEF TargetRecords
    <2>3. ASSUME ~Resume, ~(Write \/ RestoreWrite \/ Stop \/ TargetExits)
          PROVE  UNCHANGED tgt
      <3>1. CASE Steps
        BY <2>3, <3>1, Zenon
        DEF Steps, Release, ReleaseThread, ReleaseProcess, RetainProcess, RetainThread,
            Retained, Snapshot, Verify, Restore, RestoreVerify, RestoreVerifyIf, World
      <3>2. CASE Requests
        BY <2>3, <3>2, Zenon
        DEF Requests, GateBegin, KernelBegin, Begin, Commit, RestoreCall, KernelStage,
            GateApply, Stage, Drain, PrepareUnload, OwnerEnds, EndStop, World
      <3>3. CASE CopyOut \/ Watchdog \/ Expire \/ TargetExits \/ BindingGoes
        BY <2>3, <3>3, Zenon DEF CopyOut, Watchdog, EndStop, Expire, BindingGoes, World
      <3> QED
        BY <3>1, <3>2, <3>3, Zenon DEF Next
    <2> QED
      BY <2>1, <2>2, <2>3, Zenon
  <1> QED
    BY <1>1, Invariance, PTL DEF Spec

(* No reference is released twice, and none whose acquisition or release    *)
(* had an unknown effect is released at all.                                *)
THEOREM ReleasesOnce == ASSUME MutationConstants PROVE Spec => []ReleasedOnce
  <1>1. Inv => ReleasedOnce
    BY Zenon DEF Inv
  <1> QED
    BY <1>1, Invariance, PTL

(* Once the provider agreed to an unload no reference and no transaction is *)
(* left, and none begins.                                                   *)
THEOREM UnloadFinal == ASSUME MutationConstants PROVE Spec => []UnloadIsFinal
  <1>1. Inv => UnloadIsFinal
    <2> SUFFICES ASSUME Inv, ghost.unloaded
                 PROVE  UnloadIsFinal
      BY Zenon DEF UnloadIsFinal
    <2>1. ~pv.lease /\ ~pv.banks /\ NoneHeld /\ tx.state = "EMPTY"
      BY Zenon DEF Inv, Unloaded
    <2>2. refs.proc = "none" /\ refs.thr = "none"
      BY <2>1, TypesAre, Zenon DEF Inv, RefsKnown, NoneHeld, RefRecords
    <2> QED
      BY <2>1, <2>2, Zenon DEF UnloadIsFinal
  <1> QED
    BY <1>1, Invariance, PTL

(* A number below the handle's is not the one it was made from. *)
LEMMA NumberedOnce ==
    ASSUME MutationConstants, NEW h, NEW s \in Nat, NEW t \in Nat, Numbered(h, s), Numbered(h, t)
    PROVE  s = t
  <1>1. Base \in Nat /\ Base > 0
    BY DEF MutationConstants
  <1>2. s \div Base \in Int /\ t \div Base \in Int
    BY <1>1
  <1>3. s % Base = t % Base /\ s \div Base = t \div Base
    BY <1>2 DEF Numbered
  <1>4. s = Base * (s \div Base) + (s % Base) /\ t = Base * (t \div Base) + (t % Base)
    BY <1>1
  <1> QED
    BY <1>3, <1>4, Zenon

(* A handle names one transaction: none that was given out for an earlier   *)
(* one is accepted for a later one, also when the token has wrapped.        *)
THEOREM HandlesOnce == ASSUME MutationConstants PROVE Spec => []HandleOnce
  <1>1. Inv => HandleOnce
    <2> SUFFICES ASSUME Inv, NEW k \in known, HandleValid(k.h), k.serial # ghost.serial
                 PROVE  FALSE
      BY Zenon DEF HandleOnce
    <2>1. Numbered(k.h, next - 1) /\ next - 1 \in Nat
      BY DEF HandleValid, Inv, HandlesKnown, Types
    <2>2. PICK s \in Nat : s < next - 1 /\ Numbered(k.h, s)
      BY Zenon DEF Inv, HandlesKnown
    <2>3. s = next - 1
      BY <2>1, <2>2, NumberedOnce, Zenon
    <2> QED
      BY <2>1, <2>2, <2>3
  <1> QED
    BY <1>1, Invariance, PTL

=============================================================================
