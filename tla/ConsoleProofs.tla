--------------------------- MODULE ConsoleProofs ---------------------------
(***************************************************************************)
(* The console queue keeps sessions apart and loses, doubles or reorders    *)
(* nothing, for any number of writers, slots and records.                   *)
(***************************************************************************)
EXTENDS Console, TLAPS

Opened == stats["opened"]

(* The generation of the e-th session.  The code tells sessions apart by    *)
(* their generation, which is enough while it does not repeat.              *)
Gen(e) == IF FirstGeneration + e <= Generation THEN FirstGeneration + e
          ELSE FirstGeneration + e - Generation

SessionWord == [generation : 0 .. Generation, open : BOOLEAN]

Frame == [generation : 1 .. Generation, sequence : Nat \ {0}, epoch : 1 .. MaxSessions]

OpenPcs == {"open", "openLock", "openPurge", "openPublish"}
ClosePcs == {"close", "closeLock", "closePurge"}
PeekPcs == {"peek", "peekLock", "peekHead", "write"}
CommitPcs == {"commit", "commitLock", "commitHead"}
LoopPcs == {"down", "loop", "serve", "opened", "enabled", "pump", "fatal", "exited", "stopped"}
OwnerPcs == OpenPcs \cup ClosePcs \cup PeekPcs \cup CommitPcs \cup LoopPcs

OwnerType == [pc : OwnerPcs, return : OwnerPcs, token : 0 .. Generation,
              record : Frame \cup {NoRecord}]
TransportType == [noAck : BOOLEAN, generation : 0 .. Generation, uncommitted : Nat,
                  failed : BOOLEAN]
WriterType == [pc : {"idle", "lock", "recheck", "add", "account"}, session : SessionWord,
               epoch : 0 .. MaxSessions, left : Nat, accepted : Nat]
StopType == [pc : {"running", "gate", "waiting", "returned"}, calls : Nat]

(* The types, without the bound on the sequence numbers. *)
Types ==
    /\ session \in SessionWord
    /\ queue \in Seq(Frame) /\ wire \in Seq(Frame)
    /\ nextSequence \in Nat /\ offered \in Nat
    /\ queueLock \in BOOLEAN /\ purged \in BOOLEAN
    /\ stats \in [Counters -> Nat]
    /\ writer \in [Writers -> WriterType]
    /\ owner \in OwnerType
    /\ transport \in TransportType
    /\ stop \in StopType

(* The session word carries the generation of the last session opened, and  *)
(* so does whatever was copied from it.                                     *)
Sessions ==
    /\ Opened \in 0 .. MaxSessions
    /\ session.generation = Gen(Opened)
    /\ session.open => Opened > 0
    /\ owner.pc \in {"openLock", "openPurge", "openPublish"} => Opened < MaxSessions
    /\ \A w \in Writers : writer[w].pc # "idle" =>
          /\ writer[w].epoch \in 1 .. Opened
          /\ writer[w].session = [generation |-> Gen(writer[w].epoch), open |-> TRUE]

(* The queue's lock has one holder. *)
InQueue(w) == writer[w].pc \in {"recheck", "add"}
OwnerInQueue == owner.pc \in {"openPurge", "closePurge", "peekHead", "commitHead"}
Locking ==
    /\ OwnerInQueue => queueLock
    /\ \A w \in Writers : InQueue(w) =>
          /\ queueLock /\ ~OwnerInQueue
          /\ \A v \in Writers \ {w} : ~InQueue(v)

(* The queue is the last Len(queue) records that were numbered, all of one   *)
(* session.                                                                 *)
QueueShape ==
    /\ Len(queue) <= Slots /\ stats["depth"] = Len(queue)
    /\ \A i \in 1 .. Len(queue) :
          /\ queue[i].sequence = nextSequence - Len(queue) + i
          /\ queue[i].epoch = queue[1].epoch
          /\ queue[i].epoch <= Opened
          /\ queue[i].generation = Gen(queue[i].epoch)

(* A writer that found its session open adds no record behind one of a      *)
(* later session; and once the session has sent a frame, or is sending one, *)
(* the only writer that can be adding is one of that session.               *)
Adding ==
    \A w \in Writers : writer[w].pc = "add" =>
        /\ \A i \in 1 .. Len(queue) : queue[i].epoch <= writer[w].epoch
        /\ wire # <<>> \/ owner.pc = "write" => writer[w].epoch = Opened

(* What the owner's position says about the transport and the session. *)
Owning ==
    /\ transport.generation # 0 => transport.generation = session.generation
    /\ transport.generation = 0 => transport.uncommitted = 0
    /\ owner.pc \in OpenPcs \cup ClosePcs \cup {"down", "stopped"} => transport.generation = 0
    /\ owner.pc \in PeekPcs \cup CommitPcs \cup {"pump"} => transport.generation # 0
    /\ transport.failed => owner.pc = "fatal"
    /\ owner.pc \in PeekPcs => transport.uncommitted = 0
    /\ owner.pc \in CommitPcs => transport.uncommitted # 0
    /\ owner.pc \in OpenPcs => owner.return \in {"opened", "enabled"}
    /\ owner.pc \in ClosePcs => owner.return \in {"loop", "down", "stopped"}
    /\ owner.pc \in {"closeLock", "closePurge"} => ~session.open
    /\ session.open => \/ transport.generation = session.generation
                       \/ owner.pc = "close" /\ owner.token = session.generation
    /\ stop.pc = "returned" => owner.pc = "stopped"

(* The frame being written, or written and not committed, is the head of    *)
(* the queue.                                                               *)
HeadKept ==
    /\ owner.pc = "write" =>
          queue # <<>> /\ queue[1] = owner.record /\ queue[1].epoch = Opened
    /\ transport.uncommitted # 0 =>
          queue # <<>> /\ queue[1].sequence = transport.uncommitted /\ queue[1].epoch = Opened

(* The frames sent are a run of this session's records, and while the       *)
(* connection is healthy the queue continues it.                            *)
WireShape ==
    /\ \A i \in 1 .. Len(wire) :
          wire[i].epoch = Opened /\ wire[i].sequence = wire[1].sequence + i - 1
    /\ wire # <<>> /\ transport.generation # 0 /\ ~transport.failed =>
          /\ wire[Len(wire)].sequence = nextSequence - Len(queue)
                 + (IF transport.uncommitted # 0 THEN 1 ELSE 0)
          /\ \A i \in 1 .. Len(queue) : queue[i].epoch = Opened

(* After a purge nobody is left who could add to the queue. *)
Purged ==
    purged => /\ ~session.open /\ queue = <<>>
              /\ \A w \in Writers : writer[w].pc # "add"

Inv == /\ Types /\ Sessions /\ Locking /\ QueueShape /\ Adding /\ Owning
       /\ HeadKept /\ WireShape /\ Purged

-----------------------------------------------------------------------------
(* Generations do not repeat within MaxSessions sessions. *)
LEMMA GenType ==
    ASSUME ConsoleConstants, NEW e \in 1 .. MaxSessions
    PROVE  Gen(e) \in 1 .. Generation
  BY DEF ConsoleConstants, Gen

LEMMA GenInjective ==
    ASSUME ConsoleConstants, NEW e \in 1 .. MaxSessions, NEW f \in 1 .. MaxSessions,
           Gen(e) = Gen(f)
    PROVE  e = f
  BY DEF ConsoleConstants, Gen

LEMMA GenNext ==
    ASSUME ConsoleConstants, NEW e \in 0 .. MaxSessions - 1
    PROVE  NextGeneration(Gen(e)) = Gen(e + 1)
  BY DEF ConsoleConstants, Gen, NextGeneration

LEMMA MinOfTwo ==
    ASSUME NEW a \in Int, NEW b \in Int
    PROVE  Min({a, b}) = IF a <= b THEN a ELSE b
  BY DEF Min

(* The purge from the head keeps all of the queue or nothing of it. *)
LEMMA KeptIs ==
    ASSUME ConsoleConstants, Types, Sessions, QueueShape, NEW e \in 1 .. MaxSessions
    PROVE  Kept(Gen(e)) = IF queue # <<>> /\ queue[1].epoch = e THEN queue ELSE <<>>
  <1> DEFINE mine == {i \in DOMAIN queue : queue[i].generation = Gen(e)}
  <1>1. DOMAIN queue = 1 .. Len(queue) /\ Len(queue) \in Nat
    BY DEF Types
  <1>2. \A i \in 1 .. Len(queue) : queue[i].generation = Gen(e) <=> queue[1].epoch = e
    <2> TAKE i \in 1 .. Len(queue)
    <2>1. queue[i] \in Frame /\ queue[1] \in Frame
      BY DEF Types
    <2>2. queue[i].generation = Gen(queue[1].epoch) /\ queue[1].epoch \in 1 .. MaxSessions
      BY <2>1, Zenon DEF QueueShape, Frame
    <2> QED
      BY <2>2, GenInjective, Zenon
  <1>3. CASE queue # <<>> /\ queue[1].epoch = e
    <2>1. mine = 1 .. Len(queue)
      BY <1>1, <1>2, <1>3, Zenon
    <2>2. Len(queue) >= 1
      BY <1>1, <1>3 DEF Types
    <2>3. Min(mine) = 1
      BY <1>1, <2>1, <2>2 DEF Min
    <2>4. SubSeq(queue, 1, Len(queue)) = queue
      BY DEF Types
    <2>5. mine # {}
      BY <2>1, <2>2, <1>1
    <2>6. Kept(Gen(e)) = SubSeq(queue, Min(mine), Len(queue))
      BY <2>5, Zenon DEF Kept
    <2> QED
      BY <1>3, <2>3, <2>4, <2>6, Zenon
  <1>4. CASE ~(queue # <<>> /\ queue[1].epoch = e)
    <2>1. mine = {}
      BY <1>1, <1>2, <1>4 DEF Types
    <2> QED
      BY <2>1, <1>4, Zenon DEF Kept
  <1> QED
    BY <1>3, <1>4, Zenon

-----------------------------------------------------------------------------
(* Steps of the owner and of uvdb_stop_server that leave the queue alone. *)

Opening == owner.pc \in {"openLock", "openPurge", "openPublish"}
Healthy == transport.generation # 0 /\ ~transport.failed

LEMMA GotoIs ==
    ASSUME Inv, NEW p \in OwnerPcs, Goto(p)
    PROVE  /\ owner' \in OwnerType
           /\ owner'.pc = p /\ owner'.return = owner.return
           /\ owner'.token = owner.token /\ owner'.record = owner.record
  BY Zenon DEF Inv, Types, Goto, OwnerType

LEMMA CallIs ==
    ASSUME Inv, NEW p \in OwnerPcs, NEW r \in OwnerPcs, Call(p, r)
    PROVE  /\ owner' \in OwnerType
           /\ owner'.pc = p /\ owner'.return = r
           /\ owner'.token = owner.token /\ owner'.record = owner.record
  BY Zenon DEF Inv, Types, Call, OwnerType

LEMMA Pcs ==
    \A p \in {"open", "openLock", "openPurge", "openPublish", "close", "closeLock", "closePurge",
              "peek", "peekLock", "peekHead", "write", "commit", "commitLock", "commitHead",
              "down", "loop", "serve", "opened", "enabled", "pump", "fatal", "exited",
              "stopped"} : p \in OwnerPcs
  BY Zenon DEF OwnerPcs, OpenPcs, ClosePcs, PeekPcs, CommitPcs, LoopPcs

LEMMA Parts ==
    ASSUME Inv
    PROVE  /\ session \in SessionWord /\ owner \in OwnerType /\ transport \in TransportType
           /\ queueLock \in BOOLEAN /\ stop \in StopType
           /\ Sessions /\ Locking /\ Owning
  BY Zenon DEF Inv, Types

LEMMA QueueParts ==
    ASSUME Inv
    PROVE  /\ queue \in Seq(Frame) /\ wire \in Seq(Frame)
           /\ nextSequence \in Nat /\ offered \in Nat /\ purged \in BOOLEAN
           /\ stats \in [Counters -> Nat] /\ writer \in [Writers -> WriterType]
           /\ QueueShape /\ Adding /\ HeadKept /\ WireShape /\ Purged
  BY Zenon DEF Inv, Types

(* A record of the queue has its type. *)
LEMMA QueueTyped ==
    ASSUME Inv, NEW i \in 1 .. Len(queue)
    PROVE  /\ queue[i] \in Frame
           /\ queue[i].epoch \in 1 .. MaxSessions /\ queue[i].sequence \in Nat \ {0}
           /\ queue[i].generation \in 1 .. Generation
  <1>1. queue[i] \in Frame
    BY QueueParts
  <1> QED
    BY <1>1, Zenon DEF Frame

LEMMA SessionErrorIs ==
    ASSUME Inv, SessionError
    PROVE  /\ owner' \in OwnerType /\ owner'.pc = "fatal"
           /\ transport' \in TransportType /\ transport'.generation = transport.generation
           /\ transport'.uncommitted = 0 /\ transport'.failed
  BY GotoIs, Parts, Pcs, Zenon DEF SessionError, TransportType

(* The gate of the session may be closed; what was sent stays the head.     *)
LEMMA OwnerMoves ==
    ASSUME ConsoleConstants, Inv,
           UNCHANGED <<queue, nextSequence, stats, writer, offered, wire, purged>>,
           session' \in SessionWord, session'.generation = session.generation,
           session'.open => session.open,
           owner' \in OwnerType, transport' \in TransportType, queueLock' \in BOOLEAN,
           stop' \in StopType,
           Locking', Owning',
           Opening' => Opened < MaxSessions, owner'.pc = "write" => owner = owner',
           transport'.uncommitted \in {0, transport.uncommitted},
           Healthy' => Healthy /\ transport'.uncommitted = transport.uncommitted
    PROVE  Inv'
  <1>1. Types'
    BY Zenon DEF Inv, Types
  <1>2. Sessions'
    BY Zenon DEF Inv, Sessions, Opened, Opening
  <1>3. QueueShape'
    BY Zenon DEF Inv, QueueShape, Opened
  <1>4. Adding'
    BY Zenon DEF Inv, Adding, Opened
  <1>5. HeadKept'
    BY Zenon DEF Inv, HeadKept, Opened
  <1>6. WireShape'
    BY Zenon DEF Inv, WireShape, Opened, Healthy
  <1>7. Purged'
    BY Zenon DEF Inv, Purged
  <1> QED
    BY <1>1, <1>2, <1>3, <1>4, <1>5, <1>6, <1>7, Zenon DEF Inv

LEMMA OpenBusyStep ==
    ASSUME ConsoleConstants, Inv, OpenBusy
    PROVE  Inv'
  <1>1. /\ owner' \in OwnerType /\ owner'.pc \in {"opened", "enabled"}
        /\ owner.pc = "open" /\ owner'.return = owner.return
    BY Parts, Pcs, GotoIs, Zenon DEF OpenBusy, At, Return, Owning, OpenPcs
  <1>2. Locking'
    BY <1>1, Parts, Zenon DEF OpenBusy, Locking, OwnerInQueue, InQueue, Quiet
  <1>3. Owning'
    BY <1>1, Parts, Zenon DEF OpenBusy, Owning, Quiet, OpenPcs, ClosePcs, PeekPcs, CommitPcs
  <1> QED
    BY <1>1, <1>2, <1>3, Parts, OwnerMoves, Zenon
       DEF OpenBusy, Sessions, Quiet, Opening, Opened, Healthy, queueVars

LEMMA OpenBeginStep ==
    ASSUME ConsoleConstants, Inv, OpenBegin
    PROVE  Inv'
  <1>1. /\ owner' \in OwnerType /\ owner'.pc = "openLock"
        /\ owner'.return = owner.return /\ owner.pc = "open"
        /\ session' \in SessionWord /\ session'.generation = session.generation /\ ~session'.open
    BY Parts, Pcs, GotoIs, Zenon DEF OpenBegin, At, SessionWord
  <1>2. Locking'
    BY <1>1, Parts, Zenon DEF OpenBegin, Locking, OwnerInQueue, InQueue, Quiet
  <1>3. Owning'
    BY <1>1, Parts, Zenon DEF OpenBegin, Owning, Quiet, OpenPcs, ClosePcs, PeekPcs, CommitPcs
  <1> QED
    BY <1>1, <1>2, <1>3, Parts, OwnerMoves, Zenon
       DEF OpenBegin, Sessions, Quiet, Opening, Opened, Healthy, queueVars

LEMMA OpenLockStep ==
    ASSUME ConsoleConstants, Inv, OpenLock
    PROVE  Inv'
  <1>1. /\ owner' \in OwnerType
        /\ owner'.return = owner.return /\ owner.pc = "openLock"
        /\ \/ owner'.pc = "openPurge" /\ ~queueLock /\ queueLock' = TRUE
           \/ owner'.pc = "openPublish" /\ queueLock' = queueLock
    BY Parts, Pcs, GotoIs, Zenon DEF OpenLock, TryQueueLock, At
  <1>2. Locking'
    BY <1>1, Parts DEF OpenLock, TryQueueLock, Locking, OwnerInQueue, InQueue, Quiet
  <1>3. Owning'
    BY <1>1, Parts, Zenon DEF OpenLock, TryQueueLock, Owning, Quiet, OpenPcs, ClosePcs, PeekPcs, CommitPcs
  <1> QED
    BY <1>1, <1>2, <1>3, Parts, OwnerMoves, Zenon
       DEF OpenLock, TryQueueLock, Sessions, Quiet, Opening, Opened, Healthy, queueVars

LEMMA CloseGateStep ==
    ASSUME ConsoleConstants, Inv, CloseGate
    PROVE  Inv'
  <1>1. /\ owner' \in OwnerType /\ owner.pc = "close" /\ owner'.return = owner.return
        /\ owner.return \in {"loop", "down", "stopped"}
        /\ session' \in SessionWord /\ session'.generation = session.generation
        /\ \/ owner'.pc = "closeLock" /\ ~session'.open
           \/ owner'.pc = owner.return /\ session' = session /\ session.generation # owner.token
    BY Parts, Pcs, GotoIs, ZenonT(60) DEF CloseGate, Return, At, SessionWord, Owning, ClosePcs
  <1>2. Locking'
    BY <1>1, Parts, Zenon DEF CloseGate, Return, Locking, OwnerInQueue, InQueue, Quiet
  <1>3. Owning'
    BY <1>1, Parts, Zenon DEF CloseGate, Return, Owning, Quiet, OpenPcs, ClosePcs, PeekPcs, CommitPcs
  <1> QED
    BY <1>1, <1>2, <1>3, Parts, OwnerMoves, Zenon
       DEF CloseGate, Return, Sessions, Quiet, Opening, Opened, Healthy, queueVars

LEMMA CloseLockStep ==
    ASSUME ConsoleConstants, Inv, CloseLock
    PROVE  Inv'
  <1>1. /\ owner.return \in {"loop", "down", "stopped"}
        /\ owner' \in OwnerType
        /\ owner'.return = owner.return /\ owner.pc = "closeLock"
        /\ \/ owner'.pc = "closePurge" /\ ~queueLock /\ queueLock' = TRUE
           \/ owner'.pc = owner.return /\ queueLock' = queueLock
    BY Parts, Pcs, GotoIs, Zenon DEF CloseLock, TryQueueLock, Return, At, Owning, ClosePcs
  <1>2. Locking'
    BY <1>1, Parts DEF CloseLock, TryQueueLock, Return, Locking, OwnerInQueue, InQueue, Quiet
  <1>3. Owning'
    BY <1>1, Parts, Zenon DEF CloseLock, TryQueueLock, Return, Owning, Quiet, OpenPcs, ClosePcs, PeekPcs, CommitPcs
  <1> QED
    BY <1>1, <1>2, <1>3, Parts, OwnerMoves, Zenon
       DEF CloseLock, TryQueueLock, Return, Sessions, Quiet, Opening, Opened, Healthy, queueVars

LEMMA PumpStart ==
    ASSUME ConsoleConstants, Inv, Pump
    PROVE  Inv'
  <1>1. /\ owner' \in OwnerType /\ owner.pc = "serve"
        /\ \/ owner'.pc = "loop"
           \/ owner'.pc = "open" /\ owner'.return = "opened" /\ transport.generation = 0
           \/ owner'.pc = "pump" /\ transport.generation # 0
    BY Parts, Pcs, GotoIs, CallIs, Zenon DEF Pump, At
  <1>2. Locking'
    BY <1>1, Parts, Zenon DEF Pump, Locking, OwnerInQueue, InQueue, Quiet
  <1>3. Owning'
    BY <1>1, Parts, Zenon DEF Pump, Owning, Quiet, OpenPcs, ClosePcs, PeekPcs, CommitPcs
  <1> QED
    BY <1>1, <1>2, <1>3, Parts, OwnerMoves, Zenon
       DEF Pump, Sessions, Quiet, Opening, Opened, Healthy, queueVars

LEMMA PumpOpenedStep ==
    ASSUME ConsoleConstants, Inv, PumpOpened
    PROVE  Inv'
  <1>1. /\ owner' \in OwnerType /\ owner.pc = "opened"
        /\ \/ owner'.pc = "loop"
           \/ owner'.pc = "pump" /\ transport.generation # 0
    BY Parts, Pcs, GotoIs, Zenon DEF PumpOpened, At
  <1>2. Locking'
    BY <1>1, Parts, Zenon DEF PumpOpened, Locking, OwnerInQueue, InQueue, Quiet
  <1>3. Owning'
    BY <1>1, Parts, Zenon DEF PumpOpened, Owning, Quiet, OpenPcs, ClosePcs, PeekPcs, CommitPcs
  <1> QED
    BY <1>1, <1>2, <1>3, Parts, OwnerMoves, Zenon
       DEF PumpOpened, Sessions, Quiet, Opening, Opened, Healthy, queueVars

LEMMA PumpRecordStep ==
    ASSUME ConsoleConstants, Inv, PumpRecord
    PROVE  Inv'
  <1>1. /\ owner' \in OwnerType /\ owner.pc = "pump"
        /\ \/ owner'.pc = "commit" /\ transport.uncommitted # 0
           \/ owner'.pc = "peek" /\ transport.uncommitted = 0
    BY Parts, Pcs, GotoIs, Zenon DEF PumpRecord, PumpNext, At
  <1>2. Locking'
    BY <1>1, Parts, Zenon DEF PumpRecord, PumpNext, Locking, OwnerInQueue, InQueue, Quiet
  <1>3. Owning'
    BY <1>1, Parts, Zenon DEF PumpRecord, PumpNext, Owning, Quiet, OpenPcs, ClosePcs, PeekPcs, CommitPcs
  <1> QED
    BY <1>1, <1>2, <1>3, Parts, OwnerMoves, Zenon
       DEF PumpRecord, PumpNext, Sessions, Quiet, Opening, Opened, Healthy, queueVars

LEMMA CheckPeek ==
    ASSUME ConsoleConstants, Inv, CheckSession("peek", "peekLock")
    PROVE  Inv'
  <1>1. /\ owner' \in OwnerType /\ owner.pc = "peek" /\ transport' \in TransportType
        /\ \/ owner'.pc = "peekLock" /\ transport' = transport
           \/ /\ owner'.pc = "fatal" /\ transport'.generation = transport.generation
              /\ transport'.uncommitted = 0 /\ transport'.failed
    BY Parts, Pcs, GotoIs, SessionErrorIs, Zenon DEF CheckSession, At, TransportType
  <1>2. Locking'
    BY <1>1, Parts, Zenon DEF CheckSession, Locking, OwnerInQueue, InQueue, Quiet
  <1>3. Owning'
    BY <1>1, Parts, Zenon DEF CheckSession, Owning, Quiet, OpenPcs, ClosePcs, PeekPcs, CommitPcs
  <1> QED
    BY <1>1, <1>2, <1>3, Parts, OwnerMoves, Zenon
       DEF CheckSession, Sessions, Quiet, Opening, Opened, Healthy, queueVars

LEMMA CheckCommit ==
    ASSUME ConsoleConstants, Inv, CheckSession("commit", "commitLock")
    PROVE  Inv'
  <1>1. /\ owner' \in OwnerType /\ owner.pc = "commit" /\ transport' \in TransportType
        /\ \/ owner'.pc = "commitLock" /\ transport' = transport
           \/ /\ owner'.pc = "fatal" /\ transport'.generation = transport.generation
              /\ transport'.uncommitted = 0 /\ transport'.failed
    BY Parts, Pcs, GotoIs, SessionErrorIs, Zenon DEF CheckSession, At, TransportType
  <1>2. Locking'
    BY <1>1, Parts, Zenon DEF CheckSession, Locking, OwnerInQueue, InQueue, Quiet
  <1>3. Owning'
    BY <1>1, Parts, Zenon DEF CheckSession, Owning, Quiet, OpenPcs, ClosePcs, PeekPcs, CommitPcs
  <1> QED
    BY <1>1, <1>2, <1>3, Parts, OwnerMoves, Zenon
       DEF CheckSession, Sessions, Quiet, Opening, Opened, Healthy, queueVars

LEMMA LockPeekHead ==
    ASSUME ConsoleConstants, Inv, LockQueue("peekLock", "peekHead")
    PROVE  Inv'
  <1>1. /\ owner' \in OwnerType /\ owner.pc = "peekLock"
        /\ \/ owner'.pc = "peekHead" /\ ~queueLock /\ queueLock' = TRUE
           \/ owner'.pc = "loop" /\ queueLock' = queueLock
    BY Parts, Pcs, GotoIs, Zenon DEF LockQueue, TryQueueLock, At
  <1>2. Locking'
    BY <1>1, Parts DEF LockQueue, TryQueueLock, Locking, OwnerInQueue, InQueue, Quiet
  <1>3. Owning'
    BY <1>1, Parts, Zenon DEF LockQueue, TryQueueLock, Owning, Quiet, OpenPcs, ClosePcs, PeekPcs, CommitPcs
  <1> QED
    BY <1>1, <1>2, <1>3, Parts, OwnerMoves, Zenon
       DEF LockQueue, TryQueueLock, Sessions, Quiet, Opening, Opened, Healthy, queueVars

LEMMA LockCommitHead ==
    ASSUME ConsoleConstants, Inv, LockQueue("commitLock", "commitHead")
    PROVE  Inv'
  <1>1. /\ owner' \in OwnerType /\ owner.pc = "commitLock"
        /\ \/ owner'.pc = "commitHead" /\ ~queueLock /\ queueLock' = TRUE
           \/ owner'.pc = "loop" /\ queueLock' = queueLock
    BY Parts, Pcs, GotoIs, Zenon DEF LockQueue, TryQueueLock, At
  <1>2. Locking'
    BY <1>1, Parts DEF LockQueue, TryQueueLock, Locking, OwnerInQueue, InQueue, Quiet
  <1>3. Owning'
    BY <1>1, Parts, Zenon DEF LockQueue, TryQueueLock, Owning, Quiet, OpenPcs, ClosePcs, PeekPcs, CommitPcs
  <1> QED
    BY <1>1, <1>2, <1>3, Parts, OwnerMoves, Zenon
       DEF LockQueue, TryQueueLock, Sessions, Quiet, Opening, Opened, Healthy, queueVars

LEMMA FailedPeekHead ==
    ASSUME ConsoleConstants, Inv, RecheckFailed("peekHead")
    PROVE  Inv'
  <1>1. /\ owner' \in OwnerType /\ owner.pc = "peekHead" /\ transport' \in TransportType
        /\ owner'.pc = "fatal" /\ transport'.generation = transport.generation
        /\ transport'.uncommitted = 0 /\ transport'.failed /\ queueLock' = FALSE
    BY Parts, Pcs, GotoIs, SessionErrorIs, Zenon DEF RecheckFailed, At, TransportType
  <1>2. Locking'
    BY <1>1, Parts, Zenon DEF RecheckFailed, Locking, OwnerInQueue, InQueue, Quiet
  <1>3. Owning'
    BY <1>1, Parts, Zenon DEF RecheckFailed, Owning, Quiet, OpenPcs, ClosePcs, PeekPcs, CommitPcs
  <1> QED
    BY <1>1, <1>2, <1>3, Parts, OwnerMoves, Zenon
       DEF RecheckFailed, Sessions, Quiet, Opening, Opened, Healthy, queueVars

LEMMA FailedCommitHead ==
    ASSUME ConsoleConstants, Inv, RecheckFailed("commitHead")
    PROVE  Inv'
  <1>1. /\ owner' \in OwnerType /\ owner.pc = "commitHead" /\ transport' \in TransportType
        /\ owner'.pc = "fatal" /\ transport'.generation = transport.generation
        /\ transport'.uncommitted = 0 /\ transport'.failed /\ queueLock' = FALSE
    BY Parts, Pcs, GotoIs, SessionErrorIs, Zenon DEF RecheckFailed, At, TransportType
  <1>2. Locking'
    BY <1>1, Parts, Zenon DEF RecheckFailed, Locking, OwnerInQueue, InQueue, Quiet
  <1>3. Owning'
    BY <1>1, Parts, Zenon DEF RecheckFailed, Owning, Quiet, OpenPcs, ClosePcs, PeekPcs, CommitPcs
  <1> QED
    BY <1>1, <1>2, <1>3, Parts, OwnerMoves, Zenon
       DEF RecheckFailed, Sessions, Quiet, Opening, Opened, Healthy, queueVars

LEMMA WouldBlockStep ==
    ASSUME ConsoleConstants, Inv, WriteWouldBlock
    PROVE  Inv'
  <1>1. /\ owner' \in OwnerType /\ owner.pc = "write" /\ owner'.pc = "loop"
    BY Parts, Pcs, GotoIs, Zenon DEF WriteWouldBlock, At
  <1>2. Locking'
    BY <1>1, Parts, Zenon DEF WriteWouldBlock, Locking, OwnerInQueue, InQueue, Quiet
  <1>3. Owning'
    BY <1>1, Parts, Zenon DEF WriteWouldBlock, Owning, Quiet, OpenPcs, ClosePcs, PeekPcs, CommitPcs
  <1> QED
    BY <1>1, <1>2, <1>3, Parts, OwnerMoves, Zenon
       DEF WriteWouldBlock, Sessions, Quiet, Opening, Opened, Healthy, queueVars

LEMMA WriteFailedStep ==
    ASSUME ConsoleConstants, Inv, WriteFailed
    PROVE  Inv'
  <1>1. /\ owner' \in OwnerType /\ owner.pc = "write" /\ owner'.pc = "fatal"
        /\ transport' \in TransportType /\ transport'.generation = transport.generation
        /\ transport'.uncommitted = transport.uncommitted /\ transport'.failed
    BY Parts, Pcs, GotoIs, Zenon DEF WriteFailed, At, TransportType
  <1>2. Locking'
    BY <1>1, Parts, Zenon DEF WriteFailed, Locking, OwnerInQueue, InQueue, Quiet
  <1>3. Owning'
    BY <1>1, Parts, Zenon DEF WriteFailed, Owning, Quiet, OpenPcs, ClosePcs, PeekPcs, CommitPcs
  <1> QED
    BY <1>1, <1>2, <1>3, Parts, OwnerMoves, Zenon
       DEF WriteFailed, Sessions, Quiet, Opening, Opened, Healthy, queueVars

LEMMA ExitStep ==
    ASSUME ConsoleConstants, Inv, Exit
    PROVE  Inv'
  <1>1. /\ owner' \in OwnerType /\ owner.pc = "down" /\ owner'.pc = "stopped"
    BY Parts, Pcs, GotoIs, Zenon DEF Exit, At
  <1>2. Locking'
    BY <1>1, Parts, Zenon DEF Exit, Locking, OwnerInQueue, InQueue, Quiet
  <1>3. Owning'
    BY <1>1, Parts, Zenon DEF Exit, Owning, Quiet, OpenPcs, ClosePcs, PeekPcs, CommitPcs
  <1> QED
    BY <1>1, <1>2, <1>3, Parts, OwnerMoves, Zenon
       DEF Exit, Sessions, Quiet, Opening, Opened, Healthy, queueVars

LEMMA LoopTopStep ==
    ASSUME ConsoleConstants, Inv, LoopTop
    PROVE  Inv'
  <1>1. /\ owner' \in OwnerType /\ owner.pc = "loop" /\ owner'.pc \in {"exited", "serve"}
    BY Parts, Pcs, GotoIs, Zenon DEF LoopTop, At
  <1>2. Locking'
    BY <1>1, Parts, Zenon DEF LoopTop, Locking, OwnerInQueue, InQueue, Quiet
  <1>3. Owning'
    BY <1>1, Parts, Zenon DEF LoopTop, Owning, Quiet, OpenPcs, ClosePcs, PeekPcs, CommitPcs
  <1> QED
    BY <1>1, <1>2, <1>3, Parts, OwnerMoves, Zenon
       DEF LoopTop, Sessions, Quiet, Opening, Opened, Healthy, queueVars

LEMMA EnableNoAckStep ==
    ASSUME ConsoleConstants, Inv, EnableNoAck
    PROVE  Inv'
  <1>1. /\ owner' \in OwnerType /\ owner.pc = "serve" /\ transport' \in TransportType
        /\ transport'.generation = transport.generation
        /\ transport'.uncommitted = transport.uncommitted /\ transport'.failed = transport.failed
        /\ \/ owner'.pc = "open" /\ owner'.return = "enabled" /\ transport.generation = 0
           \/ owner'.pc = "enabled"
    BY Parts, Pcs, GotoIs, CallIs, Zenon DEF EnableNoAck, At, TransportType
  <1>2. Locking'
    BY <1>1, Parts, Zenon DEF EnableNoAck, Locking, OwnerInQueue, InQueue, Quiet
  <1>3. Owning'
    BY <1>1, Parts, Zenon DEF EnableNoAck, Owning, Quiet, OpenPcs, ClosePcs, PeekPcs, CommitPcs
  <1> QED
    BY <1>1, <1>2, <1>3, Parts, OwnerMoves, Zenon
       DEF EnableNoAck, Sessions, Quiet, Opening, Opened, Healthy, queueVars

LEMMA EndConnectionStep ==
    ASSUME ConsoleConstants, Inv, NEW r \in {"loop", "down", "stopped"}, EndConnection(r),
           owner.pc \in {"down", "serve", "enabled", "fatal", "exited"}
    PROVE  Inv'
  <1>1. /\ owner' \in OwnerType /\ transport' \in TransportType
        /\ owner'.return = r /\ owner'.token = transport.generation
        /\ owner'.pc = IF transport.generation = 0 THEN r ELSE "close"
        /\ transport'.generation = 0 /\ transport'.uncommitted = 0 /\ ~transport'.failed
    BY Parts, Pcs, 0 \in Nat DEF EndConnection, OwnerType, TransportType, ConsoleConstants
  <1>2. Locking'
    BY <1>1, Parts, Zenon DEF EndConnection, Locking, OwnerInQueue, InQueue, Quiet
  <1>3. Owning'
    BY <1>1, Parts, Zenon DEF EndConnection, Owning, Quiet, OpenPcs, ClosePcs, PeekPcs, CommitPcs
  <1> QED
    BY <1>1, <1>2, <1>3, Parts, OwnerMoves, Zenon
       DEF EndConnection, Sessions, Quiet, Opening, Opened, Healthy, queueVars

LEMMA EnabledStep ==
    ASSUME ConsoleConstants, Inv, Enabled
    PROVE  Inv'
  <1>1. CASE ServerStop /\ EndConnection("down")
    BY <1>1, EndConnectionStep, Zenon DEF Enabled, At
  <1>2. CASE Goto("loop") /\ Quiet /\ UNCHANGED <<session, queueVars, queueLock, stats, transport,
                                                 wire, purged>>
    <2>1. owner' \in OwnerType /\ owner.pc = "enabled" /\ owner'.pc = "loop"
      BY <1>2, Parts, Pcs, GotoIs, Zenon DEF Enabled, At
    <2>2. Locking'
      BY <1>2, <2>1, Parts, Zenon DEF Locking, OwnerInQueue, InQueue, Quiet
    <2>3. Owning'
      BY <1>2, <2>1, Parts, Zenon DEF Owning, Quiet, OpenPcs, ClosePcs, PeekPcs, CommitPcs
    <2> QED
      BY <1>2, <2>1, <2>2, <2>3, Parts, OwnerMoves, Zenon
         DEF Sessions, Quiet, Opening, Opened, Healthy, queueVars
  <1> QED
    BY <1>1, <1>2, Zenon DEF Enabled

LEMMA ConnectionEnds ==
    ASSUME ConsoleConstants, Inv,
           Accept \/ EnableRefused \/ Disconnect \/ PumpFatal \/ CloseSocket
    PROVE  Inv'
  BY EndConnectionStep, Zenon DEF Accept, EnableRefused, Disconnect, PumpFatal, CloseSocket, At

(* uvdb_stop_server and uvdb_start_server. *)
LEMMA StopStep ==
    ASSUME ConsoleConstants, Inv, StopServer \/ StopGate \/ StopReturn \/ StartServer
    PROVE  Inv'
  <1>1. CASE StopServer
    <2>1. stop' \in StopType /\ stop'.pc = "gate"
      BY <1>1, Parts DEF StopServer, StopType
    <2> QED
      BY <1>1, <2>1, Parts, OwnerMoves
         DEF StopServer, Sessions, Opening, Opened, Healthy, queueVars, ownerVars, Locking,
             OwnerInQueue, InQueue, Owning
  <1>2. CASE StopGate
    <2>1. /\ stop' \in StopType /\ stop'.pc = "waiting"
          /\ session' \in SessionWord /\ session'.generation = session.generation /\ ~session'.open
      BY <1>2, Parts, Zenon DEF StopGate, StopType, SessionWord
    <2> QED
      BY <1>2, <2>1, Parts, OwnerMoves
         DEF StopGate, Sessions, Opening, Opened, Healthy, queueVars, ownerVars, Locking,
             OwnerInQueue, InQueue, Owning
  <1>3. CASE StopReturn
    <2>1. stop' \in StopType /\ owner.pc = "stopped"
      BY <1>3, Parts, Zenon DEF StopReturn, StopType, At
    <2> QED
      BY <1>3, <2>1, Parts, OwnerMoves, Zenon
         DEF StopReturn, Sessions, Opening, Opened, Healthy, queueVars, ownerVars, Locking,
             OwnerInQueue, InQueue, Owning
  <1>4. CASE StartServer
    <2>1. /\ stop' \in StopType /\ stop'.pc = "running"
          /\ owner' \in OwnerType /\ owner.pc = "stopped" /\ owner'.pc = "down"
      BY <1>4, Parts, Pcs, GotoIs, Zenon DEF StartServer, StopType, Owning
    <2>2. Locking'
      BY <1>4, <2>1, Parts, Zenon DEF StartServer, Locking, OwnerInQueue, InQueue
    <2>3. Owning'
      BY <1>4, <2>1, Parts, Zenon DEF StartServer, Owning, OpenPcs, ClosePcs, PeekPcs, CommitPcs
    <2> QED
      BY <1>4, <2>1, <2>2, <2>3, Parts, OwnerMoves, Zenon
         DEF StartServer, Sessions, Opening, Opened, Healthy, queueVars
  <1> QED
    BY <1>1, <1>2, <1>3, <1>4, Zenon

-----------------------------------------------------------------------------
(* Steps of the owner that change the queue or the wire. *)

LEMMA PurgeStep ==
    ASSUME ConsoleConstants, Inv, OpenPurge \/ ClosePurge
    PROVE  Inv'
  <1>1. /\ queue' = <<>> /\ queueLock' = FALSE
        /\ stats' = [stats EXCEPT !["stale"] = @ + Len(queue), !["depth"] = Len(<<>>)]
        /\ UNCHANGED <<session, nextSequence, transport, wire, writer, stop, offered>>
    BY Zenon DEF OpenPurge, ClosePurge, Leave, Quiet
  <1>2. /\ owner' \in OwnerType /\ owner'.return = owner.return
        /\ transport.generation = 0
        /\ \/ owner.pc = "openPurge" /\ owner'.pc = "openPublish" /\ purged' = purged
           \/ /\ owner.pc = "closePurge" /\ owner'.pc \in {"loop", "down", "stopped"}
              /\ purged' = TRUE /\ ~session.open
    BY Parts, Pcs, GotoIs, Zenon DEF OpenPurge, ClosePurge, At, Return, Owning, OpenPcs, ClosePcs
  <1>3. /\ stats' \in [Counters -> Nat] /\ Opened' = Opened
        /\ stats'["depth"] = 0
    <2>1. stats \in [Counters -> Nat] /\ Len(queue) \in Nat /\ Len(<<>>) = 0
      BY QueueParts
    <2> QED
      BY <1>1, <2>1 DEF Opened, Counters
  <1>4. \A w \in Writers : ~InQueue(w)
    BY <1>2, Parts, Zenon DEF Locking, OwnerInQueue
  <1>5. Types'
    <2>1. queue' \in Seq(Frame)
      BY <1>1
    <2> QED
      BY <1>1, <1>2, <1>3, <2>1, Parts, QueueParts, Zenon DEF Types
  <1>6. Sessions'
    BY <1>1, <1>2, <1>3, Parts, Zenon DEF Sessions
  <1>7. Locking'
    BY <1>1, <1>2, <1>4, Zenon DEF Locking, OwnerInQueue, InQueue
  <1>8. QueueShape'
    BY <1>1, <1>3 DEF QueueShape, ConsoleConstants
  <1>9. Adding' /\ Purged'
    BY <1>1, <1>2, <1>4 DEF Adding, Purged, InQueue, Inv
  <1>10. Owning'
    BY <1>1, <1>2, Parts, Zenon DEF Owning, OpenPcs, ClosePcs, PeekPcs, CommitPcs
  <1>11. HeadKept'
    BY <1>1, <1>2, Parts, Zenon DEF HeadKept, Owning
  <1>12. WireShape'
    BY <1>1, <1>2, <1>3, Zenon DEF WireShape, Inv
  <1> QED
    BY <1>5, <1>6, <1>7, <1>8, <1>9, <1>10, <1>11, <1>12, Zenon DEF Inv

LEMMA OpenPublishStep ==
    ASSUME ConsoleConstants, Inv, OpenPublish
    PROVE  Inv'
  <1>1. Opened \in 0 .. MaxSessions - 1 /\ session.generation = Gen(Opened)
    BY Parts DEF OpenPublish, At, Sessions, ConsoleConstants
  <1>2. /\ stats' \in [Counters -> Nat] /\ Opened' = Opened + 1
        /\ stats'["depth"] = stats["depth"]
    BY QueueParts, SMTT(60) DEF OpenPublish, Count, Opened, Counters
  <1>3. NextGeneration(session.generation) = Gen(Opened + 1) /\ Gen(Opened + 1) \in 1 .. Generation
    BY <1>1, GenNext, GenType DEF ConsoleConstants
  <1>4. /\ session' = [generation |-> Gen(Opened + 1), open |-> TRUE]
        /\ transport' \in TransportType /\ transport'.generation = Gen(Opened + 1)
        /\ transport'.uncommitted = 0 /\ ~transport'.failed
        /\ wire' = <<>> /\ purged' = FALSE
        /\ UNCHANGED <<queue, nextSequence, queueLock, writer, stop, offered>>
    <2>1. /\ transport' = [transport EXCEPT !.generation = Gen(Opened + 1)]
          /\ transport \in TransportType
          /\ transport.uncommitted = 0 /\ ~transport.failed
      BY <1>3, Parts, Zenon DEF OpenPublish, Owning, At, OpenPcs
    <2>2. /\ transport' \in TransportType /\ transport'.generation = Gen(Opened + 1)
          /\ transport'.uncommitted = 0 /\ ~transport'.failed
      BY <1>3, <2>1 DEF TransportType
    <2> QED
      BY <1>3, <2>2, Zenon DEF OpenPublish, queueVars, Quiet
  <1>5. /\ owner' \in OwnerType /\ owner'.return = owner.return
        /\ owner.pc = "openPublish" /\ owner'.pc \in {"opened", "enabled"}
    BY Parts, Pcs, GotoIs, Zenon DEF OpenPublish, At, Return, Owning, OpenPcs
  <1>6. Types'
    <2>1. session' \in SessionWord /\ <<>> \in Seq(Frame)
      BY <1>3, <1>4 DEF SessionWord
    <2> QED
      BY <1>2, <1>4, <1>5, <2>1, Parts, QueueParts, Zenon DEF Types
  <1>7. Sessions'
    BY <1>1, <1>2, <1>4, <1>5, Parts DEF Sessions, ConsoleConstants
  <1>8. Locking'
    BY <1>4, <1>5, Parts, Zenon DEF Locking, OwnerInQueue, InQueue
  <1>9. QueueShape'
    <2>1. \A i \in 1 .. Len(queue) : queue[i].epoch <= Opened'
      <3>1. SUFFICES ASSUME NEW i \in 1 .. Len(queue)
                     PROVE  queue[i].epoch <= Opened'
        OBVIOUS
      <3>2. queue[i].epoch \in Nat /\ queue[i].epoch <= Opened
        BY QueueTyped, QueueParts DEF QueueShape
      <3> QED
        BY <1>1, <1>2, <3>2
    <2>2. stats'["depth"] = stats["depth"]
      BY <1>2
    <2> QED
      BY <1>4, <2>1, <2>2, QueueParts, Zenon DEF QueueShape
  <1>10. Adding'
    BY <1>2, <1>4, <1>5, Zenon DEF Adding, Inv
  <1>11. Owning'
    BY <1>3, <1>4, <1>5, Parts, Zenon DEF Owning, OpenPcs, ClosePcs, PeekPcs, CommitPcs
  <1>12. HeadKept' /\ WireShape' /\ Purged'
    BY <1>4, <1>5 DEF HeadKept, WireShape, Purged
  <1> QED
    BY <1>6, <1>7, <1>8, <1>9, <1>10, <1>11, <1>12, Zenon DEF Inv

(* The owner reads the head of the queue: it purges what is not of its      *)
(* session, and what is left begins with the record it sends.               *)
LEMMA ExpectedIs ==
    ASSUME ConsoleConstants, Inv, session = Expected
    PROVE  /\ session.open /\ Opened \in 1 .. MaxSessions
           /\ transport.generation = Gen(Opened) /\ transport.generation # 0
           /\ ~purged
           /\ Kept(transport.generation) =
                IF queue # <<>> /\ queue[1].epoch = Opened THEN queue ELSE <<>>
  <1>1. session.open /\ session.generation = transport.generation
    BY Zenon DEF Expected
  <1>2. Opened \in 1 .. MaxSessions /\ session.generation = Gen(Opened)
    BY <1>1, Parts DEF Sessions, ConsoleConstants
  <1>3. Gen(Opened) # 0
    BY <1>2, GenType DEF ConsoleConstants
  <1>4. ~purged
    BY <1>1, QueueParts, Zenon DEF Purged
  <1>5. Types /\ Sessions /\ QueueShape
    BY Zenon DEF Inv
  <1> QED
    BY <1>1, <1>2, <1>3, <1>4, <1>5, KeptIs, Zenon

LEMMA PeekHeadStep ==
    ASSUME ConsoleConstants, Inv, PeekHead
    PROVE  Inv'
  <1> DEFINE kept == IF queue # <<>> /\ queue[1].epoch = Opened THEN queue ELSE <<>>
  <1>1. /\ owner.pc = "peekHead" /\ session.open /\ Opened \in 1 .. MaxSessions
        /\ transport.generation = Gen(Opened) /\ transport.generation # 0 /\ ~purged
        /\ Kept(transport.generation) = kept
    BY ExpectedIs, Zenon DEF PeekHead, At
  <1>2. /\ queue' = kept /\ queueLock' = FALSE
        /\ stats' = [stats EXCEPT !["stale"] = @ + (Len(queue) - Len(kept)),
                                  !["depth"] = Len(kept)]
        /\ UNCHANGED <<session, nextSequence, transport, wire, purged, writer, stop, offered>>
    BY <1>1, Zenon DEF PeekHead, Leave, Quiet
  <1>3. /\ kept \in Seq(Frame) /\ Len(kept) \in Nat /\ Len(queue) - Len(kept) \in Nat
        /\ kept # <<>> => kept = queue
        /\ kept = <<>> => Len(kept) = 0
        /\ kept # <<>> => Len(kept) >= 1 /\ kept[1].epoch = Opened /\ kept[1] \in Frame
                          /\ Head(kept) = kept[1]
    BY QueueParts
  <1>4. /\ stats' \in [Counters -> Nat] /\ Opened' = Opened
        /\ stats'["depth"] = Len(kept)
    <2>1. stats \in [Counters -> Nat]
      BY QueueParts, Zenon
    <2> HIDE DEF kept
    <2> QED
      BY <1>2, <1>3, <2>1 DEF Opened, Counters
  <1>5. /\ owner' \in OwnerType
        /\ \/ kept = <<>> /\ owner'.pc = "loop"
           \/ kept # <<>> /\ owner'.pc = "write" /\ owner'.record = kept[1]
    <2>1. CASE kept = <<>>
      <3>1. Goto("loop")
        BY <1>1, <2>1, Zenon DEF PeekHead
      <3> QED
        BY <3>1, <2>1, GotoIs, Pcs, Zenon
    <2>2. CASE kept # <<>>
      <3>1. owner' = [owner EXCEPT !.pc = "write", !.record = kept[1]]
        BY <1>1, <1>3, <2>2, Zenon DEF PeekHead
      <3>2. owner \in OwnerType /\ "write" \in OwnerPcs /\ kept[1] \in Frame
        BY <1>3, <2>2, Parts, Pcs, Zenon
      <3> HIDE DEF kept
      <3> QED
        BY <3>1, <3>2, <2>2, Zenon DEF OwnerType
    <2> QED
      BY <2>1, <2>2, Zenon
  <1>6. \A w \in Writers : ~InQueue(w)
    BY <1>1, Parts, Zenon DEF Locking, OwnerInQueue
  <1>7. Types'
    <2> HIDE DEF kept
    <2> QED
      BY <1>2, <1>3, <1>4, <1>5, Parts, QueueParts, Zenon DEF Types
  <1>8. Sessions'
    BY <1>2, <1>4, <1>5, Parts DEF Sessions
  <1>9. Locking'
    BY <1>2, <1>5, <1>6 DEF Locking, OwnerInQueue, InQueue
  <1>10. QueueShape'
    <2>1. Len(<<>>) = 0
      BY Zenon
    <2> QED
      BY <1>2, <1>4, <2>1, QueueParts, SMTT(20) DEF QueueShape, ConsoleConstants
  <1>11. Adding' /\ Purged'
    BY <1>1, <1>2, <1>6, Zenon DEF Adding, Purged, InQueue
  <1>12. transport.uncommitted = 0
    BY <1>1, Parts, Zenon DEF Owning, PeekPcs
  <1>13. Owning'
    BY <1>1, <1>2, <1>5, <1>12, Parts, Zenon DEF Owning, OpenPcs, ClosePcs, PeekPcs, CommitPcs
  <1>14. HeadKept'
    <2> HIDE DEF kept
    <2> QED
      BY <1>2, <1>3, <1>4, <1>5, <1>12, Zenon DEF HeadKept
  <1>15. WireShape'
    <2>1. ~transport.failed /\ WireShape
      BY <1>1, Parts, QueueParts, Zenon DEF Owning
    <2>2. CASE kept = queue
      BY <1>2, <1>4, <2>1, <2>2, Zenon DEF WireShape
    <2>3. CASE kept = <<>>
      <3>1. wire # <<>> => queue = <<>>
        BY <1>1, <2>1, <2>3, QueueParts, SMTT(20) DEF WireShape
      <3> QED
        BY <1>2, <1>4, <2>1, <2>3, <3>1 DEF WireShape
    <2> QED
      BY <2>2, <2>3, Zenon
  <1> QED
    BY <1>7, <1>8, <1>9, <1>10, <1>11, <1>13, <1>14, <1>15, Zenon DEF Inv

LEMMA AppendIs ==
    ASSUME NEW S, NEW s \in Seq(S), NEW f \in S
    PROVE  /\ Append(s, f) \in Seq(S) /\ Len(s) \in Nat /\ Len(Append(s, f)) = Len(s) + 1
           /\ Append(s, f) # <<>>
           /\ \A i \in 1 .. Len(s) : Append(s, f)[i] = s[i]
           /\ Append(s, f)[Len(s) + 1] = f
  OBVIOUS

LEMMA FrameAt ==
    ASSUME NEW s \in Seq(Frame), NEW i \in 1 .. Len(s)
    PROVE  s[i] \in Frame /\ s[i].sequence \in Nat /\ s[i].epoch \in 1 .. MaxSessions
  <1>1. s[i] \in Frame
    OBVIOUS
  <1> QED
    BY <1>1, Zenon DEF Frame

(* The frame goes out: it becomes the last of the wire and stays the head.  *)
LEMMA WriteCompleteStep ==
    ASSUME ConsoleConstants, Inv, WriteComplete
    PROVE  Inv'
  <1>1. /\ owner.pc = "write" /\ transport.generation # 0 /\ transport.uncommitted = 0
        /\ ~transport.failed
    BY Parts, Zenon DEF WriteComplete, At, Owning, PeekPcs
  <1>2. /\ queue # <<>> /\ queue[1] = owner.record /\ queue[1].epoch = Opened
        /\ Len(queue) \in Nat \ {0} /\ queue[1] \in Frame
        /\ queue[1].sequence \in Nat \ {0}
        /\ queue[1].sequence = nextSequence - Len(queue) + 1
    <2>1. queue # <<>> /\ queue[1] = owner.record /\ queue[1].epoch = Opened
      BY <1>1, QueueParts, Zenon DEF HeadKept
    <2>2. Len(queue) \in Nat \ {0}
      BY <2>1, QueueParts
    <2> QED
      BY <2>1, <2>2, QueueTyped, QueueParts DEF QueueShape
  <1>3. /\ wire' = Append(wire, queue[1])
        /\ transport' \in TransportType /\ transport'.generation = transport.generation
        /\ transport'.uncommitted = queue[1].sequence /\ transport'.failed = transport.failed
        /\ UNCHANGED <<session, queue, nextSequence, queueLock, stats, purged, writer, stop, offered>>
        /\ Opened' = Opened
    <2>1. transport' = [transport EXCEPT !.uncommitted = queue[1].sequence]
      BY <1>2, Zenon DEF WriteComplete
    <2>2. /\ transport' \in TransportType /\ transport'.generation = transport.generation
          /\ transport'.uncommitted = queue[1].sequence /\ transport'.failed = transport.failed
      BY <1>2, <2>1, Parts, Zenon DEF TransportType
    <2> QED
      BY <1>2, <2>2, Zenon DEF WriteComplete, Quiet, queueVars, Opened
  <1>4. owner' \in OwnerType /\ owner'.pc = "commit"
    BY GotoIs, Pcs, Zenon DEF WriteComplete
  <1>5. /\ wire \in Seq(Frame) /\ Len(wire) \in Nat /\ wire' \in Seq(Frame)
        /\ Len(wire') = Len(wire) + 1 /\ wire' # <<>>
        /\ \A i \in 1 .. Len(wire) : wire'[i] = wire[i]
        /\ wire'[Len(wire) + 1] = queue[1]
    <2>1. wire \in Seq(Frame) /\ queue[1] \in Frame /\ wire' = Append(wire, queue[1])
      BY <1>2, <1>3, QueueParts, Zenon
    <2> QED
      BY <2>1, AppendIs
  <1>6. Types'
    BY <1>3, <1>4, <1>5, Parts, QueueParts, Zenon DEF Types
  <1>7. Sessions'
    BY <1>3, <1>4, Parts, Zenon DEF Sessions
  <1>8. Locking'
    BY <1>1, <1>3, <1>4, Parts, Zenon DEF Locking, OwnerInQueue, InQueue
  <1>9. QueueShape' /\ Purged'
    BY <1>3, QueueParts, Zenon DEF QueueShape, Purged
  <1>10. Adding'
    BY <1>1, <1>3, QueueParts, Zenon DEF Adding
  <1>11. Owning'
    BY <1>1, <1>2, <1>3, <1>4, Parts, Zenon DEF Owning, OpenPcs, ClosePcs, PeekPcs, CommitPcs
  <1>12. HeadKept'
    BY <1>2, <1>3, <1>4, Zenon DEF HeadKept
  <1>13. WireShape'
    <2>1. /\ \A i \in 1 .. Len(wire) :
                wire[i].epoch = Opened /\ wire[i].sequence = wire[1].sequence + i - 1
          /\ wire # <<>> => wire[Len(wire)].sequence = nextSequence - Len(queue)
          /\ wire # <<>> => \A i \in 1 .. Len(queue) : queue[i].epoch = Opened
          /\ \A i \in 1 .. Len(queue) : queue[i].epoch = Opened
      BY <1>1, <1>2, QueueParts, SMTT(60) DEF WireShape, QueueShape
    <2>2. CASE wire = <<>>
      <3>1. Len(wire) = 0
        BY <2>2, Zenon
      <3> QED
        BY <1>2, <1>3, <1>5, <2>1, <3>1, QueueParts DEF WireShape
    <2>3. CASE wire # <<>>
      <3>1. Len(wire) \in Nat \ {0}
        BY <1>5, <2>3
      <3>2. wire[Len(wire)].sequence = wire[1].sequence + Len(wire) - 1
        BY <2>1, <3>1
      <3>3. wire[1].sequence \in Nat /\ nextSequence \in Nat
        BY <1>5, <3>1, QueueParts, FrameAt
      <3>4. wire'[1] = wire[1]
        BY <1>5, <3>1
      <3>5. \A i \in 1 .. Len(wire') :
               wire'[i].epoch = Opened /\ wire'[i].sequence = wire'[1].sequence + i - 1
        <4> TAKE i \in 1 .. Len(wire')
        <4>1. CASE i <= Len(wire)
          BY <1>5, <2>1, <3>4, <4>1
        <4>2. CASE i = Len(wire) + 1
          <5>1. wire'[i] = queue[1]
            BY <1>5, <4>2, Zenon
          <5>2. wire[Len(wire)].sequence = nextSequence - Len(queue)
            BY <2>1, <2>3, Zenon
          <5>3. Len(wire) \in Nat /\ Len(queue) \in Nat
            BY <1>2, <1>5
          <5> QED
            BY <1>2, <3>2, <3>3, <3>4, <4>2, <5>1, <5>2, <5>3
        <4> QED
          BY <4>1, <4>2, <1>5
      <3>6. wire'[Len(wire')].sequence = nextSequence - Len(queue) + 1
        BY <1>2, <1>5, Zenon
      <3> QED
        BY <1>2, <1>3, <2>1, <3>5, <3>6, Zenon DEF WireShape
    <2> QED
      BY <2>2, <2>3, Zenon
  <1> QED
    BY <1>6, <1>7, <1>8, <1>9, <1>10, <1>11, <1>12, <1>13, Zenon DEF Inv

LEMMA TailIs ==
    ASSUME NEW S, NEW s \in Seq(S), s # <<>>
    PROVE  /\ Tail(s) \in Seq(S) /\ Len(s) \in Nat \ {0} /\ Len(Tail(s)) = Len(s) - 1
           /\ \A i \in 1 .. Len(s) - 1 : Tail(s)[i] = s[i + 1]
  OBVIOUS

(* The commit finds the frame it sent at the head and takes it off.         *)
LEMMA CommitHeadStep ==
    ASSUME ConsoleConstants, Inv, CommitHead
    PROVE  Inv'
  <1>1. /\ owner.pc = "commitHead" /\ session.open /\ transport.generation # 0 /\ ~purged
        /\ transport.uncommitted # 0 /\ ~transport.failed
    BY ExpectedIs, Parts, Zenon DEF CommitHead, At, Owning, CommitPcs
  <1>2. /\ queue # <<>> /\ queue[1].sequence = transport.uncommitted /\ queue[1].epoch = Opened
        /\ queue \in Seq(Frame)
    BY <1>1, QueueParts, Zenon DEF HeadKept
  <1>3. Kept(transport.generation) = queue /\ Head(queue) = queue[1]
    BY <1>2, ExpectedIs DEF CommitHead
  <1>4. /\ queue' = Tail(queue) /\ queueLock' = FALSE
        /\ stats' = [stats EXCEPT !["stale"] = @ + (Len(queue) - Len(queue)), !["sent"] = @ + 1,
                                  !["depth"] = Len(queue) - 1]
        /\ transport' = [transport EXCEPT !.uncommitted = 0]
        /\ Goto("loop")
        /\ UNCHANGED <<session, nextSequence, wire, purged, writer, stop, offered>>
    BY <1>2, <1>3, Zenon DEF CommitHead, Quiet
  <1>5. /\ queue' \in Seq(Frame) /\ Len(queue) \in Nat \ {0} /\ Len(queue') = Len(queue) - 1
        /\ \A i \in 1 .. Len(queue') : queue'[i] = queue[i + 1] /\ i + 1 \in 1 .. Len(queue)
    BY <1>2, <1>4, TailIs
  <1>6. /\ stats' \in [Counters -> Nat] /\ Opened' = Opened
        /\ stats'["depth"] = Len(queue')
    <2>1. stats \in [Counters -> Nat] /\ Len(queue) - 1 \in Nat /\ Len(queue) - Len(queue) = 0
      BY <1>5, QueueParts
    <2> QED
      BY <1>4, <1>5, <2>1, SMTT(60) DEF Opened, Counters
  <1>7. /\ transport' \in TransportType /\ transport'.generation = transport.generation
        /\ transport'.uncommitted = 0 /\ transport'.failed = transport.failed
    BY <1>4, Parts, Zenon DEF TransportType
  <1>8. owner' \in OwnerType /\ owner'.pc = "loop"
    BY <1>4, GotoIs, Pcs, Zenon
  <1>9. \A w \in Writers : ~InQueue(w)
    BY <1>1, Parts, Zenon DEF Locking, OwnerInQueue
  <1>10. Types'
    BY <1>4, <1>5, <1>6, <1>7, <1>8, Parts, QueueParts, Zenon DEF Types
  <1>11. Sessions'
    BY <1>4, <1>6, <1>8, Parts, Zenon DEF Sessions
  <1>12. Locking'
    BY <1>4, <1>8, <1>9, Zenon DEF Locking, OwnerInQueue, InQueue
  <1>13. QueueShape'
    <2>1. /\ Len(queue) <= Slots /\ nextSequence \in Nat
          /\ \A i \in 1 .. Len(queue) :
                /\ queue[i].sequence = nextSequence - Len(queue) + i
                /\ queue[i].epoch = queue[1].epoch
                /\ queue[i].epoch <= Opened
                /\ queue[i].generation = Gen(queue[i].epoch)
      BY QueueParts, Zenon DEF QueueShape
    <2>2. Len(queue') <= Slots
      BY <1>5, <2>1 DEF ConsoleConstants
    <2>3. ASSUME NEW i \in 1 .. Len(queue')
          PROVE  /\ queue'[i].sequence = nextSequence - Len(queue') + i
                 /\ queue'[i].epoch = queue'[1].epoch
                 /\ queue'[i].epoch <= Opened
                 /\ queue'[i].generation = Gen(queue'[i].epoch)
      <3>1. 1 \in 1 .. Len(queue') /\ i \in Nat
        BY <1>5
      <3>2. queue'[i] = queue[i + 1] /\ queue'[1] = queue[1 + 1]
            /\ i + 1 \in 1 .. Len(queue) /\ 1 + 1 \in 1 .. Len(queue)
        BY <1>5, <3>1, Zenon
      <3>3. queue[i + 1].sequence = nextSequence - Len(queue) + (i + 1)
        BY <2>1, <3>2, Zenon
      <3> QED
        BY <1>5, <2>1, <3>1, <3>2, <3>3
    <2> QED
      BY <1>4, <1>6, <2>2, <2>3, Zenon DEF QueueShape
  <1>14. Adding' /\ Purged'
    BY <1>1, <1>4, <1>9, Zenon DEF Adding, Purged, InQueue
  <1>15. Owning'
    BY <1>1, <1>4, <1>7, <1>8, Parts, Zenon DEF Owning, OpenPcs, ClosePcs, PeekPcs, CommitPcs
  <1>16. HeadKept'
    BY <1>7, <1>8, Zenon DEF HeadKept
  <1>17. WireShape'
    <2>1. /\ \A i \in 1 .. Len(wire) :
                wire[i].epoch = Opened /\ wire[i].sequence = wire[1].sequence + i - 1
          /\ wire # <<>> => /\ wire[Len(wire)].sequence = nextSequence - Len(queue) + 1
                            /\ \A i \in 1 .. Len(queue) : queue[i].epoch = Opened
      BY <1>1, QueueParts, Zenon DEF WireShape
    <2>2. \A i \in 1 .. Len(queue') : wire # <<>> => queue'[i].epoch = Opened
      BY <1>5, <2>1
    <2>3. nextSequence - Len(queue) + 1 = nextSequence - Len(queue')
      BY <1>5, QueueParts
    <2>4. nextSequence - Len(queue') = nextSequence - Len(queue') + 0
      BY <1>5, QueueParts
    <2> QED
      BY <1>4, <1>6, <1>7, <2>1, <2>2, <2>3, <2>4, Zenon DEF WireShape
  <1> QED
    BY <1>10, <1>11, <1>12, <1>13, <1>14, <1>15, <1>16, <1>17, Zenon DEF Inv

-----------------------------------------------------------------------------
(* The steps of a writer.  Those that leave the queue alone: the call gets a *)
(* new record r.                                                            *)
LEMMA WriterMoves ==
    ASSUME ConsoleConstants, Inv, NEW w \in Writers, NEW r \in WriterType,
           writer' = [writer EXCEPT ![w] = r],
           UNCHANGED <<session, queue, nextSequence, owner, transport, stop, wire, purged>>,
           stats' \in [Counters -> Nat], Opened' = Opened, stats'["depth"] = stats["depth"],
           offered' \in Nat, queueLock' \in BOOLEAN,
           r.pc # "idle" => /\ r.epoch \in 1 .. Opened
                            /\ r.session = [generation |-> Gen(r.epoch), open |-> TRUE],
           r.pc \in {"recheck", "add"} =>
                /\ queueLock' /\ ~OwnerInQueue
                /\ \A v \in Writers \ {w} : ~InQueue(v),
           queueLock' = queueLock \/ r.pc = "recheck" \/ InQueue(w),
           r.pc = "add" => r.epoch = Opened /\ session.open
    PROVE  Inv'
  <1>1. /\ writer \in [Writers -> WriterType] /\ writer' \in [Writers -> WriterType]
        /\ writer'[w] = r
        /\ \A v \in Writers \ {w} : writer'[v] = writer[v]
    BY QueueParts, Zenon
  <1>2. Types'
    BY <1>1, Parts, QueueParts, Zenon DEF Types
  <1>3. Sessions'
    BY <1>1, Parts, Zenon DEF Sessions
  <1>4. Locking'
    <2>1. /\ OwnerInQueue' = OwnerInQueue
          /\ \A v \in Writers \ {w} : InQueue(v)' = InQueue(v)
          /\ InQueue(w)' <=> r.pc \in {"recheck", "add"}
      BY <1>1, Zenon DEF OwnerInQueue, InQueue
    <2>2. OwnerInQueue => queueLock'
      <3>1. OwnerInQueue => queueLock /\ ~InQueue(w)
        BY Parts, Zenon DEF Locking
      <3>2. CASE queueLock' = queueLock
        BY <3>1, <3>2, Zenon
      <3>3. CASE r.pc = "recheck" \/ InQueue(w)
        BY <3>1, <3>3, Zenon
      <3> QED
        BY <3>2, <3>3, Zenon
    <2>3. ASSUME NEW v \in Writers, InQueue(v)'
          PROVE  /\ queueLock' /\ ~OwnerInQueue
                 /\ \A u \in Writers \ {v} : ~InQueue(u)'
      <3>1. CASE v = w
        BY <2>1, <2>3, <3>1
      <3>2. CASE v # w
        BY <2>1, <2>3, <3>2, Parts, SMTT(20) DEF Locking
      <3> QED
        BY <3>1, <3>2, Zenon
    <2> QED
      BY <2>1, <2>2, <2>3, Zenon DEF Locking
  <1>5. QueueShape' /\ Owning' /\ HeadKept' /\ WireShape'
    BY Parts, QueueParts DEF QueueShape, Owning, HeadKept, WireShape
  <1>6. Adding'
    <2>1. \A i \in 1 .. Len(queue) : queue[i].epoch <= Opened
      BY QueueParts, Zenon DEF QueueShape
    <2>2. ASSUME NEW v \in Writers, writer'[v].pc = "add"
          PROVE  /\ \A i \in 1 .. Len(queue) : queue[i].epoch <= writer'[v].epoch
                 /\ wire # <<>> \/ owner.pc = "write" => writer'[v].epoch = Opened
      <3>1. CASE v = w
        BY <1>1, <2>1, <2>2, <3>1, Zenon
      <3>2. CASE v # w
        BY <1>1, <2>2, <3>2, QueueParts, Zenon DEF Adding
      <3> QED
        BY <3>1, <3>2, Zenon
    <2> QED
      BY <2>2, Zenon DEF Adding
  <1>7. Purged'
    BY <1>1, QueueParts, Zenon DEF Purged
  <1> QED
    BY <1>2, <1>3, <1>4, <1>5, <1>6, <1>7, Zenon DEF Inv

LEMMA WriterTyped ==
    ASSUME ConsoleConstants, Inv, NEW w \in Writers
    PROVE  /\ writer[w] \in WriterType /\ writer[w].left \in Nat /\ writer[w].accepted \in Nat
           /\ writer[w].pc # "idle" =>
                /\ writer[w].epoch \in 1 .. Opened /\ Opened \in 1 .. MaxSessions
                /\ writer[w].epoch \in 1 .. MaxSessions
                /\ writer[w].session = [generation |-> Gen(writer[w].epoch), open |-> TRUE]
                /\ writer[w].session.generation = Gen(writer[w].epoch)
  <1>1. writer[w] \in WriterType
    BY QueueParts, Zenon
  <1>2. writer[w].left \in Nat /\ writer[w].accepted \in Nat
    BY <1>1, Zenon DEF WriterType
  <1>3. Sessions
    BY Parts, Zenon
  <1> QED
    BY <1>1, <1>2, <1>3, SMTT(20) DEF Sessions, ConsoleConstants

LEMMA CountIs ==
    ASSUME Inv, NEW c \in Counters \ {"opened", "depth"}, NEW n \in Nat, Count(c, n)
    PROVE  stats' \in [Counters -> Nat] /\ Opened' = Opened /\ stats'["depth"] = stats["depth"]
  <1>1. stats \in [Counters -> Nat]
    BY QueueParts, Zenon
  <1> QED
    BY <1>1 DEF Count, Opened, Counters

LEMMA IdleIs ==
    ASSUME ConsoleConstants
    PROVE  IdleWriter \in WriterType /\ IdleWriter.pc = "idle"
  BY DEF IdleWriter, WriterType, NoSession, SessionWord, ConsoleConstants

LEMMA CaptureStep ==
    ASSUME ConsoleConstants, Inv, NEW w \in Writers, NEW size \in Sizes, Capture(w, size)
    PROVE  Inv'
  <1>1. size \in Nat /\ offered' \in Nat
    BY QueueParts DEF Capture, ConsoleConstants
  <1>2. UNCHANGED <<session, queue, nextSequence, owner, transport, stop, wire, purged, queueLock>>
    BY Zenon DEF Capture, queueVars, ownerVars
  <1>3. queueLock \in BOOLEAN /\ writer \in [Writers -> WriterType] /\ stats \in [Counters -> Nat]
    BY Parts, QueueParts, Zenon
  <1>4. CASE session.open
    <2> DEFINE r == [pc |-> "lock", session |-> session, epoch |-> Opened,
                     left |-> size, accepted |-> 0]
    <2>1. writer' = [writer EXCEPT ![w] = r] /\ UNCHANGED stats
      BY <1>4, Zenon DEF Capture, Opened
    <2>2. /\ Opened \in 1 .. MaxSessions /\ session = [generation |-> Gen(Opened), open |-> TRUE]
          /\ session \in SessionWord
      <3>1. /\ Opened \in 0 .. MaxSessions /\ Opened > 0 /\ session.generation = Gen(Opened)
            /\ session \in SessionWord
        BY <1>4, Parts, Zenon DEF Sessions
      <3>2. session = [generation |-> session.generation, open |-> session.open]
            /\ session.open = TRUE
        BY <1>4, <3>1, Zenon DEF SessionWord
      <3> QED
        BY <3>1, <3>2 DEF ConsoleConstants
    <2>3. r \in WriterType
      BY <1>1, <2>2 DEF WriterType, ConsoleConstants
    <2>4. r.pc = "lock" /\ r.epoch = Opened /\ r.session = session
      BY Zenon
    <2>5. Opened' = Opened /\ stats' \in [Counters -> Nat] /\ stats'["depth"] = stats["depth"]
      BY <1>3, <2>1, Zenon DEF Opened
    <2>6. Opened \in 1 .. Opened
      BY <2>2
    <2> HIDE DEF r
    <2> QED
      BY <1>1, <1>2, <1>3, <2>1, <2>2, <2>3, <2>4, <2>5, <2>6, WriterMoves, Zenon
  <1>5. CASE ~session.open
    <2>1. Count("disconnected", size) /\ UNCHANGED writer
      BY <1>5, Zenon DEF Capture
    <2>2. stats' \in [Counters -> Nat] /\ Opened' = Opened /\ stats'["depth"] = stats["depth"]
      BY <1>1, <2>1, CountIs, Zenon DEF Counters
    <2>3. writer' = [writer EXCEPT ![w] = writer[w]] /\ writer[w] \in WriterType
      BY <1>3, <2>1, Zenon
    <2>4. /\ writer[w].pc = "idle" /\ queueLock' = queueLock
      BY <1>2, Zenon DEF Capture
    <2> QED
      BY <1>1, <1>2, <1>3, <2>2, <2>3, <2>4, WriterMoves, Zenon
  <1> QED
    BY <1>4, <1>5, Zenon

LEMMA PcIs ==
    ASSUME Inv, NEW w \in Writers, NEW p \in {"idle", "lock", "recheck", "add", "account"},
           NEW r, r = [writer[w] EXCEPT !.pc = p]
    PROVE  /\ r \in WriterType /\ r.pc = p /\ r.epoch = writer[w].epoch
           /\ r.session = writer[w].session
  <1>1. writer[w] \in WriterType
    BY QueueParts, Zenon
  <1> QED
    BY <1>1, Zenon DEF WriterType

LEMMA CaptureLockStep ==
    ASSUME ConsoleConstants, Inv, NEW w \in Writers, CaptureLock(w)
    PROVE  Inv'
  <1> DEFINE r == [writer[w] EXCEPT !.pc = "recheck"]
  <1>1. /\ ~queueLock /\ queueLock' = TRUE /\ writer[w].pc = "lock"
        /\ writer' = [writer EXCEPT ![w] = r]
        /\ UNCHANGED <<session, queue, nextSequence, owner, transport, stop, wire, purged,
                       stats, offered>>
    BY Zenon DEF CaptureLock, TryQueueLock, queueVars, ownerVars
  <1>2. /\ r \in WriterType /\ r.pc = "recheck" /\ r.epoch = writer[w].epoch
        /\ r.session = writer[w].session
    BY PcIs
  <1>3. /\ ~OwnerInQueue /\ \A v \in Writers \ {w} : ~InQueue(v)
        /\ stats \in [Counters -> Nat] /\ offered \in Nat
    BY <1>1, Parts, QueueParts, Zenon DEF Locking
  <1>4. Opened' = Opened
    BY <1>1, Zenon DEF Opened
  <1> HIDE DEF r
  <1> QED
    BY <1>1, <1>2, <1>3, <1>4, WriterTyped, WriterMoves, Zenon

LEMMA CaptureContendedStep ==
    ASSUME ConsoleConstants, Inv, NEW w \in Writers, CaptureContended(w)
    PROVE  Inv'
  <1>1. /\ writer' = [writer EXCEPT ![w] = IdleWriter] /\ Count("contention", writer[w].left)
        /\ UNCHANGED <<session, queue, nextSequence, owner, transport, stop, wire, purged,
                       queueLock, offered>>
    BY Zenon DEF CaptureContended, queueVars, ownerVars
  <1>2. stats' \in [Counters -> Nat] /\ Opened' = Opened /\ stats'["depth"] = stats["depth"]
    BY <1>1, WriterTyped, CountIs, Zenon DEF Counters
  <1> QED
    BY <1>1, <1>2, IdleIs, Parts, QueueParts, WriterMoves, Zenon

LEMMA CaptureRecheckStep ==
    ASSUME ConsoleConstants, Inv, NEW w \in Writers, CaptureRecheck(w)
    PROVE  Inv'
  <1>1. /\ writer[w].pc = "recheck"
        /\ UNCHANGED <<session, queue, nextSequence, owner, transport, stop, wire, purged, offered>>
    BY Zenon DEF CaptureRecheck, queueVars, ownerVars
  <1>2. /\ queueLock /\ ~OwnerInQueue /\ \A v \in Writers \ {w} : ~InQueue(v)
        /\ InQueue(w)
    BY <1>1, Parts, Zenon DEF Locking, InQueue
  <1>3. stats \in [Counters -> Nat] /\ offered \in Nat /\ queueLock \in BOOLEAN
    BY Parts, QueueParts
  <1>4. CASE session = writer[w].session
    <2> DEFINE r == [writer[w] EXCEPT !.pc = "add"]
    <2>1. writer' = [writer EXCEPT ![w] = r] /\ UNCHANGED <<queueLock, stats>>
      BY <1>4, Zenon DEF CaptureRecheck
    <2>2. /\ r \in WriterType /\ r.pc = "add" /\ r.epoch = writer[w].epoch
          /\ r.session = writer[w].session
      BY PcIs
    <2>3. /\ writer[w].epoch \in 1 .. Opened /\ Opened \in 1 .. MaxSessions
          /\ session = [generation |-> Gen(writer[w].epoch), open |-> TRUE]
      BY <1>1, <1>4, WriterTyped, Zenon
    <2>4. session.generation = Gen(Opened)
      BY Parts, Zenon DEF Sessions
    <2>5. writer[w].epoch = Opened /\ session.open
      BY <2>3, <2>4, GenInjective, SMTT(20) DEF ConsoleConstants
    <2>6. Opened' = Opened
      BY <2>1, Zenon DEF Opened
    <2> HIDE DEF r
    <2> QED
      BY <1>1, <1>2, <1>3, <1>4, <2>1, <2>2, <2>3, <2>5, <2>6, WriterMoves, ZenonT(60)
  <1>5. CASE session # writer[w].session
    <2>1. /\ writer' = [writer EXCEPT ![w] = IdleWriter] /\ queueLock' = FALSE
          /\ Count("stale", writer[w].left)
      BY <1>5, Zenon DEF CaptureRecheck
    <2>2. stats' \in [Counters -> Nat] /\ Opened' = Opened /\ stats'["depth"] = stats["depth"]
      BY <2>1, WriterTyped, CountIs, ZenonT(60) DEF Counters
    <2> QED
      BY <1>1, <1>2, <1>3, <2>1, <2>2, IdleIs, WriterMoves, Zenon
  <1> QED
    BY <1>4, <1>5, Zenon

LEMMA CaptureAccountStep ==
    ASSUME ConsoleConstants, Inv, NEW w \in Writers, CaptureAccount(w)
    PROVE  Inv'
  <1>1. /\ writer' = [writer EXCEPT ![w] = IdleWriter]
        /\ stats' = [stats EXCEPT !["accepted"] = @ + writer[w].accepted,
                                  !["full"] = @ + writer[w].left]
        /\ UNCHANGED <<session, queue, nextSequence, owner, transport, stop, wire, purged,
                       queueLock, offered>>
    BY Zenon DEF CaptureAccount, queueVars, ownerVars
  <1>2. stats' \in [Counters -> Nat] /\ Opened' = Opened /\ stats'["depth"] = stats["depth"]
    <2>1. stats \in [Counters -> Nat] /\ writer[w].accepted \in Nat /\ writer[w].left \in Nat
      BY WriterTyped, QueueParts, Zenon
    <2> QED
      BY <1>1, <2>1 DEF Opened, Counters
  <1> QED
    BY <1>1, <1>2, IdleIs, Parts, QueueParts, WriterMoves, Zenon

LEMMA ConcatIs ==
    ASSUME NEW S, NEW s \in Seq(S), NEW t \in Seq(S)
    PROVE  /\ s \o t \in Seq(S) /\ Len(s) \in Nat /\ Len(t) \in Nat
           /\ Len(s \o t) = Len(s) + Len(t)
           /\ \A i \in 1 .. Len(s) : (s \o t)[i] = s[i]
           /\ \A i \in Len(s) + 1 .. Len(s) + Len(t) : (s \o t)[i] = t[i - Len(s)]
  OBVIOUS

(* What a capture adds: n records of the writer's session, numbered on.     *)
LEMMA CapturedIs ==
    ASSUME ConsoleConstants, Inv, NEW w \in Writers, writer[w].pc = "add", NEW n \in Nat
    PROVE  /\ Captured(w, n) \in Seq(Frame) /\ Len(Captured(w, n)) = n
           /\ \A i \in 1 .. n :
                 /\ Captured(w, n)[i].sequence = nextSequence + i
                 /\ Captured(w, n)[i].epoch = writer[w].epoch
                 /\ Captured(w, n)[i].generation = Gen(writer[w].epoch)
  <1>1. /\ writer[w].epoch \in 1 .. MaxSessions /\ nextSequence \in Nat
        /\ writer[w].session.generation = Gen(writer[w].epoch)
    BY WriterTyped, QueueParts, Zenon
  <1>2. Gen(writer[w].epoch) \in 1 .. Generation
    BY <1>1, GenType, Zenon
  <1> DEFINE f(i) == [generation |-> writer[w].session.generation,
                      sequence |-> nextSequence + i, epoch |-> writer[w].epoch]
  <1>3. \A i \in 1 .. n : f(i) \in Frame
    BY <1>1, <1>2 DEF Frame
  <1>4. Captured(w, n) = [i \in 1 .. n |-> f(i)]
    BY Zenon DEF Captured
  <1>5. Captured(w, n) \in Seq(Frame) /\ Len(Captured(w, n)) = n
    <2> HIDE DEF f
    <2> QED
      BY <1>3, <1>4
  <1>6. \A i \in 1 .. n : Captured(w, n)[i] = f(i)
    <2> HIDE DEF f
    <2> QED
      BY <1>4, Zenon
  <1> QED
    BY <1>1, <1>5, <1>6, SMTT(20)

LEMMA CaptureAddStep ==
    ASSUME ConsoleConstants, Inv, NEW w \in Writers, CaptureAdd(w)
    PROVE  Inv'
  <1> DEFINE e == writer[w].epoch
             kept == Kept(writer[w].session.generation)
             n == Min({writer[w].left, Slots - Len(kept)})
             new == Captured(w, n)
             r == [[writer[w] EXCEPT !.pc = "account", !.left = @ - n] EXCEPT !.accepted = n]
  <1>1. /\ writer[w].pc = "add" /\ queue' = kept \o new /\ queueLock' = FALSE
        /\ stats' = [stats EXCEPT !["stale"] = @ + (Len(queue) - Len(kept)),
                                  !["depth"] = Len(kept \o new)]
        /\ nextSequence' = nextSequence + n
        /\ UNCHANGED <<session, owner, transport, wire, purged, stop, offered>>
    BY Zenon DEF CaptureAdd, LeaveCapture, Leave, ownerVars
  <1>2. /\ writer[w] \in WriterType /\ writer[w].left \in Nat /\ e \in 1 .. Opened
        /\ Opened \in 1 .. MaxSessions /\ e \in 1 .. MaxSessions
        /\ writer[w].session.generation = Gen(e)
    BY <1>1, WriterTyped, Zenon
  <1>3. /\ kept = IF queue # <<>> /\ queue[1].epoch = e THEN queue ELSE <<>>
        /\ queue \in Seq(Frame) /\ Len(queue) \in Nat /\ Len(queue) <= Slots
    <2>1. Types /\ Sessions /\ QueueShape
      BY Zenon DEF Inv
    <2>2. queue \in Seq(Frame) /\ Len(queue) <= Slots
      BY QueueParts, Zenon DEF QueueShape
    <2> QED
      BY <1>2, <2>1, <2>2, KeptIs
  <1>4. /\ kept \in Seq(Frame) /\ Len(kept) \in Nat /\ Len(kept) <= Slots
        /\ Len(queue) - Len(kept) \in Nat
        /\ kept = queue \/ kept = <<>>
    <2> HIDE DEF kept
    <2> QED
      BY <1>3 DEF ConsoleConstants
  <1>5. n \in Nat /\ n <= writer[w].left /\ n <= Slots - Len(kept)
    <2>1. writer[w].left \in Int /\ Slots - Len(kept) \in Int /\ Slots - Len(kept) >= 0
      BY <1>2, <1>4 DEF ConsoleConstants
    <2>2. n = IF writer[w].left <= Slots - Len(kept) THEN writer[w].left ELSE Slots - Len(kept)
      BY <2>1, MinOfTwo, Zenon
    <2> HIDE DEF n, kept
    <2> QED
      BY <1>2, <2>1, <2>2
  <1>6. /\ new \in Seq(Frame) /\ Len(new) = n
        /\ \A i \in 1 .. n : /\ new[i].sequence = nextSequence + i
                             /\ new[i].epoch = e /\ new[i].generation = Gen(e)
    <2> HIDE DEF n
    <2> QED
      BY <1>1, <1>5, CapturedIs, Zenon
  <1> HIDE DEF kept, n, new
  <1>7. /\ queue' \in Seq(Frame) /\ Len(queue') = Len(kept) + n
        /\ \A i \in 1 .. Len(kept) : queue'[i] = kept[i]
        /\ \A i \in Len(kept) + 1 .. Len(kept) + n : queue'[i] = new[i - Len(kept)]
    <2>1. kept \in Seq(Frame) /\ new \in Seq(Frame) /\ Len(new) = n
      BY <1>4, <1>6, Zenon
    <2>2. queue' = kept \o new
      BY <1>1, Zenon
    <2>3. /\ kept \o new \in Seq(Frame) /\ Len(kept \o new) = Len(kept) + n
          /\ \A i \in 1 .. Len(kept) : (kept \o new)[i] = kept[i]
          /\ \A i \in Len(kept) + 1 .. Len(kept) + n : (kept \o new)[i] = new[i - Len(kept)]
      <3> DEFINE S == Frame
      <3> HIDE DEF S
      <3>1. kept \in Seq(S) /\ new \in Seq(S)
        BY <2>1, Zenon DEF S
      <3>2. /\ kept \o new \in Seq(S) /\ Len(kept \o new) = Len(kept) + Len(new)
            /\ \A i \in 1 .. Len(kept) : (kept \o new)[i] = kept[i]
            /\ \A i \in Len(kept) + 1 .. Len(kept) + Len(new) :
                  (kept \o new)[i] = new[i - Len(kept)]
        BY <3>1, ConcatIs, Zenon
      <3>3. kept \o new \in Seq(Frame)
        BY <3>2, Zenon DEF S
      <3> QED
        BY <2>1, <3>2, <3>3, Zenon
    <2> QED
      BY <2>2, <2>3, Zenon
  <1>8. \A i \in 1 .. Len(kept) : /\ kept[i].sequence = nextSequence - Len(kept) + i
                                  /\ kept[i].epoch = e /\ kept[i].generation = Gen(e)
    <2>1. CASE kept = queue /\ queue # <<>> /\ queue[1].epoch = e
      BY <2>1, QueueParts, Zenon DEF QueueShape
    <2>2. CASE kept = <<>>
      <3>1. Len(kept) = 0
        BY <2>2, Zenon
      <3> QED
        BY <3>1
    <2> QED
      BY <1>3, <2>1, <2>2, Zenon
  <1>9. \A i \in 1 .. Len(queue') :
            /\ queue'[i].sequence = nextSequence' - Len(queue') + i
            /\ queue'[i].epoch = e /\ queue'[i].generation = Gen(e)
    <2> TAKE i \in 1 .. Len(queue')
    <2>1. nextSequence \in Nat /\ nextSequence' = nextSequence + n /\ i \in Nat
      BY <1>1, <1>7, QueueParts, SMTT(20)
    <2>2. CASE i <= Len(kept)
      <3>1. i \in 1 .. Len(kept)
        BY <1>4, <2>2
      <3>2. queue'[i] = kept[i] /\ kept[i].sequence = nextSequence - Len(kept) + i
        BY <1>7, <1>8, <3>1
      <3> QED
        BY <1>4, <1>5, <1>7, <1>8, <2>1, <3>1, <3>2, SMTT(20)
    <2>3. CASE i > Len(kept)
      <3>1. i \in Len(kept) + 1 .. Len(kept) + n /\ i - Len(kept) \in 1 .. n
        BY <1>4, <1>5, <1>7, <2>3
      <3>2. queue'[i] = new[i - Len(kept)]
        BY <1>7, <3>1, Zenon
      <3>3. new[i - Len(kept)].sequence = nextSequence + (i - Len(kept))
        BY <1>6, <3>1, Zenon
      <3> QED
        BY <1>4, <1>5, <1>6, <1>7, <2>1, <3>1, <3>2, <3>3, SMTT(20)
    <2> QED
      BY <1>4, <1>7, <2>2, <2>3
  <1>10. /\ stats' \in [Counters -> Nat] /\ Opened' = Opened
         /\ stats'["depth"] = Len(queue')
    <2>1. stats \in [Counters -> Nat] /\ Len(queue') \in Nat
      BY <1>4, <1>5, <1>7, QueueParts
    <2>2. stats' = [stats EXCEPT !["stale"] = @ + (Len(queue) - Len(kept)),
                                 !["depth"] = Len(queue')]
      BY <1>1, Zenon
    <2>3. stats["stale"] + (Len(queue) - Len(kept)) \in Nat
      BY <1>4, <2>1 DEF Counters
    <2> QED
      BY <2>1, <2>2, <2>3, ZenonT(60) DEF Opened, Counters
  <1>11. /\ writer \in [Writers -> WriterType] /\ writer' = [writer EXCEPT ![w] = r]
         /\ r \in WriterType /\ r.pc = "account" /\ r.epoch = e /\ r.session = writer[w].session
    <2>1. writer \in [Writers -> WriterType]
      BY QueueParts, Zenon
    <2>2. writer' = [writer EXCEPT ![w] = r]
      BY <2>1, Zenon DEF CaptureAdd, LeaveCapture, n, kept
    <2>3. writer[w].left - n \in Nat
      BY <1>2, <1>5
    <2>4. r \in WriterType /\ r.pc = "account" /\ r.epoch = e /\ r.session = writer[w].session
      BY <1>2, <1>5, <2>3, ZenonT(60) DEF WriterType
    <2> QED
      BY <2>1, <2>2, <2>4, Zenon
  <1> HIDE DEF r
  <1>12. /\ writer' \in [Writers -> WriterType] /\ writer'[w] = r
         /\ \A v \in Writers \ {w} : writer'[v] = writer[v]
    BY <1>11, Zenon
  <1>13. ~OwnerInQueue /\ \A v \in Writers \ {w} : ~InQueue(v)
    BY <1>1, Parts, Zenon DEF Locking, InQueue
  <1>14. Types'
    <2>1. nextSequence' \in Nat
      BY <1>1, <1>5, QueueParts
    <2> QED
      BY <1>1, <1>7, <1>10, <1>12, <2>1, Parts, QueueParts, ZenonT(60) DEF Types
  <1>15. Sessions'
    <2>1. Sessions
      BY Parts
    <2> QED
      BY <1>1, <1>2, <1>10, <1>11, <1>12, <2>1, Zenon DEF Sessions
  <1>16. Locking'
    BY <1>1, <1>11, <1>12, <1>13, Zenon DEF Locking, InQueue, OwnerInQueue
  <1>17. QueueShape'
    <2>1. Len(queue') <= Slots
      BY <1>4, <1>5, <1>7 DEF ConsoleConstants
    <2>2. \A i \in 1 .. Len(queue') : queue'[i].epoch = queue'[1].epoch
      BY <1>9, <1>4, <1>5, <1>7, SMTT(20)
    <2> QED
      BY <1>2, <1>9, <1>10, <2>1, <2>2, SMTT(20) DEF QueueShape
  <1>18. Adding'
    BY <1>11, <1>12, <1>13, Zenon DEF Adding, InQueue
  <1>19. Owning'
    BY <1>1, Parts, Zenon DEF Owning
  <1>20. ~purged /\ Purged'
    BY <1>1, QueueParts, Zenon DEF Purged
  <1>21. ASSUME queue # <<>>, queue[1].epoch = Opened
         PROVE  /\ kept = queue /\ queue' # <<>> /\ queue'[1] = queue[1]
    <2>1. Len(queue) >= 1 /\ 1 \in 1 .. Len(queue)
      BY <1>3, <1>21
    <2>2. queue[1].epoch <= e
      BY <1>1, <2>1, QueueParts, Zenon DEF Adding
    <2>3. e = Opened
      BY <1>2, <1>21, <2>2
    <2>4. kept = queue
      BY <1>3, <1>21, <2>3
    <2>5. Len(queue') >= 1 /\ queue'[1] = queue[1]
      BY <1>3, <1>5, <1>7, <2>1, <2>4
    <2> QED
      BY <1>7, <2>4, <2>5
  <1>22. HeadKept'
    BY <1>1, <1>10, <1>21, QueueParts DEF HeadKept
  <1>23. WireShape'
    <2>1. WireShape /\ Adding
      BY QueueParts, Zenon
    <2>2. ASSUME wire # <<>>, transport.generation # 0, ~transport.failed
          PROVE  /\ wire[Len(wire)].sequence = nextSequence' - Len(queue')
                       + (IF transport.uncommitted # 0 THEN 1 ELSE 0)
                 /\ \A i \in 1 .. Len(queue') : queue'[i].epoch = Opened
      <3>1. e = Opened
        BY <1>1, <2>1, <2>2 DEF Adding
      <3>2. /\ wire[Len(wire)].sequence = nextSequence - Len(queue)
                       + (IF transport.uncommitted # 0 THEN 1 ELSE 0)
            /\ \A i \in 1 .. Len(queue) : queue[i].epoch = Opened
        BY <2>1, <2>2, Zenon DEF WireShape
      <3>3. Len(kept) = Len(queue)
        <4>1. CASE queue = <<>>
          BY <1>3, <4>1
        <4>2. CASE queue # <<>>
          <5>1. 1 \in 1 .. Len(queue)
            BY <1>3, <4>2
          <5> QED
            BY <1>3, <3>1, <3>2, <4>2, <5>1
        <4> QED
          BY <4>1, <4>2, Zenon
      <3>4. nextSequence' - Len(queue') = nextSequence - Len(queue)
        BY <1>1, <1>3, <1>5, <1>7, <3>3, QueueParts, SMTT(20)
      <3> QED
        BY <1>9, <3>1, <3>2, <3>4, Zenon
    <2> QED
      BY <1>1, <1>10, <2>1, <2>2, Zenon DEF WireShape
  <1> QED
    BY <1>14, <1>15, <1>16, <1>17, <1>18, <1>19, <1>20, <1>22, <1>23, Zenon DEF Inv

-----------------------------------------------------------------------------
LEMMA InitInv ==
    ASSUME ConsoleConstants, Init
    PROVE  Inv
  <1>1. /\ stats \in [Counters -> Nat] /\ Opened = 0 /\ stats["depth"] = 0
    BY Zenon DEF Init, Opened, Counters
  <1>2. /\ writer \in [Writers -> WriterType] /\ \A w \in Writers : writer[w].pc = "idle"
    BY IdleIs, Zenon DEF Init
  <1>3. owner \in OwnerType /\ owner.pc = "down"
    BY Pcs, SMTT(20) DEF Init, OwnerType, ConsoleConstants
  <1>4. session \in SessionWord /\ session.generation = FirstGeneration /\ ~session.open
    BY Zenon DEF Init, SessionWord, ConsoleConstants
  <1>5. /\ transport \in TransportType /\ transport.generation = 0
        /\ transport.uncommitted = 0 /\ ~transport.failed
    BY SMTT(20) DEF Init, TransportType, ConsoleConstants
  <1>6. stop \in StopType /\ stop.pc = "running"
    BY Zenon DEF Init, StopType
  <1>7. /\ queue = <<>> /\ wire = <<>> /\ Len(queue) = 0 /\ Len(wire) = 0
        /\ <<>> \in Seq(Frame) /\ nextSequence = 0 /\ offered = 0
        /\ queueLock = FALSE /\ purged = FALSE
    BY SMTT(20) DEF Init
  <1>8. Types
    BY <1>1, <1>2, <1>3, <1>4, <1>5, <1>6, <1>7, ZenonT(60) DEF Types
  <1>9. Sessions
    <2>1. Gen(0) = FirstGeneration
      BY DEF Gen, ConsoleConstants
    <2> QED
      BY <1>1, <1>2, <1>3, <1>4, <2>1, SMTT(20) DEF Sessions, ConsoleConstants
  <1>10. Locking /\ Adding /\ Purged
    BY <1>2, <1>3, <1>7, Zenon DEF Locking, Adding, Purged, InQueue, OwnerInQueue
  <1>11. QueueShape
    BY <1>1, <1>7, SMTT(20) DEF QueueShape, ConsoleConstants
  <1>12. Owning
    BY <1>3, <1>4, <1>5, <1>6 DEF Owning, OpenPcs, ClosePcs, PeekPcs, CommitPcs
  <1>13. HeadKept /\ WireShape
    BY <1>3, <1>5, <1>7 DEF HeadKept, WireShape
  <1> QED
    BY <1>8, <1>9, <1>10, <1>11, <1>12, <1>13, Zenon DEF Inv

LEMMA StutterInv ==
    ASSUME Inv, UNCHANGED vars
    PROVE  Inv'
  <1>1. UNCHANGED <<session, queue, nextSequence, queueLock, stats, writer, owner, transport,
                    stop, wire, purged, offered>>
    BY Zenon DEF vars
  <1>2. Opened' = Opened
    BY <1>1, Zenon DEF Opened
  <1>3. Types' /\ Sessions' /\ Locking'
    BY <1>1, <1>2, Zenon DEF Inv, Types, Sessions, Locking, InQueue, OwnerInQueue
  <1>4. QueueShape' /\ Adding' /\ Owning'
    BY <1>1, <1>2, Zenon DEF Inv, QueueShape, Adding, Owning
  <1>5. HeadKept' /\ WireShape' /\ Purged'
    BY <1>1, <1>2, Zenon DEF Inv, HeadKept, WireShape, Purged
  <1> QED
    BY <1>3, <1>4, <1>5, Zenon DEF Inv

LEMMA WriterInv ==
    ASSUME ConsoleConstants, Inv, NEW w \in Writers, WriterStep(w)
    PROVE  Inv'
  BY CaptureStep, CaptureLockStep, CaptureContendedStep, CaptureRecheckStep, CaptureAddStep,
     CaptureAccountStep DEF WriterStep

LEMMA PumpInv ==
    ASSUME ConsoleConstants, Inv, PumpStep
    PROVE  Inv'
  BY PumpStart, PumpOpenedStep, PumpRecordStep, CheckPeek, CheckCommit, LockPeekHead,
     LockCommitHead, FailedPeekHead, FailedCommitHead, PeekHeadStep, CommitHeadStep,
     WriteCompleteStep, WouldBlockStep, WriteFailedStep DEF PumpStep

LEMMA OwnerInv ==
    ASSUME ConsoleConstants, Inv, OwnerStep
    PROVE  Inv'
  BY OpenBusyStep, OpenBeginStep, OpenLockStep, PurgeStep, OpenPublishStep, CloseGateStep,
     CloseLockStep, PumpInv, ConnectionEnds, ExitStep, LoopTopStep, EnableNoAckStep,
     EnabledStep, Zenon DEF OwnerStep

LEMMA NextInv ==
    ASSUME ConsoleConstants, Inv, [Next]_vars
    PROVE  Inv'
  <1>1. CASE \E w \in Writers : WriterStep(w)
    BY <1>1, WriterInv, Zenon
  <1>2. CASE OwnerStep
    BY <1>2, OwnerInv, Zenon
  <1>3. CASE StopServer \/ StopGate \/ StopReturn \/ StartServer
    BY <1>3, StopStep
  <1>4. CASE UNCHANGED vars
    BY <1>4, StutterInv, Zenon
  <1> QED
    BY <1>1, <1>2, <1>3, <1>4 DEF Next

(* Inv holds in every reachable state. *)
THEOREM Invariance == ASSUME ConsoleConstants PROVE Spec => []Inv
  <1>1. Init => Inv
    BY InitInv, Zenon
  <1>2. Inv /\ [Next]_vars => Inv'
    BY NextInv, Zenon
  <1> QED
    BY <1>1, <1>2, PTL DEF Spec

-----------------------------------------------------------------------------
LEMMA InvOneSession ==
    ASSUME Inv
    PROVE  OneSessionInOrder
  <1>1. Consecutive(queue)
    <2> SUFFICES ASSUME NEW i \in 1 .. Len(queue) - 1
                 PROVE  /\ queue[i + 1].epoch = queue[i].epoch
                        /\ queue[i + 1].sequence = queue[i].sequence + 1
      BY Zenon DEF Consecutive
    <2>1. i \in 1 .. Len(queue) /\ i + 1 \in 1 .. Len(queue) /\ nextSequence \in Nat
          /\ Len(queue) \in Nat
      BY QueueParts
    <2>2. /\ queue[i].sequence = nextSequence - Len(queue) + i
          /\ queue[i + 1].sequence = nextSequence - Len(queue) + (i + 1)
          /\ queue[i].epoch = queue[1].epoch /\ queue[i + 1].epoch = queue[1].epoch
      BY <2>1, QueueParts, Zenon DEF QueueShape
    <2> QED
      BY <2>1, <2>2
  <1>2. Consecutive(wire)
    <2> SUFFICES ASSUME NEW i \in 1 .. Len(wire) - 1
                 PROVE  /\ wire[i + 1].epoch = wire[i].epoch
                        /\ wire[i + 1].sequence = wire[i].sequence + 1
      BY Zenon DEF Consecutive
    <2>1. i \in 1 .. Len(wire) /\ i + 1 \in 1 .. Len(wire) /\ 1 \in 1 .. Len(wire)
      BY QueueParts
    <2>2. /\ wire[i].sequence = wire[1].sequence + i - 1
          /\ wire[i + 1].sequence = wire[1].sequence + (i + 1) - 1
          /\ wire[i].epoch = Opened /\ wire[i + 1].epoch = Opened
      BY <2>1, QueueParts, Zenon DEF WireShape
    <2>3. wire[1].sequence \in Nat /\ i \in Nat
      BY <2>1, QueueParts, FrameAt
    <2>4. wire[i + 1].sequence = wire[i].sequence + 1
      <3> DEFINE a == wire[1].sequence
      <3>1. a \in Nat /\ wire[i].sequence = a + i - 1 /\ wire[i + 1].sequence = a + (i + 1) - 1
        BY <2>2, <2>3, Zenon
      <3> HIDE DEF a
      <3> QED
        BY <2>3, <3>1
    <2> QED
      BY <2>2, <2>4, Zenon
  <1>3. wire # <<>> => wire[1].epoch = stats["opened"]
    <2>1. wire # <<>> => 1 \in 1 .. Len(wire)
      BY QueueParts
    <2> QED
      BY <2>1, QueueParts DEF WireShape, Opened
  <1> QED
    BY <1>1, <1>2, <1>3, Zenon DEF OneSessionInOrder, QueueOfOneSession, SentOnceInOrder

LEMMA InvCommit ==
    ASSUME ConsoleConstants, Inv
    PROVE  CommitFindsHead
  <1> SUFFICES ASSUME transport.uncommitted # 0, session = Expected
               PROVE  /\ Kept(transport.generation) # <<>>
                      /\ Head(Kept(transport.generation)).sequence = transport.uncommitted
    BY Zenon DEF CommitFindsHead
  <1>1. /\ queue # <<>> /\ queue[1].sequence = transport.uncommitted /\ queue[1].epoch = Opened
        /\ queue \in Seq(Frame)
    BY QueueParts DEF HeadKept
  <1>2. Kept(transport.generation) = queue
    BY <1>1, ExpectedIs, Zenon
  <1> QED
    BY <1>1, <1>2

LEMMA InvClosed ==
    ASSUME ConsoleConstants, Inv
    PROVE  ClosedIsClosed
  <1>1. purged => queue = <<>>
    BY QueueParts DEF Purged
  <1>2. stop.pc = "returned" => ~session.open
    <2> SUFFICES ASSUME stop.pc = "returned", session.open
                 PROVE  FALSE
      BY Zenon
    <2>1. owner.pc = "stopped" /\ transport.generation = 0
      BY Parts DEF Owning
    <2>2. transport.generation = session.generation
      BY <2>1, Parts, Zenon DEF Owning
    <2>3. session.generation = Gen(Opened) /\ Opened \in 1 .. MaxSessions
      BY Parts, SMTT(20) DEF Sessions, ConsoleConstants
    <2> QED
      BY <2>1, <2>2, <2>3, GenType DEF ConsoleConstants
  <1> QED
    BY <1>1, <1>2, Zenon DEF ClosedIsClosed, ClosedStaysEmpty, StoppedClosed

(* The queue holds one session's records without a gap, and a connection is  *)
(* sent its own session's, each once and in order: for any number of writers,*)
(* slots and sessions, as long as generations do not repeat.                 *)
THEOREM InOrder == ASSUME ConsoleConstants PROVE Spec => []OneSessionInOrder
  <1>1. Inv => OneSessionInOrder
    BY InvOneSession, Zenon
  <1> QED
    BY <1>1, Invariance, PTL

(* A frame that was sent and could not be committed for a busy lock is the   *)
(* head of the queue when the commit is tried again.                        *)
THEOREM HeadFound == ASSUME ConsoleConstants PROVE Spec => []CommitFindsHead
  <1>1. Inv => CommitFindsHead
    BY InvCommit, Zenon
  <1> QED
    BY <1>1, Invariance, PTL

(* After session_close returned READY nothing enters the queue, and when     *)
(* uvdb_stop_server has returned the session is closed.                      *)
THEOREM Closed == ASSUME ConsoleConstants PROVE Spec => []ClosedIsClosed
  <1>1. Inv => ClosedIsClosed
    BY InvClosed, Zenon
  <1> QED
    BY <1>1, Invariance, PTL

=============================================================================
