--------------------------- MODULE AuthStoreProofs ---------------------------
(***************************************************************************)
(* The key store of the attach broker, for any number of keys, peers,       *)
(* revisions, failing backend calls and power losses: what an acknowledged  *)
(* call wrote survives, a service generation is handed out once, an         *)
(* available store has its private key, and no single failure with any      *)
(* power loss leaves a store that recovery refuses.                         *)
(***************************************************************************)
EXTENDS AuthStore, FiniteSetTheorems, TLAPS

-----------------------------------------------------------------------------
(* The inductive invariant *)

(* The records the code accepts (vd_state_valid), with what the operations  *)
(* keep of them: a generation is not above its revision, and an identity is *)
(* newer than the one it replaced.                                          *)
Used(r) == {h \in Hosts : r.peers[h] # "none"}
Allowlist(r) == Cardinality(Used(r)) <= MaxPeers /\ (r.local = NoKey => Used(r) = {})
Ordered(r) ==
    /\ r.gen <= r.rev
    /\ r.retired # NoKey /\ r.local # NoKey => r.retired < r.local
Accepted == {r \in Records : Allowlist(r) /\ Ordered(r)}

Recovering == {"r_settle", "r_floor", "r_destroy"}
Preparing == {"discard", "write", "sync", "commit", "cleanup", "undo"}
Promoted == {"close", "floor", "finish"}
CallRecords == [pc : {"idle"} \cup Recovering \cup Preparing \cup Promoted,
                what : {"none", "reserve", "provision", "rotate", "allow", "revoke", "uninstall"},
                cand : Accepted, new : Keys \cup {NoKey}]
Residents == [up : BOOLEAN, st : Accepted]
Ghosts == [handed : Nat, again : BOOLEAN, acked : Accepted]

Types ==
    /\ cur \in Accepted \cup {Absent} /\ stg \in Accepted \cup {Absent, Bad}
    /\ synced \in BOOLEAN /\ floor \in 0 .. MaxRevision /\ keys \in SUBSET Keys
    /\ res \in Residents /\ op \in CallRecords /\ ghost \in Ghosts
    /\ faults \in 0 .. MaxFaults /\ crashes \in 0 .. MaxCrashes

(* What is current, and what may replace it. *)
Base == IF Valid(cur) THEN cur ELSE Blank(0)
Follows(c, r) ==
    /\ r.rev = c.rev + 1 /\ c.gen <= r.gen
    /\ \A h \in Hosts : c.peers[h] = "revoked" => r.peers[h] = "revoked" \/ r.local = NoKey
HasKey(r) == r.local \in keys \cup {NoKey}
Destroyed(r) == r.local # NoKey => r.retired \notin keys

(* The slots and the floor: a staged record is the next after the current   *)
(* one, and is written only when the floor has caught up.                   *)
Storage ==
    /\ floor <= Base.rev /\ HasKey(Base)
    /\ Valid(stg) => Follows(Base, stg) /\ floor = Base.rev

(* The resident state between recovery and promotion is what is current. *)
Resident ==
    /\ op.pc \in Recovering => ~res.up
    /\ op.pc \in Preparing \cup Promoted => res.up
    /\ res.up /\ op.pc \in {"idle"} \cup Preparing =>
          res.st = Base /\ floor = Base.rev /\ Destroyed(Base)
    /\ op.pc = "finish" => res.st = op.cand

(* What each stage of recovery and of a commit has done. *)
Stages ==
    /\ op.pc = "r_settle" =>
          Valid(Selected(cur, stg)) /\ op.cand = Selected(cur, stg) /\ HasKey(op.cand)
    /\ op.pc \in {"r_floor", "r_destroy"} \cup Promoted => cur = op.cand /\ stg = Absent
    /\ op.pc \in {"r_destroy", "finish"} => floor = op.cand.rev
    /\ op.pc \in Preparing =>
          Follows(Base, op.cand) /\ (op.new # NoKey => op.new # Base.local)
    /\ op.pc \in Preparing \ {"undo"} => HasKey(op.cand)
    /\ op.pc = "write" => stg = Absent
    /\ op.pc \in {"sync", "commit"} => stg = op.cand
    /\ op.pc = "cleanup" => stg = op.cand \/ stg = Bad
    /\ op.pc \in Preparing \cup Promoted =>
          /\ op.what = "reserve" => ghost.handed < op.cand.gen
          /\ op.what \notin {"rotate", "uninstall"} => Destroyed(op.cand)

(* What callers were told is not ahead of what is current. *)
ToldCurrent ==
    /\ ghost.handed <= Base.gen /\ ~ghost.again
    /\ ghost.acked.rev <= Base.rev
    /\ ghost.acked.rev = Base.rev /\ Base.rev > 0 => ghost.acked = Base

(* It takes two failed calls to leave a record staged after its call. *)
Leftovers ==
    /\ op.pc \in {"cleanup", "undo"} => faults >= 1
    /\ faults <= 1 =>
          /\ Valid(stg) => HasKey(stg)
          /\ res.up /\ op.pc \in {"idle", "discard", "undo"} => stg = Absent

Inv ==
    /\ Types
    /\ Storage
    /\ Resident
    /\ Stages
    /\ ToldCurrent
    /\ Leftovers

-----------------------------------------------------------------------------
(* The records *)

LEMMA AcceptedIs ==
    ASSUME StoreConstants, NEW r \in Accepted
    PROVE  /\ Valid(r) /\ r # Absent /\ r # Bad /\ ~Valid(Absent) /\ ~Valid(Bad) /\ Absent # Bad
           /\ r \in Records /\ r.rev \in Nat /\ r.gen \in Nat /\ r.rev <= MaxRevision
           /\ r.local \in Keys \cup {NoKey} /\ r.retired \in Keys \cup {NoKey}
           /\ r.peers \in [Hosts -> {"none", "active", "revoked"}]
           /\ Allowlist(r) /\ Ordered(r)
  <1>1. r \in Records /\ Allowlist(r) /\ Ordered(r)
    BY Zenon DEF Accepted
  <1>2. /\ r.kind = "ok" /\ r.rev \in 0 .. MaxRevision /\ r.gen \in 0 .. MaxRevision
        /\ r.local \in Keys \cup {NoKey} /\ r.retired \in Keys \cup {NoKey}
        /\ r.peers \in [Hosts -> {"none", "active", "revoked"}]
    BY <1>1, Zenon DEF Records
  <1>3. Absent.kind = "absent" /\ Bad.kind = "bad"
    BY Zenon DEF Absent, Bad
  <1>4. r # Absent /\ r # Bad /\ Absent # Bad
    BY <1>2, <1>3, Zenon
  <1> QED
    BY <1>1, <1>2, <1>3, <1>4 DEF Valid, StoreConstants

LEMMA KeysApart ==
    ASSUME StoreConstants, NEW r \in Accepted
    PROVE  /\ NoKey \notin Keys /\ (r.local # NoKey => r.local # r.retired)
           /\ r.local \in Nat /\ r.retired \in Nat
  <1>1. Keys \subseteq Nat \ {0}
    BY Zenon DEF StoreConstants
  <1>2. r.local \in Keys \cup {NoKey} /\ r.retired \in Keys \cup {NoKey} /\ Ordered(r)
    BY AcceptedIs, Zenon
  <1>3. r.local \in Nat /\ r.retired \in Nat /\ NoKey \notin Keys
    <2>1. \A k \in Keys \cup {NoKey} : k \in Nat
      BY <1>1 DEF NoKey
    <2>2. NoKey \notin Keys
      BY <1>1, Zenon DEF NoKey
    <2> QED
      BY <1>2, <2>1, <2>2, Zenon
  <1>4. \A i, k \in Nat : i < k => i # k
    OBVIOUS
  <1> QED
    BY <1>2, <1>3, <1>4, Zenon DEF Ordered

LEMMA BlankIs ==
    ASSUME StoreConstants
    PROVE  /\ Blank(0) \in Accepted
           /\ Blank(0).rev = 0 /\ Blank(0).gen = 0 /\ Blank(0).local = NoKey
           /\ Blank(0).retired = NoKey
           /\ \A h \in Hosts : Blank(0).peers[h] = "none"
  <1> DEFINE p == NoPeers
  <1>1. p \in [Hosts -> {"none", "active", "revoked"}] /\ \A h \in Hosts : p[h] = "none"
    BY Zenon DEF NoPeers
  <1>2. Blank(0) = [kind |-> "ok", rev |-> 0, gen |-> 0, local |-> 0, retired |-> 0, peers |-> p]
    BY Zenon DEF Blank, Rec, NoKey
  <1> HIDE DEF p
  <1>3. 0 \in 0 .. MaxRevision /\ 0 <= MaxPeers
    BY DEF StoreConstants
  <1>4. /\ Blank(0) \in Records /\ Blank(0).rev = 0 /\ Blank(0).gen = 0 /\ Blank(0).local = 0
        /\ Blank(0).retired = 0 /\ Blank(0).peers = p
    BY <1>1, <1>2, <1>3 DEF Records, NoKey
  <1>5. Used(Blank(0)) = {}
    BY <1>1, <1>4, Zenon DEF Used
  <1>6. Allowlist(Blank(0)) /\ Ordered(Blank(0))
    BY <1>3, <1>4, <1>5, FS_EmptySet DEF Allowlist, Ordered, NoKey
  <1> QED
    BY <1>1, <1>4, <1>6, Zenon DEF Accepted, NoKey

LEMMA BaseIs ==
    ASSUME StoreConstants, Types
    PROVE  /\ Base \in Accepted
           /\ Valid(cur) => cur \in Accepted /\ Base = cur
           /\ cur \in Accepted => Valid(cur) /\ Base = cur
           /\ ~Valid(cur) => cur = Absent /\ Base = Blank(0)
           /\ Valid(stg) => stg \in Accepted
           /\ stg \in Accepted => Valid(stg)
  BY AcceptedIs, BlankIs, Zenon DEF Types, Base

LEMMA RestIs ==
    ASSUME StoreConstants
    PROVE  /\ Rest \in CallRecords /\ Rest.pc = "idle"
           /\ Down \in Residents /\ ~Down.up
  <1>1. Rest = [pc |-> "idle", what |-> "none", cand |-> Blank(0), new |-> NoKey]
    BY Zenon DEF Rest
  <1>2. Rest \in CallRecords /\ Rest.pc = "idle"
    BY <1>1, BlankIs, Zenon DEF CallRecords
  <1>3. Down \in Residents /\ ~Down.up
    BY BlankIs, Zenon DEF Down, Residents
  <1> QED
    BY <1>2, <1>3, Zenon

LEMMA GotoIs ==
    ASSUME op \in CallRecords,
           NEW pc \in {"idle"} \cup Recovering \cup Preparing \cup Promoted, Goto(pc)
    PROVE  op' \in CallRecords /\ op'.pc = pc /\ op'.what = op.what /\ op'.cand = op.cand
           /\ op'.new = op.new
  BY Zenon DEF Goto, CallRecords

LEMMA FaultsKept ==
    ASSUME StoreConstants, Types, Fails \/ UNCHANGED faults
    PROVE  faults' \in 0 .. MaxFaults /\ faults <= faults' /\ (Fails => faults' >= 1)
           /\ faults \in Nat /\ faults' \in Nat
  BY DEF Fails, Types, StoreConstants

LEMMA TypesAre ==
    ASSUME Inv
    PROVE  /\ cur \in Accepted \cup {Absent} /\ stg \in Accepted \cup {Absent, Bad}
           /\ synced \in BOOLEAN /\ floor \in 0 .. MaxRevision /\ keys \in SUBSET Keys
           /\ res \in Residents /\ op \in CallRecords /\ ghost \in Ghosts
           /\ faults \in 0 .. MaxFaults /\ crashes \in 0 .. MaxCrashes
           /\ op.cand \in Accepted /\ res.st \in Accepted /\ ghost.acked \in Accepted
           /\ ghost.handed \in Nat /\ faults \in Nat
  <1>1. /\ cur \in Accepted \cup {Absent} /\ stg \in Accepted \cup {Absent, Bad}
        /\ synced \in BOOLEAN /\ floor \in 0 .. MaxRevision /\ keys \in SUBSET Keys
        /\ res \in Residents /\ op \in CallRecords /\ ghost \in Ghosts
        /\ faults \in 0 .. MaxFaults /\ crashes \in 0 .. MaxCrashes
    BY Zenon DEF Inv, Types
  <1>2. op.cand \in Accepted /\ res.st \in Accepted /\ ghost.acked \in Accepted
        /\ ghost.handed \in Nat
    BY <1>1, Zenon DEF CallRecords, Residents, Ghosts
  <1>3. faults \in Nat
    BY <1>1
  <1> QED
    BY <1>1, <1>2, <1>3, Zenon

-----------------------------------------------------------------------------
(* The storage *)

(* Nothing replaces the current record. *)
LEMMA CurrentKept ==
    ASSUME StoreConstants, Inv, UNCHANGED <<cur, keys, ghost>>, stg' \in {stg, Absent, Bad},
           floor' \in {floor, Base.rev}
    PROVE  /\ Base' = Base /\ Storage' /\ ToldCurrent'
           /\ floor' \in 0 .. MaxRevision /\ stg' \in Accepted \cup {Absent, Bad}
  <1>1. Base' = Base
    BY Zenon DEF Base, Valid
  <1>2. Base \in Accepted /\ Base.rev \in Nat /\ Base.rev <= MaxRevision /\ floor \in 0 .. MaxRevision
    BY BaseIs, AcceptedIs, TypesAre, Zenon DEF Inv
  <1>3. floor <= Base.rev /\ HasKey(Base) /\ (Valid(stg) => Follows(Base, stg) /\ floor = Base.rev)
    BY Zenon DEF Inv, Storage
  <1>4. ~Valid(Absent) /\ ~Valid(Bad)
    BY <1>2, AcceptedIs, Zenon
  <1>5. floor' <= Base.rev
    BY <1>2, <1>3
  <1>6. Valid(stg') => stg' = stg /\ floor' = Base.rev
    BY <1>3, <1>4, Zenon
  <1>7. Storage'
    BY <1>1, <1>3, <1>5, <1>6, Zenon DEF Storage, HasKey, Follows, Valid
  <1>8. ToldCurrent'
    BY <1>1, Zenon DEF Inv, ToldCurrent
  <1>9. floor' \in 0 .. MaxRevision
    BY <1>2
  <1>10. stg' \in Accepted \cup {Absent, Bad}
    BY TypesAre, Zenon
  <1> QED
    BY <1>1, <1>7, <1>8, <1>9, <1>10, Zenon

(* The staged record becomes the current one. *)
LEMMA CurrentReplaced ==
    ASSUME StoreConstants, Inv, Valid(stg), HasKey(stg), cur' = stg, stg' = Absent,
           UNCHANGED <<floor, keys, ghost>>
    PROVE  /\ Base' = stg /\ Storage' /\ ToldCurrent'
           /\ cur' \in Accepted /\ stg' \in Accepted \cup {Absent, Bad}
  <1>1. Base' = stg
    BY Zenon DEF Base, Valid
  <1>2. /\ stg \in Accepted /\ Base \in Accepted /\ Follows(Base, stg) /\ floor = Base.rev
    BY BaseIs, Zenon DEF Inv, Storage
  <1>3. /\ Base.rev \in Nat /\ stg.rev = Base.rev + 1 /\ Base.gen \in Nat /\ stg.gen \in Nat
        /\ Base.gen <= stg.gen
    BY <1>2, AcceptedIs, Zenon DEF Follows
  <1>4. ~Valid(Absent)
    BY <1>2, AcceptedIs, Zenon
  <1>5. Storage'
    BY <1>1, <1>2, <1>3, <1>4 DEF Storage, HasKey, Valid
  <1>6. /\ ghost.handed <= Base.gen /\ ~ghost.again /\ ghost.acked.rev <= Base.rev
        /\ ghost.handed \in Nat /\ ghost.acked.rev \in Nat
    BY TypesAre, AcceptedIs, Zenon DEF Inv, ToldCurrent
  <1>7. ToldCurrent'
    BY <1>1, <1>3, <1>6 DEF ToldCurrent
  <1> QED
    BY <1>1, <1>2, <1>5, <1>7, Zenon

(* The store gives up: what is left is for the next recovery. *)
LEMMA DownInv ==
    ASSUME StoreConstants, Inv, GiveUp, UNCHANGED <<keys, ghost>>, Storage', ToldCurrent',
           cur' \in Accepted \cup {Absent}, stg' \in Accepted \cup {Absent, Bad},
           synced' \in BOOLEAN, floor' \in 0 .. MaxRevision,
           faults' \in 0 .. MaxFaults, crashes' \in 0 .. MaxCrashes,
           faults' <= 1 /\ Valid(stg') => HasKey(stg')
    PROVE  Inv'
  <1>1. op' = Rest /\ res' = Down
    BY Zenon DEF GiveUp
  <1>2. op' \in CallRecords /\ op'.pc = "idle" /\ res' \in Residents /\ ~res'.up
    BY <1>1, RestIs, Zenon
  <1>3. Types'
    BY <1>2, TypesAre, Zenon DEF Types
  <1>4. Resident' /\ Stages'
    BY <1>2, Zenon DEF Resident, Stages, Recovering, Preparing, Promoted
  <1>5. Leftovers'
    BY <1>2, Zenon DEF Leftovers, Valid, HasKey
  <1> QED
    BY <1>3, <1>4, <1>5, Zenon DEF Inv

(* The same when no record was promoted on the way. *)
LEMMA GiveUpInv ==
    ASSUME StoreConstants, Inv, GiveUp, UNCHANGED <<cur, keys, ghost>>,
           stg' \in {stg, Absent, Bad}, floor' \in {floor, Base.rev}, synced' \in BOOLEAN,
           Fails \/ UNCHANGED faults, crashes' \in 0 .. MaxCrashes
    PROVE  Inv'
  <1>1. /\ Storage' /\ ToldCurrent' /\ floor' \in 0 .. MaxRevision
        /\ stg' \in Accepted \cup {Absent, Bad}
    BY CurrentKept, Zenon
  <1>2. faults' \in 0 .. MaxFaults /\ faults <= faults' /\ faults \in Nat /\ faults' \in Nat
    BY FaultsKept, Zenon DEF Inv
  <1>3. ~Valid(Absent) /\ ~Valid(Bad)
    BY BlankIs, AcceptedIs, Zenon
  <1>4. faults' <= 1 /\ Valid(stg') => HasKey(stg')
    <2>1. faults' <= 1 => faults <= 1
      BY <1>2
    <2> QED
      BY <1>3, <2>1, Zenon DEF Inv, Leftovers
  <1>5. cur' \in Accepted \cup {Absent}
    BY TypesAre, Zenon
  <1> QED
    BY <1>1, <1>2, <1>4, <1>5, DownInv, Zenon

-----------------------------------------------------------------------------
(* Recovery *)

(* A staged record is newer than the current one, so recovery takes it. *)
LEMMA StagedIsNewer ==
    ASSUME StoreConstants, Inv
    PROVE  /\ TakesStaged(cur, stg) <=> Valid(stg)
           /\ Selected(cur, stg) = IF Valid(stg) THEN stg ELSE cur
           /\ Valid(stg) => stg.rev = Base.rev + 1 /\ Base.rev \in Nat
  <1>1. Valid(stg) => stg.rev = Base.rev + 1 /\ Base.rev \in Nat
    BY BaseIs, AcceptedIs, Zenon DEF Inv, Storage, Follows
  <1>2. Valid(cur) => Base = cur
    BY Zenon DEF Base
  <1>3. TakesStaged(cur, stg) <=> Valid(stg)
    BY <1>1, <1>2 DEF TakesStaged
  <1> QED
    BY <1>1, <1>3, Zenon DEF Selected

LEMMA RecoverInv ==
    ASSUME StoreConstants, Inv, Recover
    PROVE  Inv'
  <1>0. /\ op.pc = "idle"
        /\ UNCHANGED <<cur, stg, synced, floor, keys, faults, crashes, ghost>>
    BY Zenon DEF Recover, Idle
  <1>1. CASE GiveUp
    BY <1>0, <1>1, TypesAre, GiveUpInv, Zenon
  <1>k. /\ Base' = Base /\ Storage' /\ ToldCurrent'
    BY <1>0, CurrentKept, Zenon
  <1>2. CASE /\ ~Refused(cur, stg, floor, keys) /\ Valid(Selected(cur, stg)) /\ res' = Down
             /\ op' = [Rest EXCEPT !.pc = "r_settle", !.cand = Selected(cur, stg)]
    <2>1. Selected(cur, stg) \in Accepted
      BY <1>2, StagedIsNewer, BaseIs, Zenon DEF Inv
    <2>2. op' \in CallRecords /\ op'.pc = "r_settle" /\ op'.cand = Selected(cur, stg)
      BY <1>2, <2>1, RestIs, Zenon DEF CallRecords, Recovering
    <2>3. res' \in Residents /\ ~res'.up
      BY <1>2, RestIs, Zenon
    <2>4. HasKey(Selected(cur, stg))
      BY <1>2, Zenon DEF Refused, KeyLost, HasKey
    <2>5. Types'
      BY <1>0, <2>2, <2>3, Zenon DEF Inv, Types
    <2>6. Resident'
      BY <2>2, <2>3, Zenon DEF Resident, Preparing, Promoted
    <2>7. Stages'
      BY <1>0, <1>2, <2>2, <2>4, Zenon
      DEF Stages, Recovering, Preparing, Promoted, HasKey, Selected, TakesStaged, Valid
    <2>8. Leftovers'
      BY <1>0, <2>2, <2>3, Zenon DEF Inv, Leftovers, Valid, HasKey
    <2> QED
      BY <1>k, <2>5, <2>6, <2>7, <2>8, Zenon DEF Inv
  <1>3. CASE /\ ~Refused(cur, stg, floor, keys) /\ ~Valid(Selected(cur, stg)) /\ op' = Rest
             /\ res' = [up |-> TRUE, st |-> Blank(floor)]
    <2>1. ~Valid(stg) /\ ~Valid(cur)
      BY <1>3, StagedIsNewer, Zenon
    <2>2. cur = Absent /\ stg = Absent /\ Base = Blank(0)
      BY <1>3, <2>1, BaseIs, Zenon DEF Refused, Malformed, Inv
    <2>3. floor = 0
      <3>1. Blank(0).rev = 0 /\ floor <= Base.rev /\ floor \in 0 .. MaxRevision
        BY BlankIs, TypesAre, Zenon DEF Inv, Storage
      <3> QED
        BY <2>2, <3>1
    <2>4. op' \in CallRecords /\ op'.pc = "idle"
      BY <1>3, RestIs, Zenon
    <2>5. res' \in Residents /\ res'.st = Blank(0)
      BY <1>3, <2>3, BlankIs, Zenon DEF Residents
    <2>6. Types'
      BY <1>0, <2>4, <2>5, Zenon DEF Inv, Types
    <2>7. Resident'
      BY <1>0, <1>k, <2>2, <2>3, <2>4, <2>5, BlankIs, Zenon
      DEF Resident, Recovering, Preparing, Promoted, Destroyed
    <2>8. Stages'
      BY <2>4, Zenon DEF Stages, Recovering, Preparing, Promoted
    <2>9. Leftovers'
      BY <1>0, <2>1, <2>2, <2>4, Zenon DEF Inv, Leftovers, Valid, HasKey
    <2> QED
      BY <1>k, <2>6, <2>7, <2>8, <2>9, Zenon DEF Inv
  <1> QED
    BY <1>1, <1>2, <1>3, Zenon DEF Recover

(* A stage of the recovery, or of a commit, that leaves the resident state  *)
(* and the keys alone and nothing staged.                                   *)
LEMMA SettledStep ==
    ASSUME StoreConstants, Inv, Goto("r_floor") \/ Goto("r_destroy") \/ Goto("close") \/ Goto("floor"),
           op.pc \in Recovering <=> op'.pc \in Recovering,
           op.pc \in Recovering \cup Preparing \cup Promoted,
           Storage', ToldCurrent', cur' = op.cand, stg' = Absent,
           synced' \in BOOLEAN, floor' \in 0 .. MaxRevision,
           op'.pc = "r_destroy" => floor' = op.cand.rev,
           UNCHANGED <<res, keys, ghost, faults, crashes>>
    PROVE  Inv'
  <1>1. PICK pc \in {"r_floor", "r_destroy", "close", "floor"} : Goto(pc)
    BY Zenon
  <1>2. op' \in CallRecords /\ op'.pc = pc /\ op'.what = op.what /\ op'.cand = op.cand
    BY <1>1, GotoIs, TypesAre, Zenon DEF Recovering, Promoted
  <1>3. ~Valid(Absent)
    BY BlankIs, AcceptedIs, Zenon
  <1>4. cur' \in Accepted
    BY TypesAre, Zenon
  <1>5. Types'
    BY <1>2, <1>4, TypesAre, Zenon DEF Types
  <1>6. Resident'
    BY <1>2, Zenon DEF Inv, Resident, Recovering, Preparing, Promoted
  <1>7. Stages'
    <2>1. op'.pc \in Promoted => op.pc \in Preparing \cup Promoted
      BY <1>2, Zenon DEF Recovering, Preparing, Promoted
    <2>2. op'.pc \in Promoted =>
              /\ op.what = "reserve" => ghost.handed < op.cand.gen
              /\ op.what \notin {"rotate", "uninstall"} => Destroyed(op.cand)
      BY <2>1, Zenon DEF Inv, Stages
    <2> QED
      BY <1>2, <2>2, Zenon DEF Stages, Recovering, Preparing, Promoted, Destroyed
  <1>8. Leftovers'
    BY <1>2, <1>3, Zenon DEF Leftovers, Valid
  <1> QED
    BY <1>5, <1>6, <1>7, <1>8, Zenon DEF Inv

LEMMA RecoverSettleInv ==
    ASSUME StoreConstants, Inv, RecoverSettle
    PROVE  Inv'
  <1>0. op.pc = "r_settle" /\ UNCHANGED <<floor, keys, crashes, ghost>>
    BY Zenon DEF RecoverSettle, At
  <1>1. /\ Valid(Selected(cur, stg)) /\ op.cand = Selected(cur, stg) /\ HasKey(op.cand)
    BY <1>0, Zenon DEF Inv, Stages
  <1>2. op.cand = IF Valid(stg) THEN stg ELSE cur
    BY <1>1, StagedIsNewer, Zenon
  <1>3. CASE UNCHANGED faults
    <2>1. /\ cur' = (IF TakesStaged(cur, stg) THEN stg ELSE cur) /\ stg' = Absent
          /\ synced' = TRUE /\ Goto("r_floor") /\ UNCHANGED <<res, faults>>
      <3>1. ~Fails
        BY <1>3, TypesAre DEF Fails
      <3> QED
        BY <3>1, Zenon DEF RecoverSettle
    <2>2. cur' = op.cand
      BY <1>2, <2>1, StagedIsNewer, Zenon
    <2>3. Storage' /\ ToldCurrent'
      <3>1. CASE Valid(stg)
        BY <1>0, <1>1, <1>2, <2>1, <2>2, <3>1, CurrentReplaced, Zenon
      <3>2. CASE ~Valid(stg)
        BY <1>0, <1>2, <2>1, <2>2, <3>2, CurrentKept, Zenon
      <3> QED
        BY <3>1, <3>2, Zenon
    <2>4. op'.pc = "r_floor"
      BY <2>1, GotoIs, TypesAre, Zenon DEF Recovering
    <2>5. floor' \in 0 .. MaxRevision /\ synced' \in BOOLEAN
      BY <1>0, <2>1, TypesAre, Zenon
    <2> QED
      BY <1>0, <2>1, <2>2, <2>3, <2>4, <2>5, SettledStep, Zenon DEF Recovering
  <1>4. CASE Fails /\ GiveUp /\ UNCHANGED <<cur, stg, synced>>
    BY <1>0, <1>4, TypesAre, GiveUpInv, Zenon
  <1>5. CASE /\ Fails /\ GiveUp /\ TakesStaged(cur, stg)
             /\ cur' = stg /\ stg' = Absent /\ synced' = TRUE
    <2>1. Valid(stg) /\ HasKey(stg)
      BY <1>1, <1>2, <1>5, StagedIsNewer, Zenon
    <2>2. Storage' /\ ToldCurrent' /\ cur' \in Accepted
      BY <1>0, <1>5, <2>1, CurrentReplaced, Zenon
    <2>3. faults' \in 0 .. MaxFaults
      BY <1>5, FaultsKept, Zenon DEF Inv
    <2>4. ~Valid(stg')
      BY <1>5, BlankIs, AcceptedIs, Zenon
    <2>5. floor' \in 0 .. MaxRevision /\ synced' \in BOOLEAN /\ crashes' \in 0 .. MaxCrashes
      BY <1>0, <1>5, TypesAre, Zenon
    <2> QED
      BY <1>0, <1>5, <2>2, <2>3, <2>4, <2>5, DownInv, Zenon
  <1> QED
    BY <1>3, <1>4, <1>5, Zenon DEF RecoverSettle

LEMMA RecoverFloorInv ==
    ASSUME StoreConstants, Inv, RecoverFloor
    PROVE  Inv'
  <1>0. op.pc = "r_floor" /\ UNCHANGED <<cur, stg, synced, keys, crashes, ghost>>
    BY Zenon DEF RecoverFloor, At
  <1>1. cur = op.cand /\ stg = Absent
    BY <1>0, Zenon DEF Inv, Stages, Promoted
  <1>2. Base = op.cand /\ op.cand.rev \in Nat /\ floor <= op.cand.rev /\ floor \in Nat
    BY <1>1, TypesAre, BaseIs, AcceptedIs DEF Inv, Storage
  <1>3. CASE /\ floor' = (IF op.cand.rev > floor THEN op.cand.rev ELSE floor)
             /\ Goto("r_destroy") /\ UNCHANGED <<res, faults>>
    <2>1. floor' = op.cand.rev
      BY <1>2, <1>3
    <2>2. Storage' /\ ToldCurrent' /\ floor' \in 0 .. MaxRevision
      BY <1>0, <1>2, <2>1, CurrentKept, Zenon
    <2>3. op'.pc = "r_destroy"
      BY <1>3, GotoIs, TypesAre, Zenon DEF Recovering
    <2> QED
      BY <1>0, <1>1, <1>3, <2>1, <2>2, <2>3, TypesAre, SettledStep, Zenon DEF Recovering
  <1>4. CASE Fails /\ GiveUp /\ floor' \in {floor, op.cand.rev}
    BY <1>0, <1>2, <1>4, TypesAre, GiveUpInv, Zenon
  <1> QED
    BY <1>3, <1>4, Zenon DEF RecoverFloor

(* The record that is current and the keys, once the retired one is gone. *)
LEMMA RetiredDestroyed ==
    ASSUME StoreConstants, Inv, cur = op.cand, keys' = keys \ {op.cand.retired},
           UNCHANGED <<cur, stg, floor>>, stg = Absent
    PROVE  Base' = op.cand /\ Storage' /\ Destroyed(Base)'
  <1>1. /\ op.cand \in Accepted /\ Base = op.cand /\ HasKey(op.cand) /\ floor <= op.cand.rev
    BY TypesAre, BaseIs, Zenon DEF Inv, Storage
  <1>2. /\ op.cand.retired # NoKey /\ op.cand.local # NoKey => op.cand.retired < op.cand.local
        /\ op.cand.local \in Keys \cup {NoKey} /\ op.cand.retired \in Keys \cup {NoKey}
        /\ ~Valid(Absent)
    BY <1>1, AcceptedIs, Zenon DEF Ordered
  <1>3. op.cand.local # NoKey => op.cand.local # op.cand.retired
    BY <1>1, KeysApart, Zenon
  <1>4. op.cand.local \in keys' \cup {NoKey} /\ op.cand.retired \notin keys'
    BY <1>1, <1>3, Zenon DEF HasKey
  <1>5. Base' = Base
    BY Zenon DEF Base, Valid
  <1>6. Storage'
    BY <1>1, <1>2, <1>4, <1>5, Zenon DEF Storage, HasKey, Valid
  <1> QED
    BY <1>1, <1>4, <1>5, <1>6, Zenon DEF Destroyed

LEMMA RecoverDestroyInv ==
    ASSUME StoreConstants, Inv, RecoverDestroy
    PROVE  Inv'
  <1>0. op.pc = "r_destroy" /\ UNCHANGED <<cur, stg, synced, floor, crashes, ghost>>
    BY Zenon DEF RecoverDestroy, RecoverDestroyOf, At
  <1>1. cur = op.cand /\ stg = Absent /\ floor = op.cand.rev
    BY <1>0, Zenon DEF Inv, Stages, Promoted
  <1>2. CASE /\ keys' = keys \ {op.cand.retired} /\ res' = [up |-> TRUE, st |-> op.cand]
             /\ op' = Rest /\ UNCHANGED faults
    <2>1. Base' = op.cand /\ Base = op.cand /\ Storage' /\ Destroyed(Base)'
      BY <1>0, <1>1, <1>2, TypesAre, BaseIs, RetiredDestroyed, Zenon DEF Inv
    <2>2. ToldCurrent'
      BY <1>0, <2>1, Zenon DEF Inv, ToldCurrent
    <2>3. op' \in CallRecords /\ op'.pc = "idle"
      BY <1>2, RestIs, Zenon
    <2>4. res' \in Residents /\ res'.st = op.cand
      BY <1>2, TypesAre, Zenon DEF Residents
    <2>5. keys' \in SUBSET Keys
      BY <1>2, TypesAre, Zenon
    <2>6. Types'
      BY <1>0, <1>2, <2>3, <2>4, <2>5, Zenon DEF Inv, Types
    <2>7. Resident'
      BY <1>0, <1>1, <2>1, <2>3, <2>4, Zenon
      DEF Resident, Recovering, Preparing, Promoted, Destroyed
    <2>8. Stages'
      BY <2>3, Zenon DEF Stages, Recovering, Preparing, Promoted
    <2>9. Leftovers'
      BY <1>0, <1>1, <2>3, BlankIs, AcceptedIs, Zenon DEF Leftovers, Valid
    <2> QED
      BY <2>1, <2>2, <2>6, <2>7, <2>8, <2>9, Zenon DEF Inv
  <1>3. CASE Fails /\ GiveUp /\ UNCHANGED keys
    BY <1>0, <1>3, TypesAre, GiveUpInv, Zenon
  <1> QED
    BY <1>2, <1>3, Zenon DEF RecoverDestroy, RecoverDestroyOf

-----------------------------------------------------------------------------
(* The commit of a candidate *)

(* A step before the promotion. *)
LEMMA PreparingStep ==
    ASSUME StoreConstants, Inv, op.pc \in Preparing, NEW pc \in Preparing, Goto(pc),
           UNCHANGED <<cur, floor, keys, res, crashes, ghost>>, synced' \in BOOLEAN,
           Fails \/ UNCHANGED faults,
           stg' \in {stg, Absent, Bad} \/ (stg' = op.cand /\ pc # "undo"),
           pc # "undo" => op.pc # "undo",
           pc = "write" => stg' = Absent,
           pc \in {"sync", "commit"} => stg' = op.cand,
           pc = "cleanup" => stg' = op.cand \/ stg' = Bad,
           pc \in {"cleanup", "undo"} => Fails \/ op.pc \in {"cleanup", "undo"},
           pc = "undo" => \/ stg' = Absent
                          \/ op.pc = "discard" /\ stg' = stg
                          \/ op.pc = "cleanup" /\ Fails,
           pc # "discard"
    PROVE  Inv'
  <1>1. op' \in CallRecords /\ op'.pc = pc /\ op'.what = op.what /\ op'.cand = op.cand
        /\ op'.new = op.new
    BY GotoIs, TypesAre, Zenon
  <1>2. faults' \in 0 .. MaxFaults /\ faults <= faults' /\ (Fails => faults' >= 1)
        /\ faults \in Nat /\ faults' \in Nat /\ (Fails => faults' = faults + 1)
    BY FaultsKept, Zenon DEF Inv, Fails
  <1>3. ~Valid(Absent) /\ ~Valid(Bad)
    BY BlankIs, AcceptedIs, Zenon
  <1>4. Base' = Base
    BY Zenon DEF Base, Valid
  <1>5. /\ res.up /\ res.st = Base /\ floor = Base.rev /\ Destroyed(Base)
        /\ Follows(Base, op.cand) /\ (op.new # NoKey => op.new # Base.local)
        /\ op.pc # "undo" => HasKey(op.cand)
        /\ op.what = "reserve" => ghost.handed < op.cand.gen
        /\ op.what \notin {"rotate", "uninstall"} => Destroyed(op.cand)
    BY Zenon DEF Inv, Resident, Stages
  <1>6. stg' \in Accepted \cup {Absent, Bad}
    BY TypesAre, Zenon
  <1>7. Types'
    BY <1>1, <1>2, <1>6, TypesAre, Zenon DEF Types
  <1>8. Storage'
    BY <1>3, <1>4, <1>5, Zenon DEF Inv, Storage, Follows, HasKey, Valid
  <1>9. Resident'
    BY <1>1, <1>4, <1>5, Zenon DEF Resident, Recovering, Preparing, Promoted, Destroyed
  <1>10. Stages'
    BY <1>1, <1>4, <1>5, Zenon
    DEF Stages, Recovering, Preparing, Promoted, Destroyed, Follows, HasKey
  <1>11. ToldCurrent'
    BY <1>4, Zenon DEF Inv, ToldCurrent
  <1>12. Leftovers'
    <2>1. pc \in {"cleanup", "undo"} => faults' >= 1
      BY <1>2, Zenon DEF Inv, Leftovers
    <2>2. ASSUME faults' <= 1, Valid(stg')
          PROVE  HasKey(stg')
      <3>1. faults <= 1
        BY <1>2, <2>2
      <3>2. stg' = stg \/ (stg' = op.cand /\ pc # "undo")
        BY <1>3, <2>2, Zenon
      <3> QED
        BY <1>5, <2>2, <3>1, <3>2, Zenon DEF Inv, Leftovers
    <2>3. ASSUME faults' <= 1, pc = "undo"
          PROVE  stg' = Absent
      <3>1. faults <= 1
        BY <1>2, <2>3
      <3>2. CASE op.pc = "discard" /\ stg' = stg
        BY <1>5, <3>1, <3>2, Zenon DEF Inv, Leftovers
      <3>3. ~(op.pc = "cleanup" /\ Fails)
        BY <1>2, <2>3 DEF Inv, Leftovers
      <3> QED
        BY <2>3, <3>2, <3>3, Zenon
    <2> QED
      BY <1>1, <2>1, <2>2, <2>3, Zenon DEF Leftovers, Valid, HasKey, Preparing
  <1> QED
    BY <1>7, <1>8, <1>9, <1>10, <1>11, <1>12, Zenon DEF Inv

LEMMA PrepareInv ==
    ASSUME StoreConstants, Inv, Discard \/ Write \/ Sync \/ Cleanup
    PROVE  Inv'
  <1>0. /\ op.pc \in {"discard", "write", "sync", "cleanup"} /\ op.pc \in Preparing
        /\ UNCHANGED <<cur, floor, keys, res, crashes, ghost>>
    BY Zenon DEF Discard, Write, Sync, Cleanup, At, Preparing
  <1>1. synced \in BOOLEAN
    BY TypesAre, Zenon
  <1>2. CASE Discard
    BY <1>0, <1>1, <1>2, PreparingStep, Zenon DEF Discard, At, Preparing
  <1>3. CASE Write
    <2>1. op.pc = "write" /\ stg = Absent
      BY <1>3, Zenon DEF Write, At, Inv, Stages
    <2>2. CASE stg' = op.cand /\ synced' = FALSE /\ Goto("sync") /\ UNCHANGED faults
      BY <1>0, <2>1, <2>2, PreparingStep, Zenon DEF Preparing
    <2>3. CASE Fails /\ Goto("undo") /\ UNCHANGED <<stg, synced>>
      BY <1>0, <1>1, <2>1, <2>3, PreparingStep, Zenon DEF Preparing
    <2>4. CASE Fails /\ stg' = Bad /\ synced' = FALSE /\ Goto("cleanup")
      BY <1>0, <2>1, <2>4, PreparingStep, Zenon DEF Preparing
    <2> QED
      BY <1>3, <2>2, <2>3, <2>4, Zenon DEF Write
  <1>4. CASE Sync
    <2>1. op.pc = "sync" /\ stg = op.cand /\ stg' = stg
      BY <1>4, Zenon DEF Sync, At, Inv, Stages
    <2>2. CASE synced' = TRUE /\ Goto("commit") /\ UNCHANGED faults
      BY <1>0, <2>1, <2>2, PreparingStep, Zenon DEF Preparing
    <2>3. CASE Fails /\ Goto("cleanup") /\ UNCHANGED synced
      BY <1>0, <1>1, <2>1, <2>3, PreparingStep, Zenon DEF Preparing
    <2> QED
      BY <1>4, <2>2, <2>3, Zenon DEF Sync
  <1>5. CASE Cleanup
    BY <1>0, <1>1, <1>5, PreparingStep, Zenon DEF Cleanup, At, Preparing
  <1> QED
    BY <1>2, <1>3, <1>4, <1>5, Zenon

LEMMA PromoteInv ==
    ASSUME StoreConstants, Inv, Promote
    PROVE  Inv'
  <1>0. op.pc = "commit" /\ UNCHANGED <<synced, floor, keys, crashes, ghost>>
    BY Zenon DEF Promote, PromoteOr, At
  <1>1. stg = op.cand /\ HasKey(op.cand) /\ op.pc \in Preparing
    BY <1>0, Zenon DEF Inv, Stages, Preparing
  <1>2. Valid(stg) /\ HasKey(stg)
    BY <1>1, TypesAre, AcceptedIs, Zenon
  <1>t. synced' \in BOOLEAN /\ floor' \in 0 .. MaxRevision /\ crashes' \in 0 .. MaxCrashes
    BY <1>0, TypesAre, Zenon
  <1>3. CASE cur' = stg /\ stg' = Absent /\ Goto("close") /\ UNCHANGED <<res, faults>>
    <2>1. Storage' /\ ToldCurrent'
      BY <1>0, <1>2, <1>3, CurrentReplaced, Zenon
    <2>2. op'.pc = "close"
      BY <1>3, GotoIs, TypesAre, Zenon DEF Promoted
    <2> QED
      BY <1>0, <1>1, <1>3, <1>t, <2>1, <2>2, SettledStep, Zenon DEF Recovering
  <1>4. CASE Fails /\ Goto("cleanup") /\ UNCHANGED <<cur, stg, res>>
    BY <1>0, <1>1, <1>4, <1>t, PreparingStep, Zenon DEF Preparing
  <1>5. CASE Fails /\ GiveUp /\ UNCHANGED <<cur, stg>>
    BY <1>0, <1>5, <1>t, GiveUpInv, Zenon
  <1>6. CASE Fails /\ GiveUp /\ cur' = stg /\ stg' = Absent
    <2>1. Storage' /\ ToldCurrent' /\ cur' \in Accepted
      BY <1>0, <1>2, <1>6, CurrentReplaced, Zenon
    <2>2. faults' \in 0 .. MaxFaults
      BY <1>6, FaultsKept, Zenon DEF Inv
    <2>3. ~Valid(stg')
      BY <1>6, BlankIs, AcceptedIs, Zenon
    <2> QED
      BY <1>0, <1>6, <1>t, <2>1, <2>2, <2>3, DownInv, Zenon
  <1> QED
    BY <1>3, <1>4, <1>5, <1>6, Zenon DEF Promote, PromoteOr

LEMMA CloseInv ==
    ASSUME StoreConstants, Inv, Close
    PROVE  Inv'
  <1>0. op.pc = "close" /\ UNCHANGED <<cur, stg, synced, floor, keys, crashes, ghost>>
    BY Zenon DEF Close, At
  <1>1. cur = op.cand /\ stg = Absent
    BY <1>0, Zenon DEF Inv, Stages, Promoted
  <1>2. CASE Goto("floor") /\ UNCHANGED <<res, faults>>
    <2>1. Storage' /\ ToldCurrent'
      BY <1>0, CurrentKept, Zenon
    <2>2. op'.pc = "floor"
      BY <1>2, GotoIs, TypesAre, Zenon DEF Promoted
    <2> QED
      BY <1>0, <1>1, <1>2, <2>1, <2>2, TypesAre, SettledStep, Zenon DEF Recovering, Promoted
  <1>3. CASE Fails /\ GiveUp
    BY <1>0, <1>3, TypesAre, GiveUpInv, Zenon
  <1> QED
    BY <1>2, <1>3, Zenon DEF Close

LEMMA AdvanceFloorInv ==
    ASSUME StoreConstants, Inv, AdvanceFloor
    PROVE  Inv'
  <1>0. op.pc = "floor" /\ UNCHANGED <<cur, stg, synced, keys, crashes, ghost>>
    BY Zenon DEF AdvanceFloor, At
  <1>1. cur = op.cand /\ stg = Absent
    BY <1>0, Zenon DEF Inv, Stages, Promoted
  <1>2. Base = op.cand /\ op.cand \in Accepted
    BY <1>1, TypesAre, BaseIs, Zenon DEF Inv
  <1>3. CASE /\ floor' = op.cand.rev /\ res' = [up |-> TRUE, st |-> op.cand]
             /\ Goto("finish") /\ UNCHANGED faults
    <2>1. Storage' /\ ToldCurrent' /\ floor' \in 0 .. MaxRevision
      BY <1>0, <1>2, <1>3, CurrentKept, Zenon
    <2>2. op' \in CallRecords /\ op'.pc = "finish" /\ op'.what = op.what /\ op'.cand = op.cand
      BY <1>3, GotoIs, TypesAre, Zenon DEF Promoted
    <2>3. res' \in Residents /\ res'.st = op.cand /\ res'.up
      BY <1>2, <1>3, Zenon DEF Residents
    <2>4. Types'
      BY <1>0, <1>3, <2>1, <2>2, <2>3, Zenon DEF Inv, Types
    <2>5. Resident'
      BY <2>2, <2>3, Zenon DEF Resident, Recovering, Preparing, Promoted
    <2>6. Stages'
      <3>1. /\ op.what = "reserve" => ghost.handed < op.cand.gen
            /\ op.what \notin {"rotate", "uninstall"} => Destroyed(op.cand)
        BY <1>0, Zenon DEF Inv, Stages, Promoted
      <3> QED
        BY <1>0, <1>1, <1>3, <2>2, <3>1, Zenon
        DEF Stages, Recovering, Preparing, Promoted, Destroyed
    <2>7. Leftovers'
      BY <1>0, <1>1, <2>2, BlankIs, AcceptedIs, Zenon DEF Leftovers, Valid
    <2> QED
      BY <2>1, <2>4, <2>5, <2>6, <2>7, Zenon DEF Inv
  <1>4. CASE Fails /\ GiveUp /\ floor' \in {floor, op.cand.rev}
    BY <1>0, <1>2, <1>4, TypesAre, GiveUpInv, Zenon
  <1> QED
    BY <1>3, <1>4, Zenon DEF AdvanceFloor

LEMMA FinishInv ==
    ASSUME StoreConstants, Inv, Finish
    PROVE  Inv'
  <1>0. op.pc = "finish" /\ UNCHANGED <<cur, stg, synced, floor, crashes>>
    BY Zenon DEF Finish, At
  <1>1. /\ cur = op.cand /\ stg = Absent /\ floor = op.cand.rev /\ res.st = op.cand /\ res.up
        /\ op.what = "reserve" => ghost.handed < op.cand.gen
        /\ op.what \notin {"rotate", "uninstall"} => Destroyed(op.cand)
    BY <1>0, Zenon DEF Inv, Stages, Resident, Promoted
  <1>2. /\ Base = op.cand /\ op.cand \in Accepted /\ op.cand.gen \in Nat /\ ghost \in Ghosts
        /\ ghost.handed \in Nat /\ ~ghost.again /\ ghost.handed <= op.cand.gen
    BY <1>1, TypesAre, BaseIs, AcceptedIs, Zenon DEF Inv, ToldCurrent
  <1>3. CASE Fails /\ GiveUp /\ UNCHANGED <<keys, ghost>>
    BY <1>0, <1>3, TypesAre, GiveUpInv, Zenon
  <1>4. ASSUME Told(op.cand), op' = Rest, UNCHANGED <<res, faults>>, keys' \in SUBSET Keys,
               Base' = op.cand, Storage', Destroyed(Base)'
        PROVE  Inv'
    <2> DEFINE g == IF op.what = "reserve" THEN op.cand.gen ELSE ghost.handed
               no == ghost.again \/ (op.what = "reserve" /\ op.cand.gen <= ghost.handed)
    <2>1. no = FALSE /\ g \in Nat /\ g <= op.cand.gen
      BY <1>1, <1>2 DEF Ghosts
    <2>2. ghost' = [ghost EXCEPT !.acked = op.cand, !.handed = g, !.again = no]
      BY <1>4, Zenon DEF Told
    <2> HIDE DEF g, no
    <2>3. /\ ghost' \in Ghosts /\ ghost'.acked = op.cand /\ ghost'.handed = g /\ ~ghost'.again
      BY <1>2, <2>1, <2>2, Zenon DEF Ghosts
    <2>4. ToldCurrent'
      BY <1>2, <1>4, <2>1, <2>3, AcceptedIs DEF ToldCurrent
    <2>5. op' \in CallRecords /\ op'.pc = "idle"
      BY <1>4, RestIs, Zenon
    <2>6. Types'
      BY <1>0, <1>4, <2>3, <2>5, Zenon DEF Inv, Types
    <2>7. Resident'
      BY <1>0, <1>1, <1>4, <2>5, Zenon DEF Resident, Recovering, Preparing, Promoted
    <2>8. Stages'
      BY <2>5, Zenon DEF Stages, Recovering, Preparing, Promoted
    <2>9. Leftovers'
      BY <1>0, <1>1, <2>5, BlankIs, AcceptedIs, Zenon DEF Leftovers, Valid
    <2> QED
      BY <1>4, <2>4, <2>6, <2>7, <2>8, <2>9, Zenon DEF Inv
  <1>5. CASE /\ keys' = keys \ {op.cand.retired} /\ Told(op.cand) /\ op' = Rest
             /\ UNCHANGED <<res, faults>>
    <2>1. Base' = op.cand /\ Storage' /\ Destroyed(Base)'
      BY <1>0, <1>1, <1>5, RetiredDestroyed, Zenon
    <2>2. keys' \in SUBSET Keys
      BY <1>5, TypesAre, Zenon
    <2> QED
      BY <1>4, <1>5, <2>1, <2>2, Zenon
  <1>6. CASE /\ op.what \notin {"rotate", "uninstall"} /\ Told(op.cand) /\ op' = Rest
             /\ UNCHANGED <<keys, res, faults>>
    <2>1. Base' = op.cand
      BY <1>0, <1>2, Zenon DEF Base, Valid
    <2>2. Storage'
      BY <1>0, <1>2, <1>6, <2>1, Zenon DEF Inv, Storage, HasKey, Follows, Valid
    <2>3. Destroyed(Base)'
      BY <1>1, <1>6, <2>1, Zenon DEF Destroyed
    <2> QED
      BY <1>4, <1>6, <2>1, <2>2, <2>3, TypesAre, Zenon
  <1> QED
    BY <1>3, <1>5, <1>6, Zenon DEF Finish

LEMMA UndoInv ==
    ASSUME StoreConstants, Inv, Undo
    PROVE  Inv'
  <1>0. /\ op.pc = "undo" /\ op' = Rest
        /\ UNCHANGED <<cur, stg, synced, floor, res, crashes, ghost>>
        /\ keys' = keys \ {op.new} \/ keys' = keys
        /\ Fails \/ UNCHANGED faults
    BY Zenon DEF Undo, At
  <1>1. /\ res.up /\ res.st = Base /\ floor = Base.rev /\ Destroyed(Base) /\ HasKey(Base)
        /\ op.new # NoKey => op.new # Base.local
    BY <1>0, Zenon DEF Inv, Resident, Stages, Storage, Preparing
  <1>2. Base' = Base
    BY <1>0, Zenon DEF Base, Valid
  <1>3. Base.local \in keys' \cup {NoKey} /\ (Base.local # NoKey => Base.retired \notin keys')
    BY <1>0, <1>1, Zenon DEF HasKey, Destroyed
  <1>4. Storage'
    BY <1>0, <1>2, <1>3, Zenon DEF Inv, Storage, HasKey, Follows, Valid
  <1>5. ToldCurrent'
    BY <1>0, <1>2, Zenon DEF Inv, ToldCurrent
  <1>6. op' \in CallRecords /\ op'.pc = "idle"
    BY <1>0, RestIs, Zenon
  <1>7. faults' \in 0 .. MaxFaults /\ faults <= faults' /\ faults \in Nat /\ faults' \in Nat
    BY <1>0, FaultsKept, Zenon DEF Inv
  <1>8. Types'
    <2>1. keys' \in SUBSET Keys
      BY <1>0, TypesAre, Zenon
    <2> QED
      BY <1>0, <1>6, <1>7, <2>1, TypesAre, Zenon DEF Types
  <1>9. Resident'
    BY <1>0, <1>1, <1>2, <1>3, <1>6, Zenon DEF Resident, Recovering, Preparing, Promoted, Destroyed
  <1>10. Stages'
    BY <1>6, Zenon DEF Stages, Recovering, Preparing, Promoted
  <1>11. Leftovers'
    <2>1. faults' <= 1 => stg = Absent
      BY <1>0, <1>1, <1>7 DEF Inv, Leftovers
    <2>2. ~Valid(Absent)
      BY BlankIs, AcceptedIs, Zenon
    <2> QED
      BY <1>0, <1>6, <2>1, <2>2, Zenon DEF Leftovers, Valid
  <1> QED
    BY <1>4, <1>5, <1>8, <1>9, <1>10, <1>11, Zenon DEF Inv

-----------------------------------------------------------------------------
(* The operations *)

(* Whatever the operation: a candidate that follows the current record is   *)
(* committed, and a new key is not the one in use.                          *)
LEMMA BeginInv ==
    ASSUME StoreConstants, Inv, Ready,
           NEW what \in {"reserve", "provision", "rotate", "allow", "revoke", "uninstall"},
           NEW cand \in Accepted, NEW new \in Keys \cup {NoKey}, Begin(what, cand, new),
           Follows(res.st, cand), keys' \in SUBSET Keys, keys \subseteq keys',
           new # NoKey => new \notin keys,
           res.st.local # NoKey => res.st.retired \notin keys',
           cand.local \in keys' \cup {NoKey},
           what = "reserve" => res.st.gen < cand.gen,
           what \notin {"rotate", "uninstall"} /\ cand.local # NoKey => cand.retired \notin keys'
    PROVE  Inv'
  <1>0. /\ op.pc = "idle" /\ res.up
        /\ UNCHANGED <<cur, stg, synced, floor, res, faults, crashes, ghost>>
        /\ op' = [pc |-> "discard", what |-> what, cand |-> cand, new |-> new]
    BY Zenon DEF Ready, Idle, Begin
  <1>1. res.st = Base /\ floor = Base.rev /\ HasKey(Base)
    BY <1>0, Zenon DEF Inv, Resident, Storage
  <1>2. Base' = Base
    BY <1>0, Zenon DEF Base, Valid
  <1>3. /\ op' \in CallRecords /\ op'.pc = "discard" /\ op'.what = what /\ op'.cand = cand
        /\ op'.new = new
    BY <1>0, Zenon DEF CallRecords, Preparing
  <1>4. Types'
    BY <1>0, <1>3, TypesAre, Zenon DEF Types
  <1>5. Storage'
    BY <1>0, <1>1, <1>2, Zenon DEF Inv, Storage, HasKey, Follows, Valid
  <1>6. Resident'
    BY <1>0, <1>1, <1>2, <1>3, Zenon DEF Resident, Recovering, Preparing, Promoted, Destroyed
  <1>7. ToldCurrent'
    BY <1>0, <1>2, Zenon DEF Inv, ToldCurrent
  <1>8. Stages'
    <2>1. what = "reserve" => ghost.handed < cand.gen
      <3>1. ghost.handed \in Nat /\ Base.gen \in Nat /\ cand.gen \in Nat /\ ghost.handed <= Base.gen
        BY TypesAre, BaseIs, AcceptedIs, Zenon DEF Inv, ToldCurrent
      <3> QED
        BY <1>1, <3>1
    <2>2. new # NoKey => new # Base.local
      BY <1>1, Zenon DEF HasKey
    <2> QED
      BY <1>0, <1>1, <1>2, <1>3, <2>1, <2>2, Zenon
      DEF Stages, Recovering, Preparing, Promoted, Destroyed, Follows, HasKey
  <1>9. Leftovers'
    BY <1>0, <1>3, Zenon DEF Inv, Leftovers, Valid, HasKey
  <1> QED
    BY <1>4, <1>5, <1>6, <1>7, <1>8, <1>9, Zenon DEF Inv

(* What an operation starts from. *)
LEMMA ReadyIs ==
    ASSUME StoreConstants, Inv, Ready
    PROVE  /\ res.st \in Accepted /\ res.st \in Records /\ res.st.rev \in Nat /\ res.st.gen \in Nat
           /\ res.st.rev + 1 \in 0 .. MaxRevision /\ res.st.gen + 1 \in 0 .. MaxRevision
           /\ res.st.gen \in 0 .. MaxRevision /\ res.st.gen <= res.st.rev
           /\ Destroyed(res.st) /\ HasKey(res.st) /\ keys \in SUBSET Keys
  <1>1. res.st \in Accepted /\ Destroyed(res.st) /\ HasKey(res.st) /\ keys \in SUBSET Keys
    BY TypesAre, Zenon DEF Inv, Resident, Storage, Ready, Idle
  <1>2. /\ res.st \in Records /\ res.st.rev \in Nat /\ res.st.gen \in Nat
        /\ res.st.gen <= res.st.rev
    BY <1>1, AcceptedIs, Zenon DEF Ordered
  <1>3. res.st.rev < MaxRevision /\ MaxRevision \in Nat
    BY Zenon DEF Ready, StoreConstants
  <1> QED
    BY <1>1, <1>2, <1>3

(* A record like another but for its revision, its generation and the state *)
(* of peers that are listed in both.                                        *)
LEMMA BumpedIs ==
    ASSUME StoreConstants, NEW st \in Accepted, NEW r \in Records,
           r.rev = st.rev + 1, r.gen \in {st.gen, st.gen + 1},
           r.local = st.local, r.retired = st.retired, Used(r) = Used(st),
           \A h \in Hosts : st.peers[h] = "revoked" => r.peers[h] = "revoked"
    PROVE  r \in Accepted /\ Follows(st, r)
  <1>1. /\ st.rev \in Nat /\ st.gen \in Nat /\ Ordered(st) /\ Allowlist(st)
    BY AcceptedIs, Zenon
  <1>2. Allowlist(r)
    BY <1>1, Zenon DEF Allowlist
  <1>3. Ordered(r) /\ st.gen <= r.gen
    BY <1>1 DEF Ordered
  <1> QED
    BY <1>2, <1>3, Zenon DEF Accepted, Follows

LEMMA ReserveInv ==
    ASSUME StoreConstants, Inv, ReserveServiceGeneration
    PROVE  Inv'
  <1> DEFINE st == res.st
             r == [st EXCEPT !.rev = st.rev + 1, !.gen = st.gen + 1]
  <1>0. Ready /\ Begin("reserve", r, NoKey) /\ keys' = keys
    BY Zenon DEF ReserveServiceGeneration, Bumped
  <1>1. /\ st \in Accepted /\ st \in Records /\ st.rev \in Nat /\ st.gen \in Nat
        /\ st.rev + 1 \in 0 .. MaxRevision /\ st.gen + 1 \in 0 .. MaxRevision
        /\ Destroyed(st) /\ HasKey(st) /\ keys \in SUBSET Keys
    BY <1>0, ReadyIs, Zenon
  <1> HIDE DEF st
  <1>2. /\ r \in Records /\ r.rev = st.rev + 1 /\ r.gen = st.gen + 1
        /\ r.local = st.local /\ r.retired = st.retired /\ r.peers = st.peers
    BY <1>1, Zenon DEF Records
  <1> HIDE DEF r
  <1>3. r \in Accepted /\ Follows(st, r)
    BY <1>1, <1>2, BumpedIs, Zenon DEF Used
  <1>4. st.gen < r.gen
    BY <1>1, <1>2
  <1> QED
    BY <1>0, <1>1, <1>2, <1>3, <1>4, BeginInv, Zenon DEF Destroyed, HasKey, st

LEMMA RevokeInv ==
    ASSUME StoreConstants, Inv, NEW h \in Hosts, RevokePeer(h)
    PROVE  Inv'
  <1> DEFINE st == res.st
             p == [st.peers EXCEPT ![h] = "revoked"]
             r == [st EXCEPT !.rev = st.rev + 1, !.peers = p]
  <1>0. Ready /\ Begin("revoke", r, NoKey) /\ keys' = keys /\ st.peers[h] = "active"
    BY Zenon DEF RevokePeer, Bumped
  <1>1. /\ st \in Accepted /\ st \in Records /\ st.rev \in Nat /\ st.gen \in Nat
        /\ st.rev + 1 \in 0 .. MaxRevision
        /\ Destroyed(st) /\ HasKey(st) /\ keys \in SUBSET Keys
    BY <1>0, ReadyIs, Zenon
  <1>2. st.peers \in [Hosts -> {"none", "active", "revoked"}]
    BY <1>1, AcceptedIs, Zenon
  <1>3. /\ p \in [Hosts -> {"none", "active", "revoked"}]
        /\ p[h] = "revoked" /\ \A g \in Hosts : g # h => p[g] = st.peers[g]
    BY <1>2, Zenon
  <1> HIDE DEF st, p
  <1>4. /\ r \in Records /\ r.rev = st.rev + 1 /\ r.gen = st.gen
        /\ r.local = st.local /\ r.retired = st.retired /\ r.peers = p
    BY <1>1, <1>3, Zenon DEF Records
  <1> HIDE DEF r
  <1>5. /\ Used(r) = Used(st)
        /\ \A g \in Hosts : st.peers[g] = "revoked" => r.peers[g] = "revoked"
    BY <1>0, <1>3, <1>4, Zenon DEF Used
  <1>6. r \in Accepted /\ Follows(st, r)
    BY <1>1, <1>4, <1>5, BumpedIs, Zenon
  <1> QED
    BY <1>0, <1>1, <1>4, <1>6, BeginInv, Zenon DEF Destroyed, HasKey, st

LEMMA AllowInv ==
    ASSUME StoreConstants, Inv, NEW h \in Hosts, AllowPeer(h)
    PROVE  Inv'
  <1> DEFINE st == res.st
             p == [st.peers EXCEPT ![h] = "active"]
             r == [st EXCEPT !.rev = st.rev + 1, !.peers = p]
  <1>0. /\ Ready /\ Begin("allow", r, NoKey) /\ keys' = keys /\ st.peers[h] = "none"
        /\ Cardinality(Used(st)) < MaxPeers /\ st.local # NoKey
    BY Zenon DEF AllowPeer, AllowPeerUpTo, Bumped, Used
  <1>1. /\ st \in Accepted /\ st \in Records /\ st.rev \in Nat /\ st.gen \in Nat
        /\ st.rev + 1 \in 0 .. MaxRevision
        /\ Destroyed(st) /\ HasKey(st) /\ keys \in SUBSET Keys
    BY <1>0, ReadyIs, Zenon
  <1>2. st.peers \in [Hosts -> {"none", "active", "revoked"}] /\ Ordered(st)
    BY <1>1, AcceptedIs, Zenon
  <1>3. /\ p \in [Hosts -> {"none", "active", "revoked"}]
        /\ p[h] = "active" /\ \A g \in Hosts : g # h => p[g] = st.peers[g]
    BY <1>2, Zenon
  <1> HIDE DEF st, p
  <1>4. /\ r \in Records /\ r.rev = st.rev + 1 /\ r.gen = st.gen
        /\ r.local = st.local /\ r.retired = st.retired /\ r.peers = p
    BY <1>1, <1>3, Zenon DEF Records
  <1> HIDE DEF r
  <1>5. Used(r) = Used(st) \cup {h}
    BY <1>0, <1>3, <1>4, Zenon DEF Used
  <1>6. Cardinality(Used(r)) <= MaxPeers
    <2>1. IsFiniteSet(Used(st))
      BY FS_Subset, Zenon DEF Used, StoreConstants
    <2>2. Cardinality(Used(st)) \in Nat
      BY <2>1, FS_CardinalityType, Zenon
    <2>3. h \notin Used(st)
      BY <1>0, Zenon DEF Used
    <2>4. Cardinality(Used(r)) = Cardinality(Used(st)) + 1
      BY <1>5, <2>1, <2>3, FS_AddElement, Zenon
    <2> QED
      BY <1>0, <2>2, <2>4 DEF StoreConstants
  <1>7. r \in Accepted
    BY <1>0, <1>1, <1>2, <1>4, <1>6 DEF Accepted, Allowlist, Ordered
  <1>8. Follows(st, r)
    BY <1>0, <1>1, <1>3, <1>4 DEF Follows
  <1> QED
    BY <1>0, <1>1, <1>4, <1>7, <1>8, BeginInv, Zenon DEF Destroyed, HasKey, st

(* A record with no peers is acceptable, with or without an identity. *)
LEMMA BareIs ==
    ASSUME StoreConstants, NEW rev \in 0 .. MaxRevision, NEW g \in 0 .. MaxRevision, g <= rev,
           NEW local \in Keys \cup {NoKey}, NEW retired \in Keys \cup {NoKey},
           retired = NoKey \/ local = NoKey
    PROVE  LET r == Rec(rev, g, local, retired, NoPeers)
           IN  /\ r \in Accepted /\ r.rev = rev /\ r.gen = g /\ r.local = local
               /\ r.retired = retired
  <1> DEFINE p == NoPeers
             r == Rec(rev, g, local, retired, p)
  <1>1. p \in [Hosts -> {"none", "active", "revoked"}] /\ \A h \in Hosts : p[h] = "none"
    BY Zenon DEF NoPeers
  <1> HIDE DEF p
  <1>2. /\ r \in Records /\ r.rev = rev /\ r.gen = g /\ r.local = local /\ r.retired = retired
        /\ r.peers = p
    BY <1>1, Zenon DEF Rec, Records
  <1> HIDE DEF r
  <1>3. Used(r) = {}
    BY <1>1, <1>2, Zenon DEF Used
  <1>4. Allowlist(r) /\ Ordered(r)
    BY <1>2, <1>3, FS_EmptySet DEF Allowlist, Ordered, StoreConstants
  <1>5. r \in Accepted
    BY <1>2, <1>4, Zenon DEF Accepted
  <1> QED
    BY <1>2, <1>5, Zenon DEF r, p

LEMMA ProvisionInv ==
    ASSUME StoreConstants, Inv, NEW k \in Keys, Provision(k)
    PROVE  Inv'
  <1> DEFINE st == res.st
             r == Rec(st.rev + 1, st.gen + 1, k, NoKey, NoPeers)
  <1>0. /\ Ready /\ Begin("provision", r, k) /\ keys' = keys \cup {k} /\ k \notin keys
        /\ st.local = NoKey
    BY Zenon DEF Provision
  <1>1. /\ st \in Accepted /\ st.rev \in Nat /\ st.gen \in Nat /\ st.gen <= st.rev
        /\ st.rev + 1 \in 0 .. MaxRevision /\ st.gen + 1 \in 0 .. MaxRevision
        /\ keys \in SUBSET Keys
    BY <1>0, ReadyIs, Zenon
  <1>2. Used(st) = {} /\ NoKey \notin Keys
    BY <1>0, <1>1, AcceptedIs, KeysApart, Zenon DEF Allowlist
  <1> HIDE DEF st
  <1>3. /\ r \in Accepted /\ r.rev = st.rev + 1 /\ r.gen = st.gen + 1 /\ r.local = k
        /\ r.retired = NoKey
    <2>1. st.gen + 1 <= st.rev + 1
      BY <1>1
    <2> QED
      BY <1>1, <2>1, BareIs
  <1> HIDE DEF r
  <1>4. Follows(st, r)
    BY <1>1, <1>2, <1>3 DEF Follows, Used
  <1>5. /\ keys' \in SUBSET Keys /\ keys \subseteq keys' /\ NoKey \notin keys' /\ k \in keys'
    BY <1>0, <1>1, <1>2, Zenon
  <1> QED
    BY <1>0, <1>3, <1>4, <1>5, BeginInv, Zenon DEF st

LEMMA RotateInv ==
    ASSUME StoreConstants, Inv, NEW k \in Keys, Rotate(k)
    PROVE  Inv'
  <1> DEFINE st == res.st
             r == [st EXCEPT !.rev = st.rev + 1, !.gen = st.gen + 1, !.local = k,
                             !.retired = st.local]
  <1>0. /\ Ready /\ Begin("rotate", r, k) /\ keys' = keys \cup {k} /\ k \notin keys
        /\ st.local # NoKey /\ k > st.local
    BY Zenon DEF Rotate, Bumped
  <1>1. /\ st \in Accepted /\ st \in Records /\ st.rev \in Nat /\ st.gen \in Nat
        /\ st.gen <= st.rev
        /\ st.rev + 1 \in 0 .. MaxRevision /\ st.gen + 1 \in 0 .. MaxRevision
        /\ Destroyed(st) /\ keys \in SUBSET Keys
    BY <1>0, ReadyIs, Zenon
  <1>2. /\ st.local \in Keys \cup {NoKey} /\ Allowlist(st) /\ Ordered(st)
        /\ st.local \in Nat /\ st.retired \in Nat /\ k \in Nat /\ k # NoKey
    BY <1>1, AcceptedIs, KeysApart, Zenon DEF StoreConstants
  <1> HIDE DEF st
  <1>3. /\ r \in Records /\ r.rev = st.rev + 1 /\ r.gen = st.gen + 1
        /\ r.local = k /\ r.retired = st.local /\ r.peers = st.peers
    BY <1>1, <1>2, Zenon DEF Records
  <1> HIDE DEF r
  <1>4. r \in Accepted
    <2>1. Ordered(r)
      BY <1>0, <1>1, <1>3 DEF Ordered
    <2>2. Allowlist(r)
      BY <1>2, <1>3, Zenon DEF Allowlist, Used
    <2> QED
      BY <1>3, <2>1, <2>2, Zenon DEF Accepted
  <1>5. Follows(st, r)
    BY <1>1, <1>3 DEF Follows
  <1>6. st.retired \notin keys'
    <2>1. k # st.retired
      BY <1>0, <1>2 DEF Ordered, NoKey
    <2> QED
      BY <1>0, <1>1, <2>1, Zenon DEF Destroyed
  <1>7. keys' \in SUBSET Keys /\ keys \subseteq keys' /\ k \in keys'
    BY <1>0, <1>1, Zenon
  <1> QED
    BY <1>0, <1>3, <1>4, <1>5, <1>6, <1>7, BeginInv, Zenon DEF st

LEMMA UninstallInv ==
    ASSUME StoreConstants, Inv, Uninstall
    PROVE  Inv'
  <1> DEFINE st == res.st
             r == Rec(st.rev + 1, st.gen + 1, NoKey, st.local, NoPeers)
  <1>0. Ready /\ Begin("uninstall", r, NoKey) /\ keys' = keys
    BY Zenon DEF Uninstall, UninstallAt
  <1>1. /\ st \in Accepted /\ st.rev \in Nat /\ st.gen \in Nat /\ st.gen <= st.rev
        /\ st.rev + 1 \in 0 .. MaxRevision /\ st.gen + 1 \in 0 .. MaxRevision
        /\ Destroyed(st) /\ keys \in SUBSET Keys
    BY <1>0, ReadyIs, Zenon
  <1>2. st.local \in Keys \cup {NoKey}
    BY <1>1, AcceptedIs, Zenon
  <1> HIDE DEF st
  <1>3. /\ r \in Accepted /\ r.rev = st.rev + 1 /\ r.gen = st.gen + 1 /\ r.local = NoKey
    <2>1. st.gen + 1 <= st.rev + 1
      BY <1>1
    <2> QED
      BY <1>1, <1>2, <2>1, BareIs
  <1> HIDE DEF r
  <1>4. Follows(st, r)
    BY <1>1, <1>3 DEF Follows
  <1> QED
    BY <1>0, <1>1, <1>3, <1>4, BeginInv, Zenon DEF Destroyed, st

-----------------------------------------------------------------------------
(* The specification *)

LEMMA LossInv ==
    ASSUME StoreConstants, Inv, PowerLoss \/ Deinit
    PROVE  Inv'
  <1>1. crashes \in 0 .. MaxCrashes /\ MaxCrashes \in Nat /\ synced \in BOOLEAN
    BY TypesAre, Zenon DEF StoreConstants
  <1>2. CASE PowerLoss
    <2>1. /\ GiveUp /\ UNCHANGED <<cur, floor, keys, faults, ghost>>
          /\ stg' \in {stg, Absent, Bad} /\ synced' \in BOOLEAN
      BY <1>2, Zenon DEF PowerLoss, Survives
    <2>2. crashes' \in 0 .. MaxCrashes
      BY <1>1, <1>2 DEF PowerLoss
    <2> QED
      BY <2>1, <2>2, GiveUpInv, Zenon
  <1>3. CASE Deinit
    BY <1>1, <1>3, GiveUpInv, Zenon DEF Deinit
  <1> QED
    BY <1>2, <1>3, Zenon

LEMMA InitInv ==
    ASSUME StoreConstants, Init
    PROVE  Inv
  <1>0. /\ cur = Absent /\ stg = Absent /\ synced = TRUE /\ floor = 0 /\ keys = {}
        /\ res = Down /\ op = Rest /\ faults = 0 /\ crashes = 0
        /\ ghost = [handed |-> 0, again |-> FALSE, acked |-> Blank(0)]
    BY Zenon DEF Init
  <1>1. /\ Blank(0) \in Accepted /\ Blank(0).rev = 0 /\ Blank(0).gen = 0
        /\ Blank(0).local = NoKey /\ ~Valid(Absent)
    BY BlankIs, AcceptedIs, Zenon
  <1>2. op \in CallRecords /\ op.pc = "idle" /\ res \in Residents /\ ~res.up
    BY <1>0, RestIs, Zenon
  <1>3. Base = Blank(0) /\ ~Valid(stg)
    BY <1>0, <1>1, Zenon DEF Base
  <1>4. ghost \in Ghosts /\ ghost.handed = 0 /\ ~ghost.again /\ ghost.acked = Blank(0)
    BY <1>0, <1>1, Zenon DEF Ghosts
  <1>5. Types
    <2>1. floor \in 0 .. MaxRevision /\ faults \in 0 .. MaxFaults /\ crashes \in 0 .. MaxCrashes
      BY <1>0 DEF StoreConstants
    <2>2. synced \in BOOLEAN /\ keys \in SUBSET Keys
      BY <1>0, Zenon
    <2> QED
      BY <1>0, <1>2, <1>4, <2>1, <2>2, Zenon DEF Types
  <1>6. Storage
    BY <1>0, <1>1, <1>3 DEF Storage, HasKey
  <1>7. Resident /\ Stages
    BY <1>2, Zenon DEF Resident, Stages, Recovering, Preparing, Promoted
  <1>8. ToldCurrent
    BY <1>1, <1>3, <1>4 DEF ToldCurrent
  <1>9. Leftovers
    BY <1>2, <1>3, Zenon DEF Leftovers
  <1> QED
    BY <1>5, <1>6, <1>7, <1>8, <1>9, Zenon DEF Inv

LEMMA NextInv ==
    ASSUME StoreConstants, Inv, [Next]_vars
    PROVE  Inv'
  <1>1. CASE RecoverSteps
    BY <1>1, RecoverInv, RecoverSettleInv, RecoverFloorInv, RecoverDestroyInv, Zenon DEF RecoverSteps
  <1>2. CASE Operations
    BY <1>2, ReserveInv, UninstallInv, ProvisionInv, RotateInv, AllowInv, RevokeInv, Zenon
    DEF Operations
  <1>3. CASE CommitSteps
    BY <1>3, PrepareInv, PromoteInv, CloseInv, AdvanceFloorInv, FinishInv, UndoInv, Zenon
    DEF CommitSteps
  <1>4. CASE PowerLoss \/ Deinit
    BY <1>4, LossInv, Zenon
  <1>5. CASE UNCHANGED vars
    BY <1>5 DEF vars, Inv, Types, Storage, Resident, Stages, ToldCurrent, Leftovers, Base, Valid,
                Follows, HasKey, Destroyed, Selected, TakesStaged
  <1> QED
    BY <1>1, <1>2, <1>3, <1>4, <1>5, Zenon DEF Next

(* Inv is an invariant: the staged record is always the successor of the    *)
(* current one, and the floor never passes what is current                  *)
(* (vd_attach_auth_store_recover, vd_commit).                               *)
THEOREM Invariance == ASSUME StoreConstants PROVE Spec => []Inv
  <1>1. Init => Inv
    BY InitInv, Zenon
  <1>2. Inv /\ [Next]_vars => Inv'
    BY NextInv, Zenon
  <1> QED
    BY <1>1, <1>2, PTL DEF Spec

(* A record in memory or on storage is always one vd_state_valid accepts:   *)
(* peers only with an identity, and no more of them than the allowlist has. *)
THEOREM Typed == ASSUME StoreConstants PROVE Spec => []TypeOK
  <1>1. Inv => TypeOK
    <2> SUFFICES ASSUME Inv PROVE TypeOK
      BY Zenon
    <2>1. /\ cur \in Slots /\ stg \in Slots /\ synced \in BOOLEAN /\ floor \in 0 .. MaxRevision
          /\ keys \subseteq Keys
      BY TypesAre, Zenon DEF Slots, Accepted
    <2>2. res.up \in BOOLEAN /\ op.new \in Keys \cup {NoKey}
      BY TypesAre, Zenon DEF Residents, CallRecords
    <2>3. res.st \in Records /\ op.cand \in Records /\ Allowlist(res.st)
      BY TypesAre, Zenon DEF Accepted
    <2> QED
      BY <2>1, <2>2, <2>3, Zenon DEF TypeOK, Allowlist, Used
  <1> QED
    BY <1>1, Invariance, PTL

(* Every generation vd_attach_auth_store_reserve_service_generation returns *)
(* is above all the earlier ones, through any number of power losses and    *)
(* failed calls.                                                            *)
THEOREM GenerationsOnce == ASSUME StoreConstants PROVE Spec => []GenerationOnce
  <1>1. Inv => GenerationOnce
    BY Zenon DEF Inv, ToldCurrent, GenerationOnce
  <1> QED
    BY <1>1, Invariance, PTL

(* An available store answers from the record that is current on storage,   *)
(* and holds exactly what the last call that returned OK wrote unless a     *)
(* later record replaced it.                                                *)
THEOREM AcksSurvive == ASSUME StoreConstants PROVE Spec => []AckedSurvives
  <1>1. Inv => AckedSurvives
    <2> SUFFICES ASSUME Inv, res.up, Idle
                 PROVE  /\ Valid(cur) => res.st = cur
                        /\ res.st.rev >= ghost.acked.rev
                        /\ res.st.rev = ghost.acked.rev /\ res.st.rev > 0 => res.st = ghost.acked
      BY Zenon DEF AckedSurvives
    <2>1. res.st = Base
      BY Zenon DEF Inv, Resident, Idle
    <2>2. /\ ghost.acked.rev <= Base.rev
          /\ ghost.acked.rev = Base.rev /\ Base.rev > 0 => ghost.acked = Base
      BY Zenon DEF Inv, ToldCurrent
    <2>3. Base.rev \in Nat /\ ghost.acked.rev \in Nat
      BY BaseIs, TypesAre, AcceptedIs, Zenon DEF Inv
    <2> QED
      BY <2>1, <2>2, <2>3, Zenon DEF Base
  <1> QED
    BY <1>1, Invariance, PTL

(* An available store can sign: the private key of its identity exists, and *)
(* the key that identity replaced is destroyed.                             *)
THEOREM IdentitiesHaveKeys == ASSUME StoreConstants PROVE Spec => []IdentityHasKey
  <1>1. Inv => IdentityHasKey
    BY Zenon DEF Inv, Resident, Storage, Idle, HasKey, Destroyed, IdentityHasKey
  <1> QED
    BY <1>1, Invariance, PTL

(* With at most one failed call, whatever a power loss leaves of the staged *)
(* slot, vd_attach_auth_store_recover accepts what it finds.                *)
THEOREM AlwaysRecoverable == ASSUME StoreConstants PROVE Spec => []Recoverable
  <1>1. Inv => Recoverable
    <2> SUFFICES ASSUME Inv, Valid(cur), faults <= 1, NEW s \in Survives
                 PROVE  ~Refused(cur, s, floor, keys)
      BY Zenon DEF Recoverable
    <2>1. /\ cur \in Accepted /\ Base = cur /\ cur.rev \in Nat /\ floor <= cur.rev
          /\ cur.local \in keys \cup {NoKey} /\ ~Valid(Absent) /\ ~Valid(Bad)
          /\ floor \in Nat
      BY BaseIs, AcceptedIs, TypesAre DEF Inv, Storage, HasKey
    <2>2. s \in {stg, Absent, Bad}
      BY Zenon DEF Survives
    <2>3. CASE Valid(s)
      <3>1. s = stg /\ s.rev = cur.rev + 1 /\ s.local \in keys \cup {NoKey} /\ floor = cur.rev
        BY <2>1, <2>2, <2>3, Zenon DEF Inv, Storage, Leftovers, Follows, HasKey
      <3>2. Selected(cur, s) = s /\ s.rev # cur.rev /\ ~(s.rev < floor)
        BY <2>1, <2>3, <3>1 DEF Selected, TakesStaged
      <3> QED
        BY <2>3, <3>1, <3>2, Zenon DEF Refused, Malformed, Stale, KeyLost
    <2>4. CASE ~Valid(s)
      <3>1. Selected(cur, s) = cur /\ ~(cur.rev < floor)
        BY <2>1, <2>4 DEF Selected, TakesStaged
      <3> QED
        BY <2>1, <2>4, <3>1, Zenon DEF Refused, Malformed, Stale, KeyLost
    <2> QED
      BY <2>3, <2>4, Zenon
  <1> QED
    BY <1>1, Invariance, PTL

(* Only a staged record replaces the current one. *)
LEMMA CurrentMoves ==
    ASSUME StoreConstants, Inv, [Next]_vars
    PROVE  cur' = cur \/ (cur' = stg /\ Valid(stg))
  <1>1. CASE RecoverSteps
    BY <1>1, Zenon DEF RecoverSteps, Recover, RecoverSettle, RecoverFloor, RecoverDestroy,
                RecoverDestroyOf, TakesStaged
  <1>2. CASE Operations
    BY <1>2, Zenon DEF Operations, ReserveServiceGeneration, Uninstall, UninstallAt, Provision, Rotate,
                AllowPeer, AllowPeerUpTo, RevokePeer, Begin
  <1>3. CASE CommitSteps /\ ~Promote
    BY <1>3, Zenon DEF CommitSteps, Discard, Write, Sync, Close, AdvanceFloor, Finish, Cleanup, Undo
  <1>4. CASE Promote
    <2>1. op.pc = "commit" /\ (cur' = stg \/ cur' = cur)
      BY <1>4, Zenon DEF Promote, PromoteOr, At
    <2>2. stg = op.cand /\ op.cand \in Accepted
      BY <2>1, TypesAre, Zenon DEF Inv, Stages
    <2> QED
      BY <2>1, <2>2, AcceptedIs, Zenon
  <1>5. CASE PowerLoss \/ Deinit \/ UNCHANGED vars
    BY <1>5, Zenon DEF PowerLoss, Deinit, vars
  <1> QED
    BY <1>1, <1>2, <1>3, <1>4, <1>5, Zenon DEF Next

(* A revoked peer stays revoked in every record that replaces the current   *)
(* one, until an uninstallation clears the allowlist.                       *)
THEOREM RevocationsStand == ASSUME StoreConstants PROVE Spec => [][RevocationStands]_vars
  <1>1. Inv /\ [Next]_vars => [RevocationStands]_vars
    <2> SUFFICES ASSUME Inv, [Next]_vars, NEW h \in Hosts, Valid(cur), cur.peers[h] = "revoked"
                 PROVE  cur'.peers[h] = "revoked" \/ cur'.local = NoKey
      BY Zenon DEF RevocationStands
    <2>1. cur' = cur \/ (cur' = stg /\ Valid(stg))
      BY CurrentMoves, Zenon
    <2>2. Valid(stg) => Follows(cur, stg)
      BY BaseIs, Zenon DEF Inv, Storage
    <2> QED
      BY <2>1, <2>2, Zenon DEF Follows
  <1> QED
    BY <1>1, Invariance, PTL DEF Spec

=============================================================================
