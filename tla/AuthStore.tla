------------------------------ MODULE AuthStore ------------------------------
(***************************************************************************)
(* The persistent key store of the attach broker                           *)
(* (attach/broker/src/vitadebug_attach_auth_store.c).                      *)
(*                                                                         *)
(* One record holds the local identity, the allowlist and the service      *)
(* generation.  Every change writes a candidate record to the staged slot, *)
(* syncs it, asks the persistence backend to promote it over the current   *)
(* one, and then raises a monotonic floor kept elsewhere.  A third backend *)
(* holds the private keys.  Power may fail between any two calls, every    *)
(* call may fail, and a promotion may be reported as interrupted, its      *)
(* outcome unknown.  Recovery looks at both slots, the floor and the keys  *)
(* and decides.                                                            *)
(*                                                                         *)
(* The backends are external: what a call that succeeds, fails or is cut   *)
(* off may leave behind is what vitadebug_attach_auth_store.h asks of      *)
(* them.  A record is abstract; a slot whose bytes do not parse is Bad.    *)
(***************************************************************************)
EXTENDS Integers, FiniteSets

CONSTANTS Keys,        \* key generations a caller provisions or rotates to
          Hosts,       \* peers of the allowlist
          MaxPeers,    \* VD_ATTACH_AUTH_STORE_MAX_PEERS
          MaxRevision, \* bound: revisions
          MaxFaults,   \* bound: backend calls that fail
          MaxCrashes   \* bound: power losses

StoreConstants ==
  /\ Keys \subseteq Nat \ {0} /\ IsFiniteSet(Hosts) /\ MaxPeers \in Nat
  /\ MaxRevision \in Nat /\ MaxFaults \in Nat /\ MaxCrashes \in Nat

VARIABLES cur, stg,   \* the current and the staged slot
          synced,     \* the staged slot has been synced
          floor,      \* the monotonic floor
          keys,       \* private keys that exist
          res,        \* the resident store: [up, st]
          op,         \* the call in progress
          faults, crashes,
          ghost       \* what callers were told

vars == <<cur, stg, synced, floor, keys, res, op, faults, crashes, ghost>>

NoKey  == 0
Absent == [kind |-> "absent"]
Bad    == [kind |-> "bad"]
Rec(rev, g, local, retired, peers) ==
  [kind |-> "ok", rev |-> rev, gen |-> g, local |-> local, retired |-> retired,
   peers |-> peers]
NoPeers == [h \in Hosts |-> "none"]
Blank(n) == Rec(n, n, NoKey, NoKey, NoPeers)   \* nothing stored: rev and gen are the floor
Down   == [up |-> FALSE, st |-> Blank(0)]
Rest   == [pc |-> "idle", what |-> "none", cand |-> Blank(0), new |-> NoKey]

Init == /\ cur = Absent /\ stg = Absent /\ synced = TRUE
        /\ floor = 0 /\ keys = {}
        /\ res = Down /\ op = Rest
        /\ faults = 0 /\ crashes = 0
        /\ ghost = [handed |-> 0, again |-> FALSE, acked |-> Blank(0)]

Idle == op.pc = "idle"
Fails == faults < MaxFaults /\ faults' = faults + 1
At(pc) == op.pc = pc
Goto(pc) == op' = [op EXCEPT !.pc = pc]

\* the caller is told OK: what it may rely on from now on
Told(r) ==
  ghost' = [ghost EXCEPT !.acked = r,
                         !.handed = IF op.what = "reserve" THEN r.gen ELSE @,
                         !.again  = @ \/ (op.what = "reserve" /\ r.gen <= ghost.handed)]

-----------------------------------------------------------------------------
(* vd_attach_auth_store_recover                                            *)

Valid(s) == s.kind = "ok"
\* the newer of the valid slots is selected
TakesStaged(c, s) == Valid(s) /\ (Valid(c) => s.rev > c.rev)
Selected(c, s)    == IF TakesStaged(c, s) THEN s ELSE c

\* the reasons to refuse what is there
Malformed(c, s) == \/ ~Valid(c) /\ ~Valid(s) /\ (c # Absent \/ s # Absent)
                   \/ Valid(c) /\ Valid(s) /\ c.rev = s.rev /\ c # s
Stale(c, s, f) == Valid(Selected(c, s)) /\ Selected(c, s).rev < f
KeyLost(c, s, ks) == Valid(Selected(c, s)) /\ Selected(c, s).local \notin ks \union {NoKey}
Refused(c, s, f, ks) == Malformed(c, s) \/ Stale(c, s, f) \/ KeyLost(c, s, ks)

GiveUp == op' = Rest /\ res' = Down

\* Read the floor and both slots and judge them; refusing what is there, or a
\* read that fails, wipes the store.  With nothing stored revision and
\* generation restart from the floor.
Recover ==
  /\ Idle
  /\ IF Refused(cur, stg, floor, keys) THEN GiveUp
     ELSE IF Valid(Selected(cur, stg))
     THEN /\ op' = [Rest EXCEPT !.pc = "r_settle", !.cand = Selected(cur, stg)]
          /\ res' = Down
     ELSE op' = Rest /\ res' = [up |-> TRUE, st |-> Blank(floor)]
  /\ UNCHANGED <<cur, stg, synced, floor, keys, faults, crashes, ghost>>

\* promote the staged record (after syncing it again) or discard it
RecoverSettle ==
  /\ At("r_settle")
  /\ \/ /\ IF TakesStaged(cur, stg) THEN cur' = stg ELSE UNCHANGED cur
        /\ stg' = Absent /\ synced' = TRUE
        /\ Goto("r_floor")
        /\ UNCHANGED <<res, faults>>
     \/ Fails /\ GiveUp /\ UNCHANGED <<cur, stg, synced>>
     \/ /\ Fails /\ GiveUp                     \* promoted, but interrupted or not closed
        /\ TakesStaged(cur, stg)
        /\ cur' = stg /\ stg' = Absent /\ synced' = TRUE
  /\ UNCHANGED <<floor, keys, crashes, ghost>>

RecoverFloor ==
  /\ At("r_floor")
  /\ \/ /\ floor' = IF op.cand.rev > floor THEN op.cand.rev ELSE floor
        /\ Goto("r_destroy")
        /\ UNCHANGED <<res, faults>>
     \/ /\ op.cand.rev > floor /\ Fails /\ GiveUp
        /\ floor' \in {floor, op.cand.rev}
  /\ UNCHANGED <<cur, stg, synced, keys, crashes, ghost>>

RecoverDestroyOf(retired) ==
  /\ At("r_destroy")
  /\ \/ /\ keys' = keys \ {retired}
        /\ res' = [up |-> TRUE, st |-> op.cand]
        /\ op' = Rest
        /\ UNCHANGED faults
     \/ retired # NoKey /\ Fails /\ GiveUp /\ UNCHANGED keys
  /\ UNCHANGED <<cur, stg, synced, floor, crashes, ghost>>
RecoverDestroy == RecoverDestroyOf(op.cand.retired)

-----------------------------------------------------------------------------
(* The operations: each builds a candidate and commits it                  *)

Ready == Idle /\ res.up /\ res.st.rev < MaxRevision
Begin(what, cand, new) ==
  /\ op' = [pc |-> "discard", what |-> what, cand |-> cand, new |-> new]
  /\ UNCHANGED <<cur, stg, synced, floor, res, faults, crashes, ghost>>
Bumped == [res.st EXCEPT !.rev = @ + 1]

ReserveServiceGeneration ==
  /\ Ready /\ res.st.local # NoKey
  /\ Begin("reserve", [Bumped EXCEPT !.gen = @ + 1], NoKey)
  /\ UNCHANGED keys

\* the key is generated first; a key that cannot be generated ends the call
Provision(k) ==
  /\ Ready /\ res.st.local = NoKey /\ k \notin keys
  /\ keys' = keys \union {k}
  /\ Begin("provision", Rec(res.st.rev + 1, res.st.gen + 1, k, NoKey, NoPeers), k)

Rotate(k) ==
  /\ Ready /\ res.st.local # NoKey /\ k > res.st.local /\ k \notin keys
  /\ keys' = keys \union {k}
  /\ Begin("rotate", [Bumped EXCEPT !.gen = @ + 1, !.local = k, !.retired = res.st.local], k)

AllowPeerUpTo(h, limit, from) ==
  /\ Ready /\ res.st.local # NoKey
  /\ res.st.peers[h] \in from
  /\ Cardinality({g \in Hosts : res.st.peers[g] # "none"}) < limit
  /\ Begin("allow", [Bumped EXCEPT !.peers[h] = "active"], NoKey)
  /\ UNCHANGED keys
AllowPeer(h) == AllowPeerUpTo(h, MaxPeers, {"none"})

RevokePeer(h) ==
  /\ Ready /\ res.st.peers[h] = "active"
  /\ Begin("revoke", [Bumped EXCEPT !.peers[h] = "revoked"], NoKey)
  /\ UNCHANGED keys

\* the tombstone: no identity, no peers, the old key retired; its generation
\* continues the old one.  (Without an identity the call only destroys the
\* retired key again.)
UninstallAt(g) ==
  /\ Ready /\ res.st.local # NoKey
  /\ Begin("uninstall", Rec(res.st.rev + 1, g, NoKey, res.st.local, NoPeers), NoKey)
  /\ UNCHANGED keys
Uninstall == UninstallAt(res.st.gen + 1)

-----------------------------------------------------------------------------
(* vd_commit                                                               *)

Discard ==
  /\ At("discard")
  /\ \/ stg' = Absent /\ synced' = TRUE /\ Goto("write") /\ UNCHANGED faults
     \/ Fails /\ Goto("undo") /\ UNCHANGED <<stg, synced>>
  /\ UNCHANGED <<cur, floor, keys, res, crashes, ghost>>

\* create_staged and the write loop: not created, cut short, or written
Write ==
  /\ At("write")
  /\ \/ stg' = op.cand /\ synced' = FALSE /\ Goto("sync") /\ UNCHANGED faults
     \/ Fails /\ Goto("undo") /\ UNCHANGED <<stg, synced>>
     \/ Fails /\ stg' = Bad /\ synced' = FALSE /\ Goto("cleanup")
  /\ UNCHANGED <<cur, floor, keys, res, crashes, ghost>>

Sync ==
  /\ At("sync")
  /\ \/ synced' = TRUE /\ Goto("commit") /\ UNCHANGED faults
     \/ Fails /\ Goto("cleanup") /\ UNCHANGED synced
  /\ UNCHANGED <<cur, stg, floor, keys, res, crashes, ghost>>

\* the staged record is promoted, the floor not yet raised
PromoteOr(Interrupted) ==
  /\ At("commit")
  /\ \/ cur' = stg /\ stg' = Absent /\ Goto("close") /\ UNCHANGED <<res, faults>>
     \/ Fails /\ Goto("cleanup") /\ UNCHANGED <<cur, stg, res>>   \* an error: no promotion
     \/ /\ Fails /\ Interrupted                                   \* unknown: either
        /\ \/ cur' = stg /\ stg' = Absent
           \/ UNCHANGED <<cur, stg>>
  /\ UNCHANGED <<synced, floor, keys, crashes, ghost>>
PromoteAssumed == PromoteOr(Goto("undo") /\ UNCHANGED res)
Promote == PromoteOr(GiveUp)

Close ==
  /\ At("close")
  /\ \/ Goto("floor") /\ UNCHANGED <<res, faults>>
     \/ Fails /\ GiveUp
  /\ UNCHANGED <<cur, stg, synced, floor, keys, crashes, ghost>>

AdvanceFloor ==
  /\ At("floor")
  /\ \/ /\ floor' = op.cand.rev
        /\ res' = [up |-> TRUE, st |-> op.cand]
        /\ Goto("finish")
        /\ UNCHANGED faults
     \/ Fails /\ GiveUp /\ floor' \in {floor, op.cand.rev}
  /\ UNCHANGED <<cur, stg, synced, keys, crashes, ghost>>

\* a rotation and an uninstall end by destroying the retired key
Finish ==
  /\ At("finish")
  /\ IF op.what \in {"rotate", "uninstall"}
     THEN \/ /\ keys' = keys \ {op.cand.retired}
             /\ Told(op.cand)
             /\ op' = Rest
             /\ UNCHANGED <<res, faults>>
          \/ Fails /\ GiveUp /\ UNCHANGED <<keys, ghost>>   \* vd_mark_key_cleanup_failure
     ELSE Told(op.cand) /\ op' = Rest /\ UNCHANGED <<keys, res, faults>>
  /\ UNCHANGED <<cur, stg, synced, floor, crashes>>

\* a certain failure: the stage is discarded, its own failure ignored
Cleanup ==
  /\ At("cleanup")
  /\ \/ stg' = Absent /\ synced' = TRUE /\ UNCHANGED faults
     \/ Fails /\ UNCHANGED <<stg, synced>>
  /\ Goto("undo")
  /\ UNCHANGED <<cur, floor, keys, res, crashes, ghost>>

\* the new key of a provisioning or a rotation that certainly failed
Undo ==
  /\ At("undo")
  /\ \/ keys' = keys \ {op.new} /\ UNCHANGED faults
     \/ op.new # NoKey /\ Fails /\ UNCHANGED keys
  /\ op' = Rest
  /\ UNCHANGED <<cur, stg, synced, floor, res, crashes, ghost>>

-----------------------------------------------------------------------------

\* what a power loss leaves of the staged slot
Survives == IF synced THEN {stg} ELSE {stg, Bad, Absent}

PowerLoss ==
  /\ crashes < MaxCrashes /\ crashes' = crashes + 1
  /\ stg' \in Survives /\ synced' = TRUE
  /\ GiveUp
  /\ UNCHANGED <<cur, floor, keys, faults, ghost>>

Deinit == /\ Idle /\ res.up /\ GiveUp
          /\ UNCHANGED <<cur, stg, synced, floor, keys, faults, crashes, ghost>>

RecoverSteps == Recover \/ RecoverSettle \/ RecoverFloor \/ RecoverDestroy
Operations == \/ ReserveServiceGeneration \/ Uninstall
              \/ \E k \in Keys : Provision(k) \/ Rotate(k)
              \/ \E h \in Hosts : AllowPeer(h) \/ RevokePeer(h)
CommitSteps == \/ Discard \/ Write \/ Sync \/ Promote \/ Close \/ AdvanceFloor
               \/ Finish \/ Cleanup \/ Undo

Next == RecoverSteps \/ Operations \/ CommitSteps \/ PowerLoss \/ Deinit
Spec == Init /\ [][Next]_vars

\* a call runs to its end, and an owner that needs the store recovers it
FairSpec == /\ Spec
            /\ WF_vars(RecoverSettle \/ RecoverFloor \/ RecoverDestroy \/ CommitSteps)
            /\ WF_vars(Recover /\ ~res.up)

-----------------------------------------------------------------------------
(* Properties                                                              *)

Records == [kind : {"ok"}, rev : 0..MaxRevision, gen : 0..MaxRevision,
            local : Keys \union {NoKey}, retired : Keys \union {NoKey},
            peers : [Hosts -> {"none", "active", "revoked"}]]
Slots == Records \union {Absent, Bad}

(* Types; a record in memory is one vd_state_valid accepts: peers only     *)
(* with an identity, and at most VD_ATTACH_AUTH_STORE_MAX_PEERS.           *)
TypeOK ==
  /\ cur \in Slots /\ stg \in Slots /\ synced \in BOOLEAN
  /\ floor \in 0..MaxRevision /\ keys \subseteq Keys
  /\ res.up \in BOOLEAN /\ res.st \in Records /\ op.cand \in Records
  /\ op.new \in Keys \union {NoKey}
  /\ LET used == {h \in Hosts : res.st.peers[h] # "none"}
     IN Cardinality(used) <= MaxPeers /\ (res.st.local = NoKey => used = {})

(* A service generation is handed out once: through power losses, failed   *)
(* and interrupted commits, uninstallation and a new provisioning, every   *)
(* generation vd_attach_auth_store_reserve_service_generation returns is   *)
(* above all the earlier ones.                                             *)
GenerationOnce == ~ghost.again

(* What a caller was told is done stays done: a store that is available    *)
(* between calls answers from the record that is current on storage, which *)
(* is at or above the revision of the last call that returned OK and at    *)
(* that revision holds exactly what that call wrote.                       *)
AckedSurvives ==
  (res.up /\ Idle) =>
    /\ Valid(cur) => res.st = cur
    /\ res.st.rev >= ghost.acked.rev
    /\ res.st.rev = ghost.acked.rev /\ res.st.rev > 0 => res.st = ghost.acked

(* An available store can sign: its identity's private key exists, and the *)
(* key that identity replaced does not.                                    *)
IdentityHasKey ==
  (res.up /\ Idle /\ res.st.local # NoKey) =>
    res.st.local \in keys /\ res.st.retired \notin keys

(* A revoked peer stays revoked in every record that replaces the current  *)
(* one, rotations included, until an uninstallation clears the allowlist.  *)
RevocationStands ==
  \A h \in Hosts :
    (Valid(cur) /\ cur.peers[h] = "revoked") =>
      cur'.peers[h] = "revoked" \/ cur'.local = NoKey

(* Once a first record is current, no single failed call and no power      *)
(* loss, whenever they come, leave a store that recovery refuses: with at  *)
(* most one failed call so far, whatever a power loss now leaves of the    *)
(* staged slot, the newer valid record is at or above the floor, does not  *)
(* contradict the other one and has its private key.                       *)
Recoverable ==
  (Valid(cur) /\ faults <= 1) =>
    \A s \in Survives : ~Refused(cur, s, floor, keys)

(* A store that is down comes up again, unless nothing was ever promoted   *)
(* or two calls failed.                                                    *)
Missing == Valid(cur) /\ faults <= 1 /\ ~res.up
StoreComesBack == []<>~Missing

=============================================================================
