---------------------------- MODULE AuthListener ----------------------------
(***************************************************************************)
(* The authentication listener of the attach broker                        *)
(* (attach/broker/src/vitadebug_attach_auth_listener.c) and its Vita       *)
(* runtime (vitadebug_attach_auth_listener_vita.c).                        *)
(*                                                                         *)
(* Three threads meet here.  The worker runs                               *)
(* vd_attach_auth_listener_run: it accepts one connection at a time and    *)
(* takes it through the four-record handshake.  The owner starts and stops *)
(* the runtime.  A third thread may call vd_attach_auth_listener_shutdown  *)
(* while a start or a run is on; the owner lets it return before it stops  *)
(* the runtime itself.  They share the state word and the two registered   *)
(* sockets, listen and active, which whoever gets there first closes.      *)
(*                                                                         *)
(* A socket is a small number that the network stack gives out again as    *)
(* soon as it is closed, to the listener or to another user of the         *)
(* (borrowed) network.  Records are what the handshake tells apart: the    *)
(* host key and nonce of a HELLO, whether a PROOF matches its challenge,   *)
(* whether its signature verifies.                                         *)
(***************************************************************************)
EXTENDS Integers, FiniteSets

CONSTANTS Sockets,     \* the numbers the network stack hands out, positive
          Peers,       \* source addresses inside the configured subnet
          Keys,        \* host keys of the allowlist
          Nonces,      \* client nonces
          MaxReplays,  \* VD_ATTACH_AUTH_LISTENER_MAX_REPLAYS
          MaxFailures, \* VD_ATTACH_AUTH_LISTENER_MAX_FAILURES
          Deadline,    \* handshake_deadline_ms
          MinBackoff, MaxBackoff,  \* VD_ATTACH_AUTH_LISTENER_*_BACKOFF_MS
          Modes,       \* network modes of the runtime, owned or borrowed
          Cancels,     \* whether a third thread calls shutdown
          MaxTime,     \* bound: the clock stops here
          MaxStarts,   \* bound: runs of the runtime
          MaxFaults    \* bound: failing closes, threads and storage calls

VARIABLES state,     \* listener->state
          slot,      \* [listen, active]: the registered sockets
          socks,     \* number -> free, listen, conn (ours) or other
          th,        \* where each thread is
          cn,        \* the connection the worker serves
          replay,    \* listener->replay_nonces
          fails,     \* listener->failures: <<peer, key>> -> [n, until]
          full,      \* listener->failure_table_exhausted
          gen,       \* listener->service_generation, 0 before the first
          session,   \* listener->next_session_id
          rt,        \* the runtime: network, worker thread, its end, stop wanted
          revoked,   \* keys revoked in the store since
          now, faults,
          ghost      \* what the properties compare with

vars == <<state, slot, socks, th, cn, replay, fails, full, gen, session, rt,
          revoked, now, faults, ghost>>

Roles == {"worker", "owner", "closer"}
None    == 0                     \* VD_AUTH_SOCKET_INVALID
Closing == -1                    \* VD_AUTH_SOCKET_CLOSING
Idle    == [pc |-> "idle", slot |-> "listen", sock |-> None, ret |-> "idle",
            fin |-> "idle", bad |-> FALSE]
NoConn  == [sock |-> None, peer |-> None, key |-> None, start |-> 0, ok |-> FALSE]
Runtime == [net |-> "none", worker |-> FALSE, ended |-> FALSE, want |-> FALSE]

Init == /\ state = "stopped"
        /\ slot = [listen |-> None, active |-> None]
        /\ socks = [s \in Sockets |-> "free"]
        /\ th = [t \in Roles |-> Idle]
        /\ cn = NoConn
        /\ replay = {} /\ fails = <<>> /\ full = FALSE
        /\ gen = 0 /\ session = 1
        /\ rt = Runtime
        /\ revoked = {} /\ now = 0 /\ faults = 0
        /\ ghost = [wrong |-> FALSE, again |-> FALSE,
                    early |-> FALSE, revoked |-> FALSE, sent |-> {},
                    lost |-> FALSE, barred |-> <<>>]

Goto(t, pc) == th' = [th EXCEPT ![t].pc = pc]
At(t, pc)   == th[t].pc = pc

\* vd_auth_close_registered(slot), on return continuing at ret
Call(t, s, ret) ==
  th' = [th EXCEPT ![t] = [@ EXCEPT !.pc = "cas", !.slot = s, !.sock = None, !.ret = ret]]
Return(t, failed) ==
  th' = [th EXCEPT ![t] = [Idle EXCEPT !.pc = th[t].ret, !.fin = th[t].fin,
                                       !.bad = t # "worker" /\ (th[t].bad \/ failed)]]

-----------------------------------------------------------------------------
(* vd_auth_close_registered, step by step, for any thread                  *)

\* the compare-and-swap to CLOSING, or the early returns
Cas(t) ==
  /\ At(t, "cas")
  /\ LET s == slot[th[t].slot] IN
     CASE s = None    -> Return(t, FALSE) /\ UNCHANGED slot
       [] s = Closing -> Return(t, TRUE) /\ UNCHANGED slot
       [] OTHER       -> /\ slot' = [slot EXCEPT ![th[t].slot] = Closing]
                         /\ th' = [th EXCEPT ![t].pc = "close", ![t].sock = s]
  /\ UNCHANGED <<state, socks, cn, replay, fails, full, gen, session, rt,
                 revoked, now, faults, ghost>>

\* socket_ops.close: the number is free again, or the call failed
CloseSocket(t) ==
  /\ At(t, "close")
  /\ LET s == th[t].sock IN
     \/ /\ socks' = [socks EXCEPT ![s] = "free"]
        /\ Goto(t, "store")
        /\ ghost' = [ghost EXCEPT !.wrong = @ \/ socks[s] \in {"free", "other"}]
        /\ UNCHANGED faults
     \/ /\ faults < MaxFaults
        /\ faults' = faults + 1
        /\ Goto(t, "restore")
        /\ ghost' = [ghost EXCEPT !.lost = @ \/ t = "worker"]
        /\ UNCHANGED socks
  /\ UNCHANGED <<state, slot, cn, replay, fails, full, gen, session, rt,
                 revoked, now>>

\* the store that publishes the result of the close
Store(t) ==
  /\ th[t].pc \in {"store", "restore"}
  /\ slot' = [slot EXCEPT ![th[t].slot] = IF At(t, "store") THEN None ELSE th[t].sock]
  /\ Return(t, At(t, "restore"))
  /\ UNCHANGED <<state, socks, cn, replay, fails, full, gen, session, rt,
                 revoked, now, faults, ghost>>

\* vd_attach_auth_listener_shutdown: reject new work, then close both sockets
Shutdown(t, fin) ==
  /\ state' = IF state \in {"stopped", "stopping"} THEN state ELSE "stopping"
  /\ th' = [th EXCEPT ![t] = [Idle EXCEPT !.pc = "cas", !.slot = "active",
                                          !.ret = "listen", !.fin = fin]]

ShutdownListen(t) ==
  /\ At(t, "listen")
  /\ th' = [th EXCEPT ![t] = [Idle EXCEPT !.pc = "cas", !.ret = th[t].fin, !.bad = th[t].bad]]
  /\ UNCHANGED <<state, slot, socks, cn, replay, fails, full, gen, session, rt,
                 revoked, now, faults, ghost>>

-----------------------------------------------------------------------------
(* The worker: vd_attach_auth_listener_run and vd_auth_serve               *)

Drop == Call("worker", "active", "loop")
Stop == Call("worker", "active", "end")

\* the first check of run
Enter ==
  /\ At("worker", "entry")
  /\ Goto("worker", IF state = "running" THEN "loop" ELSE "dead")
  /\ UNCHANGED <<state, slot, socks, cn, replay, fails, full, gen, session, rt,
                 revoked, now, faults, ghost>>

\* the head of the accept loop: the state, then the registered socket
Loop ==
  /\ At("worker", "loop")
  /\ cn' = NoConn
  /\ IF state = "running" /\ slot.listen > 0
     THEN th' = [th EXCEPT !["worker"] = [Idle EXCEPT !.pc = "accept", !.sock = slot.listen]]
     ELSE Stop
  /\ UNCHANGED <<state, slot, socks, replay, fails, full, gen, session, rt,
                 revoked, now, faults, ghost>>

\* socket_ops.accept on the number read above: a slice passes without a
\* connection, a connection arrives (from the subnet or from outside it), or
\* the call fails
Accept ==
  /\ At("worker", "accept")
  /\ LET l == th["worker"].sock IN
     IF socks[l] # "listen"
     THEN /\ Stop
          /\ UNCHANGED <<socks, cn, faults, ghost>>
     ELSE \/ Goto("worker", "loop") /\ UNCHANGED <<socks, cn, faults, ghost>>
          \/ \E s \in Sockets, p \in Peers \union {None} :
               /\ socks[s] = "free"
               /\ socks' = [socks EXCEPT ![s] = "conn"]
               /\ cn' = [NoConn EXCEPT !.sock = s, !.peer = p]
               /\ Goto("worker", IF p = None THEN "reject" ELSE "register")
               /\ UNCHANGED <<faults, ghost>>
          \/ /\ faults < MaxFaults
             /\ faults' = faults + 1
             /\ Stop
             /\ UNCHANGED <<socks, cn, ghost>>
  /\ UNCHANGED <<state, slot, replay, fails, full, gen, session, rt, revoked, now>>

\* a peer outside the subnet is closed at once; a failing close is only counted
Reject ==
  /\ At("worker", "reject")
  /\ Goto("worker", "loop")
  /\ \/ socks' = [socks EXCEPT ![cn.sock] = "free"] /\ UNCHANGED <<faults, ghost>>
     \/ /\ faults < MaxFaults
        /\ faults' = faults + 1
        /\ ghost' = [ghost EXCEPT !.lost = TRUE]
        /\ UNCHANGED socks
  /\ UNCHANGED <<state, slot, cn, replay, fails, full, gen, session, rt, revoked, now>>

\* the check vd_auth_exact_read and _write make before they call the socket
Enters(pc) == IF state = "stopping" THEN Drop ELSE Goto("worker", pc)

\* publish the active socket and begin to wait for the HELLO
Register ==
  /\ At("worker", "register")
  /\ slot' = [slot EXCEPT !.active = cn.sock]
  /\ cn' = [cn EXCEPT !.start = now]
  /\ Enters("hello")
  /\ UNCHANGED <<state, socks, replay, fails, full, gen, session, rt, revoked,
                 now, faults, ghost>>

\* a read or a write that ends the handshake: the peer left, the deadline
\* passed, the socket was closed under it or its number is someone else's
Cut(pc) ==
  /\ At("worker", pc)
  /\ Drop
  /\ UNCHANGED <<state, slot, socks, cn, replay, fails, full, gen, session, rt,
                 revoked, now, faults, ghost>>

\* vd_auth_record_failure: exponential backoff, or the table is exhausted
Pair(p, k) == <<p, k>>
Backoff(n) == LET d == MinBackoff * 2 ^ (IF n > 6 THEN 5 ELSE n - 1)
              IN IF d > MaxBackoff THEN MaxBackoff ELSE d
RecordFailure(x, at) ==
  LET known == x \in DOMAIN fails
      n     == IF known THEN fails[x].n + 1 ELSE 1
      room  == known \/ Cardinality(DOMAIN fails) < MaxFailures
      until == at + (IF room THEN Backoff(n) ELSE MaxBackoff)
  IN /\ fails' = IF room THEN [y \in DOMAIN fails \union {x} |->
                               IF y = x THEN [n |-> n, until |-> until] ELSE fails[y]]
                         ELSE fails
     /\ full' = (full \/ ~room)
     /\ ghost' = [ghost EXCEPT !.barred = [y \in DOMAIN @ \union {x} |->
                                   IF y = x THEN until ELSE @[y]]]

\* vd_auth_rate_limited, judged at the time the connection was taken
Limited(x) == full \/ (x \in DOMAIN fails /\ cn.start < fails[x].until)

\* The HELLO: rate limit, replay, allowlist, challenge.  The nonce is recorded
\* before the challenge leaves.
HelloWith(remembered) ==
  /\ At("worker", "hello")
  /\ socks[cn.sock] = "conn"
  /\ \E k \in Keys, n \in Nonces :
       LET x == Pair(cn.peer, k) IN
       /\ cn' = [cn EXCEPT !.key = k]
       /\ IF Limited(x) \/ (n \notin replay /\ Cardinality(replay) >= MaxReplays)
          THEN Drop /\ UNCHANGED <<replay, fails, full, session, ghost>>
          ELSE IF n \in replay \/ k \in revoked
          THEN Drop /\ RecordFailure(x, cn.start) /\ UNCHANGED <<replay, session>>
          ELSE /\ session' = session + 1
               /\ replay' = IF remembered THEN replay \union {n} ELSE replay
               /\ ghost' = [ghost EXCEPT
                     !.again = @ \/ <<gen, n>> \in ghost.sent,
                     !.sent  = @ \union {<<gen, n>>},
                     !.early = @ \/ (x \in DOMAIN ghost.barred /\ now < ghost.barred[x])]
               /\ Enters("challenge")
               /\ UNCHANGED <<fails, full>>
  /\ UNCHANGED <<state, slot, socks, gen, rt, revoked, now, faults>>

Hello == HelloWith(TRUE)

\* no challenge can be made: the store or the entropy source failed
NoChallenge ==
  /\ At("worker", "hello")
  /\ faults < MaxFaults
  /\ faults' = faults + 1
  /\ Drop
  /\ UNCHANGED <<state, slot, socks, cn, replay, fails, full, gen, session, rt,
                 revoked, now, ghost>>

\* the challenge is written; wait for the PROOF
Challenge ==
  /\ At("worker", "challenge")
  /\ socks[cn.sock] = "conn"
  /\ Enters("proof")
  /\ UNCHANGED <<state, slot, socks, cn, replay, fails, full, gen, session, rt,
                 revoked, now, faults, ghost>>

\* The PROOF: it does not match the challenge or is late, its key is no longer
\* allowed or its signature is wrong (both are failures), or it is good.
Proof ==
  /\ At("worker", "proof")
  /\ socks[cn.sock] = "conn"
  /\ \E good \in BOOLEAN :
       IF good /\ now < cn.start + Deadline /\ cn.key \notin revoked
       THEN Enters("grant") /\ UNCHANGED <<fails, full, ghost>>
       ELSE Drop /\ RecordFailure(Pair(cn.peer, cn.key), now)
  /\ cn' = [cn EXCEPT !.ok = cn.key \notin revoked]
  /\ UNCHANGED <<state, slot, socks, replay, gen, session, rt, revoked, now, faults>>

\* the signed result is written and the failures of the pair are forgotten
Grant ==
  /\ At("worker", "grant")
  /\ socks[cn.sock] = "conn"
  /\ LET x == Pair(cn.peer, cn.key) IN
     /\ fails' = [y \in DOMAIN fails \ {x} |-> fails[y]]
     /\ ghost' = [ghost EXCEPT !.revoked = @ \/ ~cn.ok,
                               !.barred  = [y \in DOMAIN @ \ {x} |-> @[y]]]
  /\ Drop
  /\ UNCHANGED <<state, slot, socks, cn, replay, full, gen, session, rt, revoked,
                 now, faults>>

\* after the loop: both sockets, the replay table, the state
EndListen ==
  /\ At("worker", "end")
  /\ Call("worker", "listen", "final")
  /\ UNCHANGED <<state, slot, socks, cn, replay, fails, full, gen, session, rt,
                 revoked, now, faults, ghost>>

Final ==
  /\ At("worker", "final")
  /\ replay' = {}
  /\ state' = "stopped"
  /\ th' = [th EXCEPT !["worker"] = [Idle EXCEPT !.pc = "dead"]]
  /\ cn' = NoConn
  /\ UNCHANGED <<slot, socks, fails, full, gen, session, rt, revoked, now,
                 faults, ghost>>

Close(t) == Cas(t) \/ CloseSocket(t) \/ Store(t)

Worker == \/ Close("worker") \/ Enter \/ Loop \/ Accept \/ Reject \/ Register
          \/ \E pc \in {"hello", "challenge", "proof", "grant"} : Cut(pc)
          \/ Hello \/ NoChallenge \/ Challenge \/ Proof \/ Grant
          \/ EndListen \/ Final

-----------------------------------------------------------------------------
(* The owner: the runtime around the listener                              *)

\* prepare_standalone or prepare_borrowed, then vd_attach_auth_listener_init
Prepare(mode) ==
  /\ At("owner", "idle") /\ At("closer", "idle")
  /\ rt.net = "none" /\ gen < MaxStarts
  /\ rt' = [Runtime EXCEPT !.net = mode]
  /\ state' = "stopped"
  /\ slot' = [listen |-> None, active |-> None]
  /\ th' = [th EXCEPT !["owner"] = [Idle EXCEPT !.pc = "prepared"], !["worker"] = Idle]
  /\ UNCHANGED <<socks, cn, replay, fails, full, gen, session, revoked, now,
                 faults, ghost>>

\* vd_attach_auth_listener_start: claim the state
Start ==
  /\ At("owner", "prepared") /\ At("closer", "idle")
  /\ ~rt.want /\ gen < MaxStarts
  /\ slot = [listen |-> None, active |-> None]
  /\ state = "stopped"
  /\ state' = "starting"
  /\ Goto("owner", "open")
  /\ UNCHANGED <<slot, socks, cn, replay, fails, full, gen, session, rt, revoked,
                 now, faults, ghost>>

\* reserve a generation and open the endpoint, or give the state back
Open ==
  /\ At("owner", "open")
  /\ \/ /\ \E s \in Sockets :
             /\ socks[s] = "free"
             /\ socks' = [socks EXCEPT ![s] = "listen"]
             /\ th' = [th EXCEPT !["owner"].pc = "publish", !["owner"].sock = s]
        /\ gen' = gen + 1 /\ session' = 1
        /\ replay' = {} /\ fails' = <<>> /\ full' = FALSE
        /\ ghost' = [ghost EXCEPT !.barred = <<>>]
        /\ UNCHANGED <<state, faults>>
     \/ /\ faults < MaxFaults
        /\ faults' = faults + 1
        /\ state' = "stopped"
        /\ Goto("owner", "prepared")
        /\ UNCHANGED <<socks, replay, fails, full, gen, session, ghost>>
  /\ UNCHANGED <<slot, cn, rt, revoked, now>>

Publish ==
  /\ At("owner", "publish")
  /\ slot' = [slot EXCEPT !.listen = th["owner"].sock]
  /\ Goto("owner", "run")
  /\ UNCHANGED <<state, socks, cn, replay, fails, full, gen, session, rt, revoked,
                 now, faults, ghost>>

\* STARTING becomes RUNNING, or a shutdown came in between
Run ==
  /\ At("owner", "run")
  /\ IF state = "starting"
     THEN /\ state' = "running"
          /\ th' = [th EXCEPT !["owner"] = [Idle EXCEPT !.pc = "ready"]]
     ELSE Call("owner", "listen", "undo") /\ UNCHANGED state
  /\ UNCHANGED <<slot, socks, cn, replay, fails, full, gen, session, rt, revoked,
                 now, faults, ghost>>

Undo ==
  /\ At("owner", "undo")
  /\ state' = "stopped"
  /\ th' = [th EXCEPT !["owner"] = [Idle EXCEPT !.pc = "prepared"]]
  /\ UNCHANGED <<slot, socks, cn, replay, fails, full, gen, session, rt, revoked,
                 now, faults, ghost>>

\* vd_attach_auth_vita_runtime_start_worker: a thread, or a shutdown
StartWorker ==
  /\ At("owner", "ready") /\ ~rt.want /\ ~rt.worker
  /\ state = "running"
  /\ \/ /\ rt' = [rt EXCEPT !.worker = TRUE]
        /\ th' = [th EXCEPT !["worker"].pc = "entry"]
        /\ UNCHANGED <<state, faults>>
     \/ /\ faults < MaxFaults
        /\ faults' = faults + 1
        /\ Shutdown("owner", "ready")
        /\ UNCHANGED rt
  /\ UNCHANGED <<slot, socks, cn, replay, fails, full, gen, session, revoked,
                 now, ghost>>

\* vd_attach_auth_vita_runtime_stop: shut the listener down ...
StopRuntime ==
  /\ th["owner"].pc \in {"prepared", "ready"} /\ At("closer", "idle")
  /\ Shutdown("owner", "join")
  /\ rt' = [rt EXCEPT !.want = TRUE]
  /\ UNCHANGED <<slot, socks, cn, replay, fails, full, gen, session, revoked,
                 now, faults, ghost>>

\* ... wait for the worker (three seconds, then the caller tries again) ...
Join ==
  /\ At("owner", "join")
  /\ IF rt.worker /\ ~rt.ended
     THEN IF At("worker", "dead")
          THEN rt' = [rt EXCEPT !.ended = TRUE] /\ Goto("owner", "delete")
          ELSE Goto("owner", "ready") /\ UNCHANGED rt
     ELSE Goto("owner", "delete") /\ UNCHANGED rt
  /\ UNCHANGED <<state, slot, socks, cn, replay, fails, full, gen, session,
                 revoked, now, faults, ghost>>

\* ... delete its thread; a socket that did not close ends this attempt ...
Delete ==
  /\ At("owner", "delete")
  /\ \/ /\ rt' = [rt EXCEPT !.worker = FALSE, !.ended = FALSE]
        /\ Goto("owner", IF th["owner"].bad THEN "ready" ELSE "teardown")
        /\ UNCHANGED faults
     \/ /\ rt.worker /\ faults < MaxFaults
        /\ faults' = faults + 1
        /\ Goto("owner", "ready")
        /\ UNCHANGED rt
  /\ UNCHANGED <<state, slot, socks, cn, replay, fails, full, gen, session,
                 revoked, now, ghost>>

\* ... and release the network only if the runtime owns it, term before unload
Teardown ==
  /\ At("owner", "teardown")
  /\ \/ /\ rt' = IF rt.net = "owned" THEN [rt EXCEPT !.net = "module"] ELSE Runtime
        /\ Goto("owner", IF rt.net = "owned" THEN "teardown" ELSE "idle")
        /\ UNCHANGED faults
     \/ /\ rt.net # "borrowed" /\ faults < MaxFaults
        /\ faults' = faults + 1
        /\ Goto("owner", "ready")
        /\ UNCHANGED rt
  /\ UNCHANGED <<state, slot, socks, cn, replay, fails, full, gen, session,
                 revoked, now, ghost>>

Owner == \/ Close("owner") \/ ShutdownListen("owner")
         \/ \E mode \in Modes : Prepare(mode)
         \/ Start \/ Open \/ Publish \/ Run \/ Undo \/ StartWorker
         \/ StopRuntime \/ Join \/ Delete \/ Teardown

\* another thread cancels a start or a run
CancelListener ==
  /\ Cancels /\ At("closer", "idle") /\ ~rt.want
  /\ state = "starting" \/ th["worker"].pc \notin {"idle", "dead"}
  /\ Shutdown("closer", "idle")
  /\ UNCHANGED <<slot, socks, cn, replay, fails, full, gen, session, rt, revoked,
                 now, faults, ghost>>

Closer == CancelListener \/ Close("closer") \/ ShutdownListen("closer")

-----------------------------------------------------------------------------
(* The surroundings                                                        *)

\* another user of a borrowed network opens and closes sockets
Others ==
  /\ rt.net = "borrowed"
  /\ \E s \in Sockets :
       \/ socks[s] = "free"  /\ socks' = [socks EXCEPT ![s] = "other"]
       \/ socks[s] = "other" /\ socks' = [socks EXCEPT ![s] = "free"]
  /\ UNCHANGED <<state, slot, th, cn, replay, fails, full, gen, session, rt,
                 revoked, now, faults, ghost>>

\* vd_attach_auth_store_revoke_peer
Revoke(k) ==
  /\ k \notin revoked
  /\ revoked' = revoked \union {k}
  /\ UNCHANGED <<state, slot, socks, th, cn, replay, fails, full, gen, session, rt,
                 now, faults, ghost>>

Tick ==
  /\ now < MaxTime
  /\ now' = now + 1
  /\ UNCHANGED <<state, slot, socks, th, cn, replay, fails, full, gen, session, rt,
                 revoked, faults, ghost>>

Next == \/ Worker \/ Owner \/ Closer \/ Others \/ Tick
        \/ \E k \in Keys : Revoke(k)

Spec == Init /\ [][Next]_vars

\* Every thread keeps running; the clock and the other users owe nothing.
\* The owner, once it wants the runtime stopped, tries again until it is.
FairSpec == /\ Spec
            /\ WF_vars(Worker)
            /\ WF_vars(Closer /\ ~At("closer", "idle"))
            /\ WF_vars(Owner /\ (rt.want \/ th["owner"].pc \notin {"idle", "prepared", "ready"}))
            /\ WF_vars(StartWorker)

-----------------------------------------------------------------------------
(* The state is well formed, and neither table exceeds its capacity.        *)
TypeOK ==
  /\ state \in {"stopped", "starting", "running", "stopping"}
  /\ slot \in [{"listen", "active"} -> Sockets \union {None, Closing}]
  /\ socks \in [Sockets -> {"free", "listen", "conn", "other"}]
  /\ \A t \in Roles : th[t].slot \in {"listen", "active"} /\ th[t].sock \in Sockets \union {None}
  /\ cn.sock \in Sockets \union {None} /\ cn.peer \in Peers \union {None}
  /\ replay \subseteq Nonces /\ Cardinality(replay) <= MaxReplays
  /\ DOMAIN fails \subseteq Peers \X Keys /\ Cardinality(DOMAIN fails) <= MaxFailures
  /\ rt.net \in {"none", "owned", "borrowed", "module"}
  /\ gen \in 0..MaxStarts /\ now \in 0..MaxTime /\ faults \in 0..MaxFaults

\* vd_auth_close_registered never closes a number that is not the listener's:
\* whoever claims a slot with the compare-and-swap is the only one to close the
\* socket in it, so a number that another user of the network was given in the
\* meantime is left alone.
ClosesOwn == ~ghost.wrong

\* vd_attach_auth_vita_runtime_stop terminates the network only when the worker
\* is gone and every socket of the listener is closed, whichever thread closed
\* it and however often it took.  The exception is a run in which the worker's
\* own close failed: it has no way to hand that obligation on.
TornDown ==
  rt.net \in {"none", "module"} =>
    /\ th["worker"].pc \in {"idle", "dead"}
    /\ ghost.lost \/ \A s \in Sockets : socks[s] \in {"free", "other"}

\* A cancelled start stays cancelled: once a shutdown of a starting listener
\* has returned, the worker is not let loose on the endpoint it opened.
\* (vd_attach_auth_listener_start checks the state it left.)
CancelledStart ==
  At("closer", "listen") /\ state = "stopping" /\ th["owner"].pc \in {"open", "publish", "run"}
    => state' # "running"

\* In one service generation a client nonce gets one challenge, whatever
\* happened to the handshake it came with.
ChallengedOnce == ~ghost.again

\* A failed pair of address and host key gets no challenge before its backoff
\* has passed, not even when the failure table had no slot for it.
BackoffKept == ~ghost.early

\* A key revoked before its PROOF arrived is not authenticated, although the
\* HELLO found it allowed.
RevokedRefused == ~ghost.revoked

\* Once the owner wants the runtime stopped it comes down, with every close,
\* join and teardown that failed retried.
Stopping == rt.want /\ rt.net # "none"
StopCompletes == []<>~Stopping

====
