----------------------------- MODULE DeployAgent -----------------------------
(***************************************************************************)
(* The deployment agent on the Vita (deploy/agent/src): one launch creates  *)
(* a fresh challenge, takes a signed job from FTP or from its direct TCP    *)
(* intake, processes exactly one committed job and exits.                   *)
(*                                                                         *)
(* Storage is a set of directory entries (Cells).  `disk` is what file      *)
(* system calls see, `safe` what is known to survive: a rename or a removal *)
(* changes `disk`, a synchronisation copies cells to `safe`, and a power    *)
(* loss keeps, cell by cell, either value.  The link of a job and of the    *)
(* directories below it counts with its package cell: synchronising the     *)
(* parent of request.v1 does not cover it, only the device barrier does.    *)
(*                                                                         *)
(* A file operation that fails costs one of MaxFaults.  Signatures, hashes  *)
(* and formats are those of a job that was signed and sent as prepared, so  *)
(* every check that can fail does so for a fault, a lost connection, a      *)
(* stale nonce or an incomplete tree.  The crash journal is left out: its   *)
(* errors are faults of the step it belongs to.                             *)
(***************************************************************************)
EXTENDS Integers, FiniteSets, FiniteSetsExt

CONSTANTS
    Jobs,           \* job ids, in the order of their names
    Nonces,         \* challenge nonces; enough that a fresh one always exists
    MaxFaults,      \* bound: storage and service calls that fail
    MaxCrashes      \* bound: power losses and killed agents

VARIABLES
    disk,           \* [Cells -> value]: what the file system shows
    safe,           \* [Cells -> value]: what a power loss cannot take
    ag,             \* the agent process
    conn,           \* the direct connection being served
    signed,         \* [Jobs -> the nonce and action the host signed]
    ghost,          \* [Jobs -> what really happened to the job]
    faults,
    crashes

deviceVars == <<disk, safe>>

NoJob == 0
NoNonce == 0
NoAck == <<0, "none">>

Req(j) == <<"request.v1", j>>
Pkg(j) == <<"package", j>>
Res(j) == <<"result", j>>
Stage == <<"vdd_pkg", 0>>           \* VDEV_PROMOTE_ROOT
Mark == <<"promote.state", 0>>      \* VDEV_PROMOTE_STATE
Chal == <<"challenge.v1", 0>>

Cells == {Req(j) : j \in Jobs} \cup {Pkg(j) : j \in Jobs} \cup {Res(j) : j \in Jobs}
            \cup {Stage, Mark, Chal}

Value(c) ==
    CASE c[1] \in {"request.v1", "challenge.v1"} -> Nonces \cup {NoNonce}
      [] c[1] = "package" -> {"none", "part", "whole"}
      [] c[1] = "result" -> {"none", "success", "failed"}
      [] OTHER -> Jobs \cup {NoJob}

Empty == [c \in Cells |->
            CASE c[1] \in {"package", "result"} -> "none"
              [] OTHER -> 0]

(* The locals of main, handle_client and process_job that outlive a step.    *)
Asleep == [pc |-> "off", nonce |-> NoNonce, job |-> NoJob, code |-> "ok",
           written |-> FALSE, relocated |-> FALSE, dispatched |-> FALSE,
           clear |-> FALSE]

(* No connection; `cut` says that nothing more can be received from it.      *)
NoConn == [job |-> NoJob, sent |-> "none", ack |-> NoAck, cut |-> TRUE]

Codes == {"ok", "sig", "replay", "unknown", "error"}

PCs == {"off", "wait", "client", "accepted", "files", "rename", "sync", "barrier",
        "rejectAuth", "rejectSilent", "rejectPayload", "scan",
        "check", "tree", "stale", "markSync", "move", "moveSync", "promote",
        "promoting", "won", "wonSync", "unmark",
        "failed", "restoreSync", "report", "reportSync"}

DeviceInit ==
    /\ disk = Empty /\ safe = Empty
    /\ ag = Asleep
    /\ conn = NoConn
    /\ ghost = [j \in Jobs |-> [reported |-> FALSE, taken |-> FALSE,
                             dispatched |-> 0, installed |-> FALSE]]
    /\ faults = 0 /\ crashes = 0

DeviceTypeOK ==
    /\ \A v \in {disk, safe} : DOMAIN v = Cells /\ \A c \in Cells : v[c] \in Value(c)
    /\ ag.pc \in PCs /\ ag.nonce \in Nonces \cup {NoNonce} /\ ag.job \in Jobs \cup {NoJob}
    /\ ag.code \in Codes
    /\ conn.job \in Jobs \cup {NoJob} /\ conn.sent \in {"none", "meta", "payload"}
    /\ conn.ack \in {NoAck} \cup ({1, 2} \X Codes) /\ conn.cut \in BOOLEAN
    /\ faults \in 0 .. MaxFaults /\ crashes \in 0 .. MaxCrashes

-----------------------------------------------------------------------------
Go(pc) == ag' = [ag EXCEPT !.pc = pc]
GoWith(pc, code) == ag' = [ag EXCEPT !.pc = pc, !.code = code]

Fault == faults < MaxFaults /\ faults' = faults + 1
NoFault == UNCHANGED faults

Put(c, v) == disk' = [disk EXCEPT ![c] = v]
Flush(C) == safe' = [c \in Cells |-> IF c \in C THEN disk[c] ELSE safe[c]]

-----------------------------------------------------------------------------
(* main.c: launch, challenge, the waiting loop and the scan of the inbox.    *)

Fresh == Nonces \ ({disk[Chal]} \cup {disk[Req(j)] : j \in Jobs}
                    \cup {safe[Req(j)] : j \in Jobs} \cup {signed[j].nonce : j \in Jobs})

(* main up to the loop; create_challenge replaces challenge.v1.  A failure   *)
(* ends the process with the old challenge gone.                            *)
Launch ==
    /\ ag.pc = "off"
    /\ LET n == Min(Fresh) IN
       \/ /\ ag' = [Asleep EXCEPT !.pc = "wait", !.nonce = n]
          /\ disk' = [disk EXCEPT ![Chal] = n]
          /\ safe' = [safe EXCEPT ![Chal] = n]
          /\ NoFault
       \/ Fault /\ (\E v \in {NoNonce, n} : Put(Chal, v)) /\ UNCHANGED <<ag, safe>>
    /\ UNCHANGED <<conn, ghost>>

(* waiting_exit_requested: the operator closes the agent. *)
Leave ==
    /\ ag.pc = "wait"
    /\ ag' = Asleep
    /\ NoFault /\ UNCHANGED <<deviceVars, conn, ghost>>

(* vdev_find_committed_job: the first job with request.v1 and no result.     *)
Committed == {j \in Jobs : disk[Req(j)] # NoNonce /\ disk[Res(j)] = "none"}

(* A broken connection without an acknowledgement under way has no more      *)
(* effect once the agent has left it.                                       *)
Forgotten == IF conn.cut /\ conn.ack = NoAck THEN NoConn ELSE conn

Scan ==
    /\ ag.pc = "scan" \/ (ag.pc = "wait" /\ Committed # {})
    /\ \/ /\ ag' = IF Committed = {} THEN [ag EXCEPT !.pc = "wait"]
                   ELSE [ag EXCEPT !.pc = "check", !.job = Min(Committed)]
          /\ NoFault
       \/ Fault /\ ag' = Asleep
    /\ conn' = Forgotten
    /\ UNCHANGED <<deviceVars, ghost>>

-----------------------------------------------------------------------------
(* direct_intake.c: handle_client, from the metadata of conn.job on.         *)

Ack(phase, code) ==
    conn' = IF conn.cut THEN conn ELSE [conn EXCEPT !.ack = <<phase, code>>]

(* Receive and check the metadata: nonce, result_exists, request.v1 exists.  *)
Verdict(j) ==
    IF signed[j].nonce # ag.nonce THEN "sig"
    ELSE IF disk[Res(j)] # "none" \/ disk[Req(j)] # NoNonce THEN "replay" ELSE "ok"

Authenticate ==
    /\ ag.pc = "client"
    /\ \/ /\ Verdict(conn.job) = "ok"
          /\ ag' = [ag EXCEPT !.pc = "accepted", !.job = conn.job]
          /\ NoFault /\ UNCHANGED conn
       \/ /\ Verdict(conn.job) # "ok"
          /\ Ack(1, Verdict(conn.job)) /\ Go("scan") /\ NoFault
       \/ Fault /\ Ack(1, "error") /\ Go("scan")
       \/ conn.cut /\ Go("scan") /\ NoFault /\ UNCHANGED conn
    /\ UNCHANGED <<deviceVars, ghost>>

(* reset_uncommitted_job with its proof of absence: everything of the job    *)
(* is removed, and the inbox synchronised.                                  *)
Reset(j) ==
    /\ disk' = [disk EXCEPT ![Req(j)] = NoNonce, ![Pkg(j)] = "none"]
    /\ safe' = [safe EXCEPT ![Req(j)] = NoNonce, ![Pkg(j)] = "none"]

ResetHalfway(j) ==
    /\ \E v \in {"none", "part"} :
          disk' = [disk EXCEPT ![Req(j)] = NoNonce, ![Pkg(j)] = v]
    /\ UNCHANGED safe

(* The job directory is started afresh, with its manifest and signature, and *)
(* the first acknowledgement is sent.                                       *)
StageJob ==
    /\ ag.pc = "accepted"
    /\ \/ /\ disk' = [disk EXCEPT ![Pkg(ag.job)] = "part"]
          /\ IF disk[Pkg(ag.job)] = "none" THEN UNCHANGED safe
             ELSE safe' = [safe EXCEPT ![Pkg(ag.job)] = "none", ![Req(ag.job)] = NoNonce]
          /\ NoFault
          /\ \/ Ack(1, "ok") /\ Go("files")
             \/ conn.cut /\ Go("rejectSilent") /\ UNCHANGED conn
       \/ Fault /\ ResetHalfway(ag.job) /\ GoWith("rejectAuth", "error") /\ UNCHANGED conn
    /\ UNCHANGED ghost

(* receive_file for every entry: .part, hash, sync, rename, hash again.      *)
ReceiveFiles ==
    /\ ag.pc = "files"
    /\ \/ /\ conn.sent = "payload"
          /\ Put(Pkg(ag.job), "whole")
          /\ Go("rename") /\ NoFault
       \/ conn.cut /\ GoWith("rejectPayload", "error") /\ NoFault /\ UNCHANGED disk
       \/ Fault /\ GoWith("rejectPayload", "error") /\ UNCHANGED disk
    /\ UNCHANGED <<safe, conn, ghost>>

(* vdev_write_atomic(request.v1) up to its rename, the sole commit point.    *)
CommitRequest ==
    /\ ag.pc = "rename"
    /\ \/ Put(Req(ag.job), ag.nonce) /\ Go("sync") /\ NoFault
       \/ Fault /\ GoWith("rejectPayload", "error") /\ UNCHANGED disk
    /\ UNCHANGED <<safe, conn, ghost>>

(* The rest of it.  Synchronising the parent does not cover the link of the  *)
(* job directory, so nothing becomes safe yet.                              *)
SyncRequest ==
    /\ ag.pc = "sync"
    /\ \/ Go("barrier") /\ NoFault /\ UNCHANGED conn
       \/ Fault /\ Ack(2, "unknown") /\ Go("scan")
    /\ UNCHANGED <<deviceVars, ghost>>

(* vdev_sync_device and the final acknowledgement. *)
BarrierSkipped ==
    /\ ag.pc = "barrier"
    /\ Ack(2, "ok") /\ Go("scan") /\ NoFault
    /\ ghost' = [ghost EXCEPT ![ag.job].reported = TRUE]
    /\ UNCHANGED deviceVars

Barrier ==
    /\ ag.pc = "barrier"
    /\ \/ /\ safe' = disk
          /\ Ack(2, "ok") /\ Go("scan") /\ NoFault
          /\ ghost' = [ghost EXCEPT ![ag.job].reported = TRUE]
       \/ Fault /\ Ack(2, "unknown") /\ Go("scan") /\ UNCHANGED <<safe, ghost>>
    /\ UNCHANGED disk

(* reject_owned_auth, reject_owned_no_reply and reject_payload: clean up; a  *)
(* cleanup that cannot be proved makes the outcome unknown.                 *)
Reject ==
    /\ ag.pc \in {"rejectAuth", "rejectSilent", "rejectPayload"}
    /\ \E ok \in BOOLEAN :
       /\ IF ok THEN Reset(ag.job) /\ NoFault ELSE Fault /\ ResetHalfway(ag.job)
       /\ LET code == IF ok THEN ag.code ELSE "unknown" IN
          CASE ag.pc = "rejectAuth" -> Ack(1, code)
            [] ag.pc = "rejectPayload" -> Ack(2, code)
            [] OTHER -> UNCHANGED conn
    /\ Go("scan")
    /\ UNCHANGED ghost

-----------------------------------------------------------------------------
(* main.c: process_job.                                                      *)

(* Layout, request, manifest, signature; then vdev_consume_challenge.        *)
Check ==
    /\ ag.pc = "check"
    /\ \/ /\ disk[Pkg(ag.job)] # "none" /\ disk[Req(ag.job)] = ag.nonce
          /\ disk' = [disk EXCEPT ![Chal] = NoNonce]
          /\ safe' = [safe EXCEPT ![Chal] = NoNonce]
          /\ ghost' = [ghost EXCEPT ![ag.job].taken = TRUE]
          /\ Go("tree") /\ NoFault
       \/ /\ ~(disk[Pkg(ag.job)] # "none" /\ disk[Req(ag.job)] = ag.nonce)
          /\ Go("failed") /\ NoFault /\ UNCHANGED <<deviceVars, ghost>>
       \/ Fault /\ Go("failed") /\ UNCHANGED <<deviceVars, ghost>>
    /\ UNCHANGED conn

(* The exact tree and the title; a verification ends here. *)
VerifyTree ==
    /\ ag.pc = "tree"
    /\ \/ /\ disk[Pkg(ag.job)] = "whole"
          /\ Go(IF signed[ag.job].action = "verify" THEN "won" ELSE "stale") /\ NoFault
       \/ disk[Pkg(ag.job)] # "whole" /\ Go("failed") /\ NoFault
       \/ Fault /\ Go("failed")
    /\ UNCHANGED <<deviceVars, conn, ghost>>

(* The stage and its marker must be free; write_promotion_state's rename.    *)
MarkStage ==
    /\ ag.pc = "stale"
    /\ \/ /\ disk[Stage] = NoJob /\ disk[Mark] = NoJob
          /\ Put(Mark, ag.job) /\ Go("markSync") /\ NoFault
       \/ /\ disk[Stage] # NoJob \/ disk[Mark] # NoJob
          /\ Go("failed") /\ NoFault /\ UNCHANGED disk
       \/ Fault /\ Go("failed") /\ UNCHANGED disk
    /\ UNCHANGED <<safe, conn, ghost>>

SyncMark ==
    /\ ag.pc = "markSync"
    /\ \/ Flush({Mark}) /\ ag' = [ag EXCEPT !.pc = "move", !.written = TRUE] /\ NoFault
       \/ Fault /\ Go("failed") /\ UNCHANGED safe
    /\ UNCHANGED <<disk, conn, ghost>>

(* The package tree is renamed to the stage. *)
Relocate ==
    /\ ag.pc = "move"
    /\ \/ /\ disk' = [disk EXCEPT ![Stage] = ag.job, ![Pkg(ag.job)] = "none"]
          /\ ag' = [ag EXCEPT !.pc = "moveSync", !.relocated = TRUE]
          /\ NoFault
       \/ Fault /\ Go("failed") /\ UNCHANGED disk
    /\ UNCHANGED <<safe, conn, ghost>>

(* vdev_sync_rename_parents: the destination first. *)
SyncRelocation ==
    /\ ag.pc = "moveSync"
    /\ \/ Flush({Stage, Pkg(ag.job)}) /\ Go("promote") /\ NoFault
       \/ Fault /\ Go("failed") /\ (UNCHANGED safe \/ Flush({Stage}))
    /\ UNCHANGED <<disk, conn, ghost>>

(* vdev_promote_package up to scePromoterUtilityPromotePkg. *)
Dispatch ==
    /\ ag.pc = "promote"
    /\ \/ /\ ag' = [ag EXCEPT !.pc = "promoting", !.dispatched = TRUE]
          /\ ghost' = [ghost EXCEPT ![ag.job].dispatched = @ + 1]
          /\ NoFault
       \/ Fault /\ Go("failed") /\ UNCHANGED ghost
    /\ UNCHANGED <<deviceVars, conn>>

(* The system installer, polled until it reports a terminal result.  It      *)
(* consumes the stage for good when it succeeds, perhaps when it fails.     *)
Installer(done) ==
    /\ ghost' = [ghost EXCEPT ![ag.job].installed = done]
    /\ \E s \in IF done THEN {NoJob} ELSE {NoJob, ag.job} :
          /\ disk' = [disk EXCEPT ![Stage] = s]
          /\ safe' = [safe EXCEPT ![Stage] = s]

Promoted ==
    /\ ag.pc = "promoting"
    /\ \/ Installer(TRUE) /\ Go("won") /\ NoFault
       \/ Fault /\ Installer(FALSE) /\ Go("failed")
    /\ UNCHANGED conn

(* vdev_write_result of a success, in its two steps, and of a failure.       *)
WriteSuccess ==
    /\ ag.pc = "won"
    /\ \/ Put(Res(ag.job), "success") /\ Go("wonSync") /\ NoFault
       \/ Fault /\ ag' = Asleep /\ UNCHANGED disk
    /\ UNCHANGED <<safe, conn, ghost>>

SyncSuccess ==
    /\ ag.pc = "wonSync"
    /\ \/ /\ Flush({Res(ag.job)}) /\ NoFault
          /\ IF signed[ag.job].action = "verify" THEN ag' = Asleep ELSE Go("unmark")
       \/ Fault /\ ag' = Asleep /\ UNCHANGED safe
    /\ UNCHANGED <<disk, conn, ghost>>

(* The failure exit: a stage that was not dispatched is moved back.          *)
Restore ==
    /\ ag.pc = "failed"
    /\ \/ /\ ag.relocated /\ ~ag.dispatched
          /\ \/ /\ disk' = [disk EXCEPT ![Stage] = NoJob, ![Pkg(ag.job)] = "whole"]
                /\ Go("restoreSync") /\ NoFault
             \/ Fault /\ Go("report") /\ UNCHANGED disk
       \/ /\ ~(ag.relocated /\ ~ag.dispatched)
          /\ ag' = [ag EXCEPT !.pc = "report",
                              !.clear = ag.written /\ ~ag.dispatched /\ ~ag.relocated]
          /\ NoFault /\ UNCHANGED disk
    /\ UNCHANGED <<safe, conn, ghost>>

SyncRestore ==
    /\ ag.pc = "restoreSync"
    /\ \/ /\ Flush({Stage, Pkg(ag.job)}) /\ NoFault
          /\ ag' = [ag EXCEPT !.pc = "report", !.clear = TRUE]
       \/ Fault /\ Go("report") /\ (UNCHANGED safe \/ Flush({Pkg(ag.job)}))
    /\ UNCHANGED <<disk, conn, ghost>>

WriteFailureSkipped ==
    /\ ag.pc = "report"
    /\ ag' = Asleep /\ NoFault
    /\ UNCHANGED <<deviceVars, conn, ghost>>

WriteFailure ==
    /\ ag.pc = "report"
    /\ \/ Put(Res(ag.job), "failed") /\ Go("reportSync") /\ NoFault
       \/ Fault /\ ag' = Asleep /\ UNCHANGED disk
    /\ UNCHANGED <<safe, conn, ghost>>

SyncFailure ==
    /\ ag.pc = "reportSync"
    /\ \/ /\ Flush({Res(ag.job)}) /\ NoFault
          /\ IF ag.clear THEN Go("unmark") ELSE ag' = Asleep
       \/ Fault /\ ag' = Asleep /\ UNCHANGED safe
    /\ UNCHANGED <<disk, conn, ghost>>

(* clear_promotion_state: never while the stage exists. *)
ClearMark ==
    /\ ag.pc = "unmark"
    /\ \/ /\ IF disk[Stage] = NoJob
             THEN Put(Mark, NoJob) /\ safe' = [safe EXCEPT ![Mark] = NoJob]
             ELSE UNCHANGED deviceVars
          /\ NoFault
       \/ /\ Fault /\ UNCHANGED safe
          /\ \E m \in {disk[Mark], NoJob} : Put(Mark, m)
    /\ ag' = Asleep
    /\ UNCHANGED <<conn, ghost>>

-----------------------------------------------------------------------------
(* The agent is killed, or the Vita loses power: then every entry not known  *)
(* to be safe is kept or lost by itself.  An installation under way is      *)
(* finished or not, and its stage consumed or not.                          *)
Crash(power) ==
    /\ crashes < MaxCrashes /\ crashes' = crashes + 1
    /\ ag.pc # "off" \/ (power /\ disk # safe)
    /\ \E keep \in SUBSET {c \in Cells : disk[c] # safe[c]},
          done \in BOOLEAN, gone \in BOOLEAN :
       LET after(old, c) == IF c = Stage /\ gone THEN NoJob ELSE old IN
       /\ done \/ gone => ag.pc = "promoting"
       /\ done => gone
       /\ ~power => keep = {c \in Cells : disk[c] # safe[c]}
       /\ disk' = [c \in Cells |-> after(IF c \in keep THEN disk[c] ELSE safe[c], c)]
       /\ safe' = IF power THEN disk' ELSE [c \in Cells |-> after(safe[c], c)]
       /\ ghost' = IF done THEN [ghost EXCEPT ![ag.job].installed = TRUE] ELSE ghost
    /\ ag' = Asleep
    /\ conn' = IF conn.ack = NoAck THEN NoConn ELSE [conn EXCEPT !.cut = TRUE]
    /\ NoFault

AgentStep ==
    \/ Launch \/ Leave \/ Scan
    \/ Authenticate \/ StageJob \/ ReceiveFiles \/ CommitRequest \/ SyncRequest
    \/ Barrier \/ Reject
    \/ Check \/ VerifyTree \/ MarkStage \/ SyncMark \/ Relocate \/ SyncRelocation
    \/ Dispatch \/ Promoted \/ WriteSuccess \/ SyncSuccess
    \/ Restore \/ SyncRestore \/ WriteFailure \/ SyncFailure \/ ClearMark

=============================================================================
