------------------------------- MODULE Deploy -------------------------------
(***************************************************************************)
(* The deployment host (deploy/host/vitadevdeploy) and the agent together:  *)
(* the host signs a job for the challenge of the running agent, delivers it *)
(* by direct TCP or by FTP, polls the durable result and decides what it    *)
(* may say about the commit, and when it may throw its signed copy away.    *)
(*                                                                         *)
(* One command of the host runs at a time.  The host does not verify that   *)
(* the agent is the one it launched; the connection may break at any point, *)
(* with an acknowledgement under way or not.                                *)
(***************************************************************************)
EXTENDS DeployAgent

CONSTANT
    Plans           \* what may be deployed: <<job, transport, action>>

VARIABLE
    host            \* the command that runs, and what is kept of each job

vars == <<disk, safe, ag, conn, signed, ghost, faults, crashes, host>>

(* evidence: the signed job directory; claim: the DirectCommitState last     *)
(* reported; verdict: the terminal result the host has read.                *)
NoRecord == [evidence |-> "none", claim |-> "none", verdict |-> "none"]

HostPCs == {"idle", "prepared", "auth", "payload", "poll", "snapshot",
            "upload", "commit", "ftpPoll"}

Init ==
    /\ DeviceInit
    /\ signed = [j \in Jobs |-> [nonce |-> NoNonce, action |-> "verify"]]
    /\ host = [pc |-> "idle", job |-> NoJob, resumed |-> FALSE,
               of |-> [j \in Jobs |-> NoRecord]]

TypeOK ==
    /\ DeviceTypeOK
    /\ \A j \in Jobs : /\ signed[j].nonce \in Nonces \cup {NoNonce}
                       /\ signed[j].action \in {"verify", "install"}
                       /\ host.of[j].evidence \in {"none", "kept", "deleted"}
                       /\ host.of[j].claim \in {"none", "fail_before", "ambiguous", "known"}
                       /\ host.of[j].verdict \in {"none", "success", "failed"}
    /\ host.pc \in HostPCs

Job == host.job
At(pc) == host' = [host EXCEPT !.pc = pc]
Record(pc, field, v) == host' = [host EXCEPT !.pc = pc, !.of[Job][field] = v]
DeviceKept == UNCHANGED <<deviceVars, ghost, faults, crashes>>

(* What the host does with a failure before the commit: a resumption reads   *)
(* the result once more before it reports it.                               *)
FailBefore ==
    IF host.resumed /\ disk[Res(Job)] # "none"
    THEN host' = [host EXCEPT !.pc = "idle", !.of[Job].claim = "known",
                              !.of[Job].verdict = disk[Res(Job)]]
    ELSE Record("idle", "claim", "fail_before")

-----------------------------------------------------------------------------
(* _deploy --transport tcp: a first connection is opened for the greeting    *)
(* only and closed before the job is prepared and signed; the agent gives   *)
(* that client up and looks at the inbox.                                   *)
DeployDirect(j, action) ==
    /\ host.pc = "idle" /\ host.of[j].evidence = "none" /\ signed[j].nonce = NoNonce
    /\ ag.pc = "wait"
    /\ signed' = [signed EXCEPT ![j] = [nonce |-> ag.nonce, action |-> action]]
    /\ host' = [host EXCEPT !.pc = "prepared", !.job = j, !.resumed = FALSE,
                            !.of[j].evidence = "kept"]
    /\ Go("scan")
    /\ DeviceKept /\ UNCHANGED conn

(* _resume_direct on a job that was kept: an existing result is taken as it  *)
(* is, otherwise the job is sent again.                                     *)
ResumeDirect(j) ==
    /\ host.pc = "idle" /\ host.of[j].evidence = "kept"
    /\ host' = IF disk[Res(j)] # "none"
               THEN [host EXCEPT !.of[j].verdict = disk[Res(j)], !.of[j].claim = "known"]
               ELSE [host EXCEPT !.pc = "prepared", !.job = j, !.resumed = TRUE,
                                 !.of[j].claim = "none"]
    /\ host' # host
    /\ DeviceKept /\ UNCHANGED <<ag, conn, signed>>

(* connect_wait, and the start of stage_job: the greeting must carry the     *)
(* nonce of the job; then the metadata is sent.                             *)
Connect ==
    /\ host.pc = "prepared" /\ ag.pc = "wait"
    /\ IF signed[Job].nonce = ag.nonce
       THEN /\ conn' = [job |-> Job, sent |-> "meta", ack |-> NoAck, cut |-> FALSE]
            /\ Go("client") /\ At("auth")
       ELSE /\ UNCHANGED conn
            /\ Go("scan") /\ FailBefore
    /\ DeviceKept /\ UNCHANGED signed

(* No agent answers: a first deployment ends without a claim, a resumption   *)
(* takes the commit for ambiguous and polls.                                *)
ConnectFails ==
    /\ host.pc = "prepared"
    /\ IF host.resumed THEN Record("poll", "claim", "ambiguous") ELSE At("idle")
    /\ DeviceKept /\ UNCHANGED <<ag, conn, signed>>

(* stage_job on the first acknowledgement.  Only success authorises the      *)
(* payload, which is then sent; a replay may have a result to wait for.     *)
ReadAuthAck ==
    /\ host.pc = "auth" /\ conn.ack # NoAck
    /\ LET code == conn.ack[2] IN
       /\ conn' = IF code = "ok" THEN [conn EXCEPT !.ack = NoAck, !.sent = "payload"]
                                 ELSE NoConn
       /\ CASE code = "ok" -> At("payload")
            [] code = "replay" -> Record("poll", "claim", "ambiguous")
            [] code = "unknown" -> Record("idle", "claim", "ambiguous")
            [] OTHER -> FailBefore
    /\ DeviceKept /\ UNCHANGED <<ag, signed>>

(* stage_job on the second: every answer leaves the commit to be settled by  *)
(* the durable result.                                                      *)
ReadCommitAck ==
    /\ host.pc = "payload" /\ conn.ack # NoAck
    /\ conn' = NoConn
    /\ Record("poll", "claim", "ambiguous")
    /\ DeviceKept /\ UNCHANGED <<ag, signed>>

(* The agent still has to read from the connection. *)
Serving == ag.pc \in {"client", "accepted", "files"}

(* The connection is lost, seen by the host: before the payload was         *)
(* authorised that is a failure before the commit, after it ambiguous.      *)
LoseConnection ==
    /\ host.pc \in {"auth", "payload"} /\ conn.cut
    /\ IF host.pc = "auth" THEN FailBefore ELSE Record("poll", "claim", "ambiguous")
    /\ conn' = IF Serving THEN [conn EXCEPT !.ack = NoAck] ELSE NoConn
    /\ DeviceKept /\ UNCHANGED <<ag, signed>>

Cut ==
    /\ ~conn.cut /\ (Serving \/ host.pc \in {"auth", "payload"})
    /\ conn' = [conn EXCEPT !.cut = TRUE]
    /\ DeviceKept /\ UNCHANGED <<ag, signed, host>>

(* poll_result.  The deployment deletes its temporary job on success, and    *)
(* for a failed verification; a failed installation is reconciled first.    *)
(* resume-direct never deletes.                                             *)
PollResult ==
    /\ host.pc = "poll" /\ disk[Res(Job)] # "none"
    /\ LET settled == disk[Res(Job)] = "success" \/ signed[Job].action = "verify"
           kept == host.resumed \/ ~settled IN
       host' = [host EXCEPT !.pc = IF settled \/ host.resumed THEN "idle" ELSE "snapshot",
                            !.of[Job] = [evidence |-> IF kept THEN "kept" ELSE "deleted",
                                         claim |-> "known", verdict |-> disk[Res(Job)]]]
    /\ DeviceKept /\ UNCHANGED <<ag, conn, signed>>

(* collect_recovery_snapshot: only without a marker is a retry safe. *)
Snapshot ==
    /\ host.pc = "snapshot"
    /\ Record("idle", "evidence", IF disk[Mark] = NoJob THEN "deleted" ELSE "kept")
    /\ DeviceKept /\ UNCHANGED <<ag, conn, signed>>

(* The result cannot be read in time, or the host is interrupted. *)
GiveUp ==
    /\ host.pc \in {"poll", "snapshot", "upload", "commit", "ftpPoll"}
    /\ At("idle")
    /\ DeviceKept /\ UNCHANGED <<ag, conn, signed>>

-----------------------------------------------------------------------------
(* _deploy --transport ftp: the challenge is read from storage, the job      *)
(* uploaded file by file and committed by renaming request.v1.  The FTP     *)
(* server synchronises nothing, and the temporary job is always deleted.    *)
DeployFtp(j, action) ==
    /\ host.pc = "idle" /\ host.of[j].evidence = "none" /\ signed[j].nonce = NoNonce
    /\ disk[Chal] # NoNonce
    /\ signed' = [signed EXCEPT ![j] = [nonce |-> disk[Chal], action |-> action]]
    /\ host' = [host EXCEPT !.pc = "upload", !.job = j, !.resumed = FALSE]
    /\ disk' = [disk EXCEPT ![Pkg(j)] = "part"]
    /\ UNCHANGED <<safe, ag, conn, ghost, faults, crashes>>

Upload ==
    /\ host.pc = "upload"
    /\ disk' = [disk EXCEPT ![Pkg(Job)] = "whole"]
    /\ At("commit")
    /\ UNCHANGED <<safe, ag, conn, signed, ghost, faults, crashes>>

UploadRequest ==
    /\ host.pc = "commit"
    /\ disk' = [disk EXCEPT ![Req(Job)] = signed[Job].nonce]
    /\ At("ftpPoll")
    /\ UNCHANGED <<safe, ag, conn, signed, ghost, faults, crashes>>

PollFtpResult ==
    /\ host.pc = "ftpPoll" /\ disk[Res(Job)] # "none"
    /\ Record("idle", "verdict", disk[Res(Job)])
    /\ DeviceKept /\ UNCHANGED <<ag, conn, signed>>

HostStep ==
    \/ \E p \in Plans : \/ p[2] = "tcp" /\ DeployDirect(p[1], p[3])
                        \/ p[2] = "ftp" /\ DeployFtp(p[1], p[3])
    \/ \E j \in Jobs : ResumeDirect(j)
    \/ Connect \/ ConnectFails \/ ReadAuthAck \/ ReadCommitAck \/ LoseConnection
    \/ PollResult \/ Snapshot \/ GiveUp
    \/ Upload \/ UploadRequest \/ PollFtpResult

(* A power loss also ends an upload: the FTP server is gone. *)
Crashes ==
    \E power \in BOOLEAN :
        /\ Crash(power)
        /\ host' = IF power /\ host.pc \in {"upload", "commit"}
                   THEN [host EXCEPT !.pc = "idle"] ELSE host

Next ==
    \/ AgentStep /\ UNCHANGED <<signed, crashes, host>>
    \/ Crashes /\ UNCHANGED signed
    \/ HostStep
    \/ Cut

Spec == Init /\ [][Next]_vars

(* Fairness: the operator launches the agent again and does not close it    *)
(* before every scan, and a started agent takes its steps: receives time    *)
(* out, the installer reports a terminal result.                            *)
AgentTurn(A) == A /\ UNCHANGED <<signed, crashes, host>>
Working ==
    \/ Authenticate \/ StageJob \/ ReceiveFiles \/ CommitRequest \/ SyncRequest
    \/ Barrier \/ Reject
    \/ Check \/ VerifyTree \/ MarkStage \/ SyncMark \/ Relocate \/ SyncRelocation
    \/ Dispatch \/ Promoted \/ WriteSuccess \/ SyncSuccess
    \/ Restore \/ SyncRestore \/ WriteFailure \/ SyncFailure \/ ClearMark

FairSpec ==
    /\ Spec
    /\ WF_vars(AgentTurn(Launch))
    /\ SF_vars(AgentTurn(Scan))
    /\ WF_vars(AgentTurn(Working))
    /\ WF_vars(Cut)

-----------------------------------------------------------------------------
(* Once the agent has acknowledged a commit (handle_client's phase 2, code  *)
(* zero), no power loss takes the request away, nor, until the job is taken *)
(* up, any part of its package.                                             *)
CommitSurvives ==
    \A j \in Jobs : ghost[j].reported =>
        /\ safe[Req(j)] # NoNonce /\ disk[Req(j)] # NoNonce
        /\ ghost[j].taken \/ (safe[Pkg(j)] = "whole" /\ disk[Pkg(j)] = "whole")

(* An ordinary negative acknowledgement of the payload (reject_payload) is   *)
(* a proof: whatever happens next, the job is not committed and nothing of  *)
(* it is left.                                                              *)
NegativeIsProof ==
    conn.ack = <<2, "error">> =>
        \A v \in {disk, safe} : v[Req(conn.job)] = NoNonce /\ v[Pkg(conn.job)] = "none"

(* A signed job reaches the system installer at most once, over any number  *)
(* of launches, resumptions and power losses.                               *)
InstalledOnce == \A j \in Jobs : ghost[j].dispatched <= 1

(* The shallow stage is never there without the marker of the job that owns *)
(* it, whatever subset of the pending renames a power loss keeps.           *)
StageOwned ==
    \A j \in Jobs : disk[Stage] = j \/ safe[Stage] = j => disk[Mark] = j /\ safe[Mark] = j

(* A job that was handed to the installer leaves either its marker or a      *)
(* durable success behind, so that a missing marker (recovery.py: "clean")  *)
(* never hides an unknown outcome; and a success is only written for a job  *)
(* that is installed.                                                       *)
OutcomeKept ==
    \A j \in Jobs :
        /\ ghost[j].dispatched > 0 =>
              \/ disk[Mark] = j /\ safe[Mark] = j
              \/ disk[Res(j)] = "success" /\ safe[Res(j)] = "success"
        /\ disk[Res(j)] = "success" /\ signed[j].action = "install" => ghost[j].installed

(* _deploy throws its signed copy away only when nothing about the job is   *)
(* open: a success that is installed, or a failure that the installer never *)
(* saw.                                                                     *)
DeletedIsSettled ==
    \A j \in Jobs : host.of[j].evidence = "deleted" =>
        IF host.of[j].verdict = "success"
        THEN signed[j].action = "install" => ghost[j].installed
        ELSE ghost[j].dispatched = 0

(* Every committed job is answered by a result in the end, also one whose    *)
(* agent died at any point while processing it.                             *)
Unanswered(j) == disk[Req(j)] # NoNonce /\ disk[Res(j)] = "none"
CommittedIsAnswered == \A j \in Jobs : []<>~Unanswered(j)

=============================================================================
