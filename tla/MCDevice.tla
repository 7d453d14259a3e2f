------------------------------ MODULE MCDevice ------------------------------
(***************************************************************************)
(* What runs on the device beside the debug server, for TLC: the kernel     *)
(* companion, the deployment agent and the attach broker, with the host     *)
(* programs that talk to them; safety on the larger instances.              *)
(*                                                                         *)
(* A behaviour is of one component, the one `part` names from the start:    *)
(* the components do not interact here, they are checked side by side.  The *)
(* component this module extends has its own variables.  The variables v1,  *)
(* v2, ... are the state of each of the others, in the order of its own     *)
(* declaration; those it does not need stay 0.                              *)
(***************************************************************************)
EXTENDS PmuProfiler, TLC

CONSTANTS t1, t2, nobody   \* model values

VARIABLES
    part,           \* the component this behaviour is of
    v1, v2, v3, v4, v5, v6, v7, v8, v9, v10, v11, v12, v13, v14, v15

partVars == <<v1, v2, v3, v4, v5, v6, v7, v8, v9, v10, v11, v12, v13, v14, v15>>
allVars == <<part, vars, partVars>>

Symmetry == Permutations({t1, t2})

\* Two cores and their workers, one process, two faults, command generations
\* that wrap.
Hw == INSTANCE HwDebug WITH
    Procs <- {"p"}, NoProc <- "noproc", HwLeases <- {1}, MaxTime <- 1,
    MaxHwToken <- 1, LastCore <- 1, LastGen <- 4, Points <- {"execute"},
    MaxFaults <- 2,
    clock <- v1, session <- v2, ready <- v3, nextHw <- v4, snapshot <- v5,
    regs <- v6, cmd <- v7, event <- v8, worker <- v9, op <- v10, stopping <- v11,
    faults <- v12, known <- v13, before <- v14, payload <- v15

\* Two stops of a thread, handles of two digits, one fault.
Mutation == INSTANCE ThreadMutation WITH
    Values <- {1, 2}, Banks <- {"core"}, Vias <- {"kernel", "gate"}, Base <- 2,
    MaxSequence <- 5, MaxStops <- 2, MaxFaults <- 1,
    tx <- v1, next <- v2, pv <- v3, gate <- v4, via <- v5, copy <- v6,
    known <- v7, stop <- v8, tgt <- v9, bind <- v10, refs <- v11, op <- v12,
    faults <- v13, ghost <- v14

\* One job over either transport, one failing call, one power loss.
Agent == INSTANCE Deploy WITH
    Jobs <- {1}, Nonces <- {1, 2, 3}, MaxFaults <- 1, MaxCrashes <- 1,
    Plans <- {1} \X {"tcp", "ftp"} \X {"verify", "install"},
    disk <- v1, safe <- v2, ag <- v3, conn <- v4, signed <- v5, ghost <- v6,
    faults <- v7, crashes <- v8, host <- v9

\* A job over TCP and one over FTP, interleaved.
AgentTwo == INSTANCE Deploy WITH
    Jobs <- {1, 2}, Nonces <- 1 .. 4, MaxFaults <- 0, MaxCrashes <- 0,
    Plans <- {<<1, "tcp", "install">>, <<2, "ftp", "install">>},
    disk <- v1, safe <- v2, ag <- v3, conn <- v4, signed <- v5, ghost <- v6,
    faults <- v7, crashes <- v8, host <- v9

\* Starts, stops and closes that race and fail; one connection at a time.
Listener == INSTANCE AuthListener WITH
    Sockets <- {1, 2}, Peers <- {1}, Keys <- {1}, Nonces <- {1}, MaxReplays <- 1,
    MaxFailures <- 1, Deadline <- 1, MinBackoff <- 1, MaxBackoff <- 2,
    Modes <- {"owned", "borrowed"}, Cancels <- TRUE, MaxTime <- 0, MaxStarts <- 1,
    MaxFaults <- 1,
    state <- v1, slot <- v2, socks <- v3, th <- v4, cn <- v5, replay <- v6,
    fails <- v7, full <- v8, gen <- v9, session <- v10, rt <- v11, revoked <- v12,
    now <- v13, faults <- v14, ghost <- v15

\* Two peers, three nonces: the replay and the failure table at their limits.
Tables == INSTANCE AuthListener WITH
    Sockets <- {1, 2}, Peers <- {1, 2}, Keys <- {1}, Nonces <- {1, 2, 3},
    MaxReplays <- 2, MaxFailures <- 1, Deadline <- 1, MinBackoff <- 1,
    MaxBackoff <- 2, Modes <- {"owned"}, Cancels <- FALSE, MaxTime <- 1,
    MaxStarts <- 1, MaxFaults <- 0,
    state <- v1, slot <- v2, socks <- v3, th <- v4, cn <- v5, replay <- v6,
    fails <- v7, full <- v8, gen <- v9, session <- v10, rt <- v11, revoked <- v12,
    now <- v13, faults <- v14, ghost <- v15

\* Two keys, two hosts of which one fits the allowlist, two faults, two power
\* losses.
Store == INSTANCE AuthStore WITH
    Keys <- {1, 2}, Hosts <- {1, 2}, MaxPeers <- 1, MaxRevision <- 5,
    MaxFaults <- 2, MaxCrashes <- 2,
    cur <- v1, stg <- v2, synced <- v3, floor <- v4, keys <- v5, res <- v6,
    op <- v7, faults <- v8, crashes <- v9, ghost <- v10

\* One client over two sessions, a target that is relaunched.
Broker == INSTANCE AttachDiscovery WITH
    Clients <- {1}, MaxSessions <- 2, MaxIds <- 4, Tokens <- {1, 2}, Lease <- 1,
    MaxTime <- 1, MaxTarget <- 2, MaxSends <- 5, Services <- {"ready", "unavailable"},
    session <- v1, shutting <- v2, service <- v3, target <- v4, clock <- v5,
    up <- v6, down <- v7, host <- v8, ghost <- v9

\* Two clients and their tickets.
BrokerTwo == INSTANCE AttachDiscovery WITH
    Clients <- {1, 2}, MaxSessions <- 2, MaxIds <- 2, Tokens <- {1, 2}, Lease <- 1,
    MaxTime <- 1, MaxTarget <- 1, MaxSends <- 2, Services <- {"ready"},
    session <- v1, shutting <- v2, service <- v3, target <- v4, clock <- v5,
    up <- v6, down <- v7, host <- v8, ghost <- v9

\* One session, two nonces, a relaunch, one failing callback.
Control == INSTANCE AttachControl WITH
    Sessions <- {1}, Keys <- {1}, Nonces <- {1, 2}, MaxNonces <- 1, MaxAttempts <- 2,
    Window <- 2, LeaseTime <- 1, Timeout <- 2, MaxTime <- 2, MaxTarget <- 2,
    MaxFaults <- 1,
    sess <- v1, lease <- v2, shutting <- v3, op <- v4, proc <- v5, launches <- v6,
    module <- v7, now <- v8, faults <- v9, ghost <- v10

\* Two sessions of two hosts.
ControlTwo == INSTANCE AttachControl WITH
    Sessions <- {1, 2}, Keys <- {1, 2}, Nonces <- {1}, MaxNonces <- 2,
    MaxAttempts <- 1, Window <- 1, LeaseTime <- 1, Timeout <- 1, MaxTime <- 1,
    MaxTarget <- 1, MaxFaults <- 1,
    sess <- v1, lease <- v2, shutting <- v3, op <- v4, proc <- v5, launches <- v6,
    module <- v7, now <- v8, faults <- v9, ghost <- v10

-----------------------------------------------------------------------------
AllInit ==
    /\ Init
    /\ \/ part = "pmu" /\ v1 = 0 /\ v2 = 0 /\ v3 = 0 /\ v4 = 0 /\ v5 = 0
          /\ v6 = 0 /\ v7 = 0 /\ v8 = 0 /\ v9 = 0 /\ v10 = 0 /\ v11 = 0
          /\ v12 = 0 /\ v13 = 0 /\ v14 = 0 /\ v15 = 0
       \/ part = "engine" /\ Hw!Init
       \/ part = "mutation" /\ Mutation!Init /\ v15 = 0
       \/ part = "deploy" /\ Agent!Init /\ v10 = 0 /\ v11 = 0 /\ v12 = 0 /\ v13 = 0
          /\ v14 = 0 /\ v15 = 0
       \/ part = "deploy two" /\ AgentTwo!Init /\ v10 = 0 /\ v11 = 0 /\ v12 = 0
          /\ v13 = 0 /\ v14 = 0 /\ v15 = 0
       \/ part = "listener" /\ Listener!Init
       \/ part = "listener tables" /\ Tables!Init
       \/ part = "store" /\ Store!Init /\ v11 = 0 /\ v12 = 0 /\ v13 = 0 /\ v14 = 0
          /\ v15 = 0
       \/ part = "broker" /\ Broker!Init /\ v10 = 0 /\ v11 = 0 /\ v12 = 0 /\ v13 = 0
          /\ v14 = 0 /\ v15 = 0
       \/ part = "broker two" /\ BrokerTwo!Init /\ v10 = 0 /\ v11 = 0 /\ v12 = 0
          /\ v13 = 0 /\ v14 = 0 /\ v15 = 0
       \/ part = "control" /\ Control!Init /\ v11 = 0 /\ v12 = 0 /\ v13 = 0
          /\ v14 = 0 /\ v15 = 0
       \/ part = "control two" /\ ControlTwo!Init /\ v11 = 0 /\ v12 = 0 /\ v13 = 0
          /\ v14 = 0 /\ v15 = 0
    /\ part # "pmu" => safeRearm

AllNext ==
    \/ part = "pmu" /\ Next /\ UNCHANGED <<part, partVars>>
    \/ part = "engine" /\ Hw!Next /\ UNCHANGED <<part, vars>>
    \/ part = "mutation" /\ Mutation!Next /\ UNCHANGED <<part, vars, v15>>
    \/ part = "deploy" /\ Agent!Next /\ UNCHANGED <<part, vars, v10, v11, v12, v13, v14,
         v15>>
    \/ part = "deploy two" /\ AgentTwo!Next /\ UNCHANGED <<part, vars, v10, v11, v12, v13,
         v14, v15>>
    \/ part = "listener" /\ Listener!Next /\ UNCHANGED <<part, vars>>
    \/ part = "listener tables" /\ Tables!Next /\ UNCHANGED <<part, vars>>
    \/ part = "store" /\ Store!Next /\ UNCHANGED <<part, vars, v11, v12, v13, v14, v15>>
    \/ part = "broker" /\ Broker!Next /\ UNCHANGED <<part, vars, v10, v11, v12, v13, v14,
         v15>>
    \/ part = "broker two" /\ BrokerTwo!Next /\ UNCHANGED <<part, vars, v10, v11, v12, v13,
         v14, v15>>
    \/ part = "control" /\ Control!Next /\ UNCHANGED <<part, vars, v11, v12, v13, v14,
         v15>>
    \/ part = "control two" /\ ControlTwo!Next /\ UNCHANGED <<part, vars, v11, v12, v13,
         v14, v15>>

AllSpec == AllInit /\ [][AllNext]_allVars

-----------------------------------------------------------------------------
\* Engine: each call, with its workers, timeouts and retries, is one step of
\* HwEngine!EngineSpec; what a healthy engine told its owner is true of every
\* core; a worker only runs the command that is published, whose points stay
\* as published; and with no session every core carries what it carried
\* before.
EngineTruthful ==
    /\ part = "engine" => Hw!EngineStarts
    /\ [](part = "engine" => Hw!TypeOK /\ Hw!ReleasedClean /\ Hw!OneGeneration /\ Hw!PayloadImmutable /\
              Hw!ToldTheTruth)
    /\ [][(part = "engine" => Hw!EngineStep)]_allVars

\* Mutation: a resumed target has its original registers or those of a
\* committed transaction; a reference whose release had an unknown effect is
\* never released again; once an unload is agreed to nothing is left and
\* nothing begins; a handle names one transaction.
RegistersReturned ==
    /\ [](part = "mutation" => Mutation!TypeOK /\ Mutation!ReleasedOnce /\ Mutation!UnloadIsFinal /\
              Mutation!HandleOnce)
    /\ [][(part = "mutation" => Mutation!ResumedClean)]_allVars

\* Deploy: no power loss takes an acknowledged job away; a signed job reaches
\* the installer at most once and its outcome is kept; after an ordinary
\* refusal nothing of it is left; the stage is never there without its
\* owner's marker, and the PC deletes its copy of settled jobs only.
JobsKept ==
    /\ part = "deploy" => Agent!TypeOK /\ Agent!CommitSurvives /\ Agent!NegativeIsProof /\
           Agent!InstalledOnce /\ Agent!StageOwned /\ Agent!OutcomeKept /\
           Agent!DeletedIsSettled
    /\ part = "deploy two" => AgentTwo!TypeOK /\ AgentTwo!CommitSurvives /\
           AgentTwo!NegativeIsProof /\ AgentTwo!InstalledOnce /\ AgentTwo!StageOwned /\
           AgentTwo!OutcomeKept /\ AgentTwo!DeletedIsSettled


\* Store: what an acknowledged call wrote, or something later, answers after
\* any power loss; a service generation is handed out once; the identity has
\* its key; recovery never refuses the store; a revoked peer stays revoked
\* until an uninstallation.
StoreDurable ==
    /\ [](part = "store" => Store!TypeOK /\ Store!GenerationOnce /\ Store!AckedSurvives /\
              Store!IdentityHasKey /\ Store!Recoverable)
    /\ [][(part = "store" => Store!RevocationStands)]_allVars

\* Broker: a discovery returns an identity the title had during that call; a
\* client told "released" had discovered the process that was still running;
\* a ticket is used once and has one live owner.
TicketsExact ==
    /\ part = "broker" => Broker!TypeOK /\ Broker!SnapshotIsOfThisCall /\
           Broker!ReleasedIsUnchanged /\ Broker!TicketIsOneUse /\ Broker!TicketHasOneOwner
    /\ part = "broker two" => BrokerTwo!TypeOK /\ BrokerTwo!SnapshotIsOfThisCall /\
           BrokerTwo!ReleasedIsUnchanged /\ BrokerTwo!TicketIsOneUse /\
           BrokerTwo!TicketHasOneOwner

\* Control: between calls a debugger module in the target belongs to the
\* lease; a nonce authorizes one operation; a started module is never
\* unloaded; a lease becomes active only in time and on the process that was
\* authorized.
AttachLeased ==
    /\ [](/\ part = "control" => Control!TypeOK /\ Control!NoOrphan /\ Control!NonceOnce
          /\ part = "control two" => ControlTwo!TypeOK /\ ControlTwo!NoOrphan /\ ControlTwo!NonceOnce)
    /\ [][(part = "control" => Control!StoppedBeforeUnload /\ Control!ActiveInTime)]_allVars

=============================================================================
