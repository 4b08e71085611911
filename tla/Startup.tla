------------------------------ MODULE Startup ------------------------------
(***************************************************************************)
(* The daemon's main thread from exec to exit, around a signing backend:   *)
(* main.rs's run_daemon, Service::prepare in daemon.rs with its three      *)
(* phases (acquire, the sandbox gate, seal), Service::selfcheck, readiness *)
(* and the drop of the backend at the end.                                 *)
(*                                                                         *)
(* What happens between ready and the end of run is Lifecycle; here it is  *)
(* only the calls that handlers make of the backend.  `shutdown` is the    *)
(* CancelToken together with the signal that will cancel it.               *)
(***************************************************************************)
EXTENDS Signing

CONSTANT Setups    \* the configurations and hosts to start on

Modes == {"required", "best_effort", "off"}

(* What config.toml says, and the host it says it to.                        *)
SetupType ==
    [backend : {"none", "file", "tpm"},     \* [provider.github], app_key_backend
     private_key_path : BOOLEAN,
     tpm : BOOLEAN,                         \* [provider.github.tpm]
     sandbox : Modes,
     mlock : Modes,
     pidfile : BOOLEAN,
     landlock : {"full", "partial", "none"},  \* what the kernel can enforce
     psk_file : BOOLEAN]                    \* the file exists

ASSUME SetupsTyped == Setups \subseteq SetupType

VARIABLES
    setup,
    phase,       \* where the main thread is
    code,        \* how it ends: "none" until decided
    shutdown,
    locked,      \* mlockall succeeded
    gate,        \* what sandbox::apply achieved for the main thread
    granted,     \* the directories the ruleset lets the daemon write to
    confined,    \* what the actor thread inherited
    ready,       \* READY=1 has been sent
    pidfile,     \* "none", "written" or "failed"
    fault        \* the environment has failed the daemon, or ended it

startup == <<setup, phase, code, shutdown, locked, gate, granted, confined,
             ready, pidfile, fault>>
vars == <<signing, startup>>

\* ProviderGithub::validate_backend: exactly the selected backend's keys.
ValidBackend(s) ==
    CASE s.backend = "file" -> s.private_key_path /\ ~s.tpm
      [] s.backend = "tpm"  -> s.tpm /\ ~s.private_key_path
      [] OTHER -> TRUE

Init ==
    /\ SigningInit
    /\ setup \in Setups
    /\ phase = "load" /\ code = "none"
    /\ shutdown = FALSE /\ locked = FALSE
    /\ gate = "open" /\ granted = {} /\ confined = "open"
    /\ ready = FALSE /\ pidfile = "none"
    /\ fault = FALSE

-----------------------------------------------------------------------------
(* Moving on, failing, and leaving.                                          *)

Goto(p) ==
    /\ phase' = p
    /\ UNCHANGED <<setup, code, shutdown, locked, gate, granted, confined,
                   ready, pidfile, fault>>

\* run_daemon returns and everything it owns is dropped; a backend whose thread was
\* started is joined first.
Leave(c) ==
    /\ code' = c
    /\ IF tx THEN phase' = "joining" /\ DropBackend
             ELSE phase' = "exit" /\ ProcessEnds
    /\ UNCHANGED <<setup, shutdown, locked, gate, granted, confined, ready, pidfile>>

\* A step at phase p that the environment makes fail.
FailsAt(p) ==
    /\ phase = p
    /\ fault' = TRUE
    /\ Leave("failed")

-----------------------------------------------------------------------------
(* run_daemon up to prepare.                                                 *)

LoadConfig ==
    /\ phase = "load"
    /\ IF ValidBackend(setup)
       THEN Goto("mlock") /\ UNCHANGED signing
       ELSE Leave("failed") /\ UNCHANGED fault

\* mlockall; it fails for lack of RLIMIT_MEMLOCK, and in required mode the daemon too.
Mlock ==
    /\ phase = "mlock"
    /\ phase' = "watch"
    /\ \/ setup.mlock # "off" /\ locked' = TRUE
       \/ setup.mlock # "required" /\ locked' = FALSE
    /\ UNCHANGED <<setup, code, shutdown, gate, granted, confined, ready, pidfile,
                   fault, signing>>

\* spawn_shutdown_watcher, then take_env_listeners.
Watch == phase = "watch" /\ Goto("listen") /\ UNCHANGED signing
TakeListeners == phase = "listen" /\ Goto("clients") /\ UNCHANGED signing

-----------------------------------------------------------------------------
(* Phase 1, Acquired::acquire.                                               *)

ReadClients == phase = "clients" /\ Goto("psks") /\ UNCHANGED signing

\* load_psk_store: a missing file is an empty store.
ReadPsks == phase = "psks" /\ Goto("broker") /\ UNCHANGED signing

ReadBrokerKey == phase = "broker" /\ Goto("spawn") /\ UNCHANGED signing

\* spawn_signing_backend: its expects panic on a missing sub-config, and a sandboxed
\* daemon may neither execve nor open the device.
SpawnBackend ==
    /\ phase = "spawn"
    /\ IF setup.backend = "none"
       THEN Goto("gate") /\ UNCHANGED signing
       ELSE IF /\ IF setup.backend = "file" THEN setup.private_key_path ELSE setup.tpm
               /\ gate \in {"open", "off", "none"}
            THEN Goto("gate") /\ Spawn(setup.backend)
            ELSE Leave("failed") /\ UNCHANGED fault

-----------------------------------------------------------------------------
(* Phase 2, the gate.                                                        *)

\* Faulty variant: the pidfile's directory is not among those the ruleset grants.
WritableForgotten(s) == {"clients", "psks"}

\* apply_sandbox's write_parent_dirs.
Writable(s) == {"clients", "psks"} \cup (IF s.pidfile THEN {"pidfile"} ELSE {})

\* Faulty variant: what the kernel cannot enforce is skipped in every mode.
EnforceableAnyway(s) == TRUE

\* CompatLevel::HardRequirement refuses a kernel that lacks a part of ABI 6.
Enforceable(s) == s.sandbox = "required" => s.landlock = "full"

\* read_files are opened without regard to ENOENT, psk_file among them.
PathsOpen(s) == s.psk_file

ApplySandbox ==
    /\ phase = "gate"
    /\ IF setup.sandbox # "off" /\ ~(Enforceable(setup) /\ PathsOpen(setup))
       THEN /\ Leave("failed") /\ UNCHANGED fault
       ELSE /\ phase' = "seal"
            /\ gate' = IF setup.sandbox = "off" THEN "off" ELSE setup.landlock
            /\ granted' = IF setup.sandbox = "off" THEN {} ELSE Writable(setup)
            /\ UNCHANGED <<setup, code, shutdown, locked, confined, ready, pidfile,
                           fault, signing>>

-----------------------------------------------------------------------------
(* Phase 3, build_providers and the end of prepare_inner.                    *)

\* into_backend, through the witness that the gate has been passed.
StartBackend ==
    /\ phase = "seal"
    /\ IF setup.backend = "none"
       THEN Goto("probe") /\ UNCHANGED signing
       ELSE /\ Start
            /\ phase' = "ping"
            /\ confined' = gate
            /\ UNCHANGED <<setup, code, shutdown, locked, gate, granted, ready,
                           pidfile, fault>>

Ping == phase = "ping" /\ Submit(SelfCheck) /\ Goto("check")

\* self_check returns: anything but a Pong is fatal.  It has no timeout.
SelfCheckDone ==
    /\ phase = "check"
    /\ call[SelfCheck] \in {"answered", "dead"}
    /\ IF call[SelfCheck] = "answered" /\ got[SelfCheck].type = "Pong"
       THEN Goto("probe") /\ UNCHANGED signing
       ELSE Leave("failed") /\ UNCHANGED fault

\* The shutdown arm of prepare_with_listeners drops prepare_inner at an await.
CancelPrepare ==
    /\ shutdown /\ phase \in {"clients", "psks", "broker", "check"}
    /\ Leave("failed") /\ UNCHANGED fault

-----------------------------------------------------------------------------
(* selfcheck, readiness, run and the end.                                    *)

\* Service::selfcheck is bounded by its timeout and only logs.
ProbeDone ==
    /\ phase = "probe"
    /\ Goto("notify")
    /\ call' = Abandoned
    /\ UNCHANGED <<peerVars, wire, actor, got>>

\* READY=1.
Notify ==
    /\ phase = "notify"
    /\ ready' = TRUE
    /\ phase' = IF setup.pidfile THEN "pidfile" ELSE "run"
    /\ UNCHANGED <<setup, code, shutdown, locked, gate, granted, confined, pidfile,
                   fault, signing>>

\* The pidfile is written through atomic_write; a failure is only logged.
WritePidfile ==
    /\ phase = "pidfile"
    /\ phase' = "run"
    /\ pidfile' = IF gate \in {"off", "none"} \/ "pidfile" \in granted
                  THEN "written" ELSE "failed"
    /\ UNCHANGED <<setup, code, shutdown, locked, gate, granted, confined, ready,
                   fault, signing>>

WritePidfileFails ==
    /\ phase = "pidfile"
    /\ phase' = "run" /\ pidfile' = "failed" /\ fault' = TRUE
    /\ UNCHANGED <<setup, code, shutdown, locked, gate, granted, confined, ready,
                   signing>>

\* A handler, or the startup selfcheck, asks for a signature.
Sign(c) ==
    /\ \/ phase = "run"
       \/ phase = "probe" /\ \A d \in Callers : call[d] = "unused"
    /\ Submit(c) /\ UNCHANGED startup

\* run has returned, with a result that is Lifecycle's subject; the last owner of
\* SharedState drops the providers.
RunEnds ==
    /\ phase = "run" /\ shutdown
    /\ Leave("ok") /\ UNCHANGED fault

\* The join in drop returns and the process ends.
Joined ==
    /\ phase = "joining" /\ thread = "done"
    /\ Goto("exit") /\ ProcessEnds

-----------------------------------------------------------------------------
(* The environment.                                                          *)

\* SIGTERM or SIGINT.  Before the handlers are registered it kills.
Signal ==
    /\ phase # "exit" /\ ~shutdown
    /\ fault' = TRUE
    /\ IF phase \in {"load", "mlock", "watch"}
       THEN /\ ProcessEnds
            /\ phase' = "exit" /\ code' = "killed"
            /\ UNCHANGED shutdown
       ELSE /\ shutdown' = TRUE
            /\ UNCHANGED <<signing, phase, code>>
    /\ UNCHANGED <<setup, locked, gate, granted, confined, ready, pidfile>>

\* SIGKILL, a panic or the OOM killer.
Crash ==
    /\ phase # "exit"
    /\ ProcessEnds
    /\ phase' = "exit" /\ code' = "killed"
    /\ fault' = TRUE
    /\ UNCHANGED <<setup, shutdown, locked, gate, granted, confined, ready, pidfile>>

\* A file cannot be read or parsed, a system call or the provider's construction
\* fails.
StepFails ==
    \/ FailsAt("load")
    \/ setup.mlock = "required" /\ FailsAt("mlock")
    \/ \E p \in {"watch", "listen", "clients", "psks", "broker", "spawn", "gate"} :
          FailsAt(p)
    \/ call[SelfCheck] = "answered" /\ FailsAt("check")

PeerFails ==
    /\ AgentDies \/ AgentRungFails \/ ThreadSendFails \/ ThreadReceiveFails
    /\ fault' = TRUE
    /\ UNCHANGED <<setup, phase, code, shutdown, locked, gate, granted, confined,
                   ready, pidfile>>

Daemon ==
    \/ LoadConfig \/ Mlock \/ Watch \/ TakeListeners
    \/ ReadClients \/ ReadPsks \/ ReadBrokerKey \/ SpawnBackend
    \/ ApplySandbox
    \/ StartBackend \/ Ping \/ SelfCheckDone \/ CancelPrepare
    \/ ProbeDone \/ Notify \/ WritePidfile
    \/ RunEnds \/ Joined

Next ==
    \/ Daemon
    \/ \E c \in Callers : Sign(c) \/ (CallerGone(c) /\ UNCHANGED startup)
    \/ ThreadProgress /\ UNCHANGED startup
    \/ PeerProgress /\ UNCHANGED startup
    \/ WritePidfileFails
    \/ StepFails
    \/ PeerFails
    \/ Signal
    \/ Crash

Spec == Init /\ [][Next]_vars

\* The main thread and the actor thread are scheduled; nothing is assumed of the agent
\* or the TPM, of a read of a file, of callers or of signals.
StalledSpec ==
    /\ Spec
    /\ WF_vars(CancelPrepare)
    /\ WF_vars(phase \notin {"clients", "psks", "broker"} /\ Daemon)
    /\ WF_vars(ThreadProgress /\ UNCHANGED startup)

\* In addition the far end makes progress.
FairSpec == StalledSpec /\ WF_vars(PeerProgress /\ UNCHANGED startup)

(***************************************************************************)
(* Properties                                                              *)
(***************************************************************************)

Phases == {"load", "mlock", "watch", "listen", "clients", "psks", "broker", "spawn",
           "gate", "seal", "ping", "check", "probe", "notify", "pidfile", "run",
           "joining", "exit"}

\* Every variable has its type; a round trip is under way exactly when the thread has
\* a job, the peer works exactly when it has a request, and an agent that serves has
\* gone through the whole of lock_down.
TypeOK ==
    /\ setup \in Setups
    /\ phase \in Phases
    /\ code \in {"none", "failed", "ok", "killed"}
    /\ {shutdown, locked, ready, fault, sock, tx} \subseteq BOOLEAN
    /\ gate \in {"open", "off", "full", "partial", "none"}
    /\ confined \in {"open", "off", "full", "partial", "none"}
    /\ granted \subseteq {"clients", "psks", "pidfile"}
    /\ pidfile \in {"none", "written", "failed"}
    /\ kind \in {"none", "file", "tpm"}
    /\ peer \in {"none", "boot", "serving", "busy", "exited"}
    /\ rung \in 0 .. Len(Rungs)
    /\ audit \subseteq Callers
    /\ toPeer \in Seq(Calls) /\ fromPeer \in Seq(Replies) /\ queue \in Seq(Calls)
    /\ thread \in {"off", "idle", "sent", "reaping", "done"}
    /\ call \in [Calls -> {"unused", "waiting", "gone", "dead", "answered"}]
    /\ got \in [Calls -> Replies \cup {Nothing(c) : c \in Calls}]
    /\ IF thread = "sent" THEN job \in Calls ELSE job = NoCall
    /\ IF peer = "busy" THEN handling \in Calls ELSE handling = NoCall
    /\ kind = "file" /\ peer \in {"serving", "busy"} => rung = Len(Rungs)

\* A call is only ever answered with the response to its own request, whatever callers
\* were dropped, and whatever round trips failed, before it: agent_backend.rs's thread
\* pairs requests and responses by their order alone.
OwnAnswer ==
    \A c \in Calls : call[c] = "answered" =>
        /\ got[c].for = c
        /\ got[c].type \in {"Error", IF c = SelfCheck THEN "Pong" ELSE "Jwt"}

\* No JWT leaves the agent whose claims are not in its audit log, even if the agent or
\* the daemon dies on the way.
SignaturesAudited ==
    kind = "file" =>
        /\ \A i \in DOMAIN fromPeer :
              fromPeer[i].type = "Jwt" => fromPeer[i].for \in audit
        /\ \A c \in Calls : got[c].type = "Jwt" => got[c].for \in audit

\* A caller that waits has its job in the channel or at the thread, and the thread has
\* not ended: no one-shot is forgotten when the backend dies with jobs queued.
NoForgottenCall ==
    \A c \in Calls : call[c] = "waiting" =>
        /\ thread \in {"idle", "sent", "reaping"}
        /\ job = c \/ \E i \in DOMAIN queue : queue[i] = c

\* READY=1 is only sent by a daemon that is as confined and as locked as its
\* configuration requires and whose backend has answered; and the actor thread runs
\* under the same ruleset as the main thread, having been started after the gate.
ReadyEarned ==
    /\ ready =>
        /\ setup.sandbox = "required" => gate = "full"
        /\ setup.mlock = "required" => locked
        /\ setup.backend # "none" =>
              call[SelfCheck] = "answered" /\ got[SelfCheck] = Reply("Pong", SelfCheck)
    /\ thread # "off" => gate # "open" /\ confined = gate

\* The reasons outside the daemon: a contradictory configuration, a sandbox the host
\* cannot provide, a backend that refuses, or a fault.  (That a missing psks file is
\* among them is what apply_sandbox does, not what load_psk_store intends.)
Cause ==
    \/ fault
    \/ setup.backend = "file" /\ (setup.tpm \/ ~setup.private_key_path)
    \/ setup.backend = "tpm" /\ (~setup.tpm \/ setup.private_key_path)
    \/ setup.sandbox = "required" /\ setup.landlock # "full"
    \/ setup.sandbox # "off" /\ ~setup.psk_file
    \/ got[SelfCheck].type = "Error"

\* Startup fails, and a pidfile is missing, only for a reason outside the daemon.  In
\* particular no `expect` of spawn_signing_backend is reached and nothing is done after
\* the gate that the gate forbids.
FailsOnlyForCause == code = "failed" \/ pidfile = "failed" => Cause

\* Every call ends, without the help of a timeout, when the thread or the agent dies.
CallsEnd == \A c \in Calls : call[c] = "waiting" ~> call[c] # "waiting"

\* The agent never outlives the daemon for good, however early the daemon ended.
AgentEnds == phase = "exit" ~> (kind = "file" => peer = "exited")

\* A signal ends the process, also one that arrives while the backend is waited for:
\* "an early SIGTERM (e.g. during a hung PEM read on a stale NFS mount) returns
\* cleanly".
SignalEnds == shutdown ~> phase = "exit"

\* The main thread joins the actor thread, that one waits for the far end, and the far
\* end for an end of file; but nobody waits for one who waits for him.  A join finds
\* the channel closed; a thread in recv is owed an answer by a peer that has its request
\* and can still answer, or that has exited; a thread in child.wait has closed the
\* socket first, and so has a process that is gone.
NoWaitCycle ==
    /\ phase = "joining" => thread # "off" /\ ~tx
    /\ thread = "sent" =>
          /\ sock
          /\ \/ peer = "exited"
             \/ peer \in {"boot", "serving"} /\ toPeer = <<job>>
             \/ peer = "busy" /\ handling = job
             \/ fromPeer # <<>>
    /\ thread = "reaping" \/ phase = "exit" => ~sock
=============================================================================
