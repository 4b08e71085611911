------------------------------ MODULE Signing ------------------------------
(***************************************************************************)
(* A signing backend (providers/agent_backend.rs and tpm_backend.rs), with *)
(* the process or the device at the far end of its descriptor.             *)
(*                                                                         *)
(* Callers are tasks of the daemon.  Each call puts a job with a one-shot  *)
(* channel on an unbounded queue; one OS thread takes the jobs in order,   *)
(* writes the request, blocks for the response, and answers the one-shot.  *)
(* Any error ends the thread.  The far end is either the agent process of  *)
(* providers/agent.rs, which restricts itself before it serves, or a TPM.  *)
(*                                                                         *)
(* An action is a step of one of the four: a caller, the thread, the far   *)
(* end, or the daemon's main thread, whose steps Startup puts in sequence. *)
(* The contents of claims, signatures and error texts are left out; a      *)
(* message names the call it belongs to, which the code's do not.          *)
(***************************************************************************)
EXTENDS Integers, Sequences

CONSTANTS
    Callers,     \* calls of sign, each made by one handler's task
    SelfCheck,   \* the call of self_check at startup
    NoCall       \* no call

ASSUME CallsDistinct ==
    /\ SelfCheck \notin Callers
    /\ NoCall \notin Callers \cup {SelfCheck}

Calls == Callers \cup {SelfCheck}

VARIABLES
    kind,        \* the backend that was spawned: "none", "file" or "tpm"
    peer,        \* where the agent process or the device is
    rung,        \* how much of its lock_down the agent has done
    handling,    \* the call the peer works on
    audit,       \* the calls whose claims the agent has logged
    sock,        \* the daemon's descriptor is open
    toPeer,      \* datagrams the peer has not read
    fromPeer,    \* datagrams the thread has not read
    thread,      \* where the actor thread is
    job,         \* the call whose round trip is under way
    queue,       \* the jobs in the channel
    tx,          \* the backend's sender exists
    call,        \* where each call is
    got          \* the response a call was answered with

peerVars == <<kind, peer, rung, handling, audit>>
wire == <<sock, toPeer, fromPeer>>
actor == <<thread, job, queue, tx>>
calls == <<call, got>>
signing == <<peerVars, wire, actor, calls>>

(* The steps of the agent before it serves, in order; the second may hang.   *)
Rungs == <<"take_socket_fd", "load_key", "lock_memory", "set_undumpable",
           "set_parent_death_signal", "apply_landlock", "apply_seccomp">>
ParentDeathSignal == 5

Request(c) == IF c = SelfCheck THEN "Ping" ELSE "SignJwt"
Reply(t, c) == [type |-> t, for |-> c]
Replies == [type : {"Jwt", "Pong", "Error"}, for : Calls]
Nothing(c) == [type |-> "None", for |-> c]

(* What the far end may answer.                                              *)
Responses(c) ==
    {Reply(IF Request(c) = "Ping" THEN "Pong" ELSE "Jwt", c)} \cup
    (IF kind = "file" /\ Request(c) = "Ping" THEN {} ELSE {Reply("Error", c)})

SigningInit ==
    /\ kind = "none" /\ peer = "none" /\ rung = 0 /\ handling = NoCall /\ audit = {}
    /\ sock = FALSE /\ toPeer = <<>> /\ fromPeer = <<>>
    /\ thread = "off" /\ job = NoCall /\ queue = <<>> /\ tx = FALSE
    /\ call = [c \in Calls |-> "unused"]
    /\ got = [c \in Calls |-> Nothing(c)]

-----------------------------------------------------------------------------
(* Construction and drop, by the daemon's main thread.                       *)

\* AgentSpawn::spawn forks the agent; TpmSpawn::open opens the device.
Spawn(k) ==
    /\ kind' = k
    /\ peer' = IF k = "file" THEN "boot" ELSE "serving"
    /\ sock' = TRUE
    /\ UNCHANGED <<rung, handling, audit, toPeer, fromPeer, actor, calls>>

\* into_backend starts the thread.
Start ==
    /\ thread' = "idle"
    /\ tx' = TRUE
    /\ UNCHANGED <<peerVars, wire, job, queue, calls>>

\* The callers' futures, which borrow the backend, are gone when it is dropped.
Abandoned ==
    [c \in Calls |-> IF call[c] = "waiting" THEN "gone" ELSE call[c]]

\* Faulty variant: the sender outlives the join.
DropBackendKeepsSender ==
    /\ call' = Abandoned
    /\ UNCHANGED <<peerVars, wire, actor, got>>

\* AgentBackend::drop closes the channel; what is left of it is the join.
DropBackend ==
    /\ tx' = FALSE
    /\ call' = Abandoned
    /\ UNCHANGED <<peerVars, wire, thread, job, queue, got>>

\* The daemon process is gone: its descriptors close, its threads and tasks vanish,
\* and an agent that has asked for it is sent SIGTERM.
ProcessEnds ==
    /\ sock' = FALSE
    /\ tx' = FALSE
    /\ thread' = IF thread = "off" THEN "off" ELSE "done"
    /\ call' = Abandoned
    /\ queue' = <<>> /\ job' = NoCall
    /\ IF kind = "file" /\ peer # "exited" /\ rung >= ParentDeathSignal
       THEN peer' = "exited" /\ handling' = NoCall
       ELSE UNCHANGED <<peer, handling>>
    /\ UNCHANGED <<kind, rung, audit, toPeer, fromPeer, got>>

-----------------------------------------------------------------------------
(* Callers: round_trip, sign and self_check.                                 *)

\* The job goes into the channel as long as its receiver exists.
Submit(c) ==
    /\ call[c] = "unused" /\ tx
    /\ IF thread = "done"
       THEN /\ call' = [call EXCEPT ![c] = "dead"]
            /\ UNCHANGED queue
       ELSE /\ call' = [call EXCEPT ![c] = "waiting"]
            /\ queue' = Append(queue, c)
    /\ UNCHANGED <<peerVars, wire, thread, job, tx, got>>

\* The handler's task is dropped, by the connection timeout or run_call's; the job
\* stays where it is.
CallerGone(c) ==
    /\ c \in Callers /\ call[c] = "waiting"
    /\ call' = [call EXCEPT ![c] = "gone"]
    /\ UNCHANGED <<peerVars, wire, actor, got>>

-----------------------------------------------------------------------------
(* The actor thread.                                                         *)

\* Answering a one-shot nobody listens to is ignored.
Answer(c, r) ==
    IF call[c] = "waiting"
    THEN /\ call' = [call EXCEPT ![c] = "answered"]
         /\ got' = [got EXCEPT ![c] = r]
    ELSE UNCHANGED calls

AnswerDead(c) ==
    call' = [call EXCEPT ![c] = IF @ = "waiting" THEN "dead" ELSE @]

ThreadSends ==
    /\ thread = "idle" /\ queue # <<>> /\ peer # "exited"
    /\ thread' = "sent" /\ job' = Head(queue) /\ queue' = Tail(queue)
    /\ toPeer' = Append(toPeer, Head(queue))
    /\ UNCHANGED <<peerVars, sock, fromPeer, tx, calls>>

\* EPIPE because the agent has exited, or any other error.
ThreadSendFails ==
    /\ thread = "idle" /\ queue # <<>>
    /\ thread' = "reaping" /\ queue' = Tail(queue)
    /\ AnswerDead(Head(queue))
    /\ sock' = FALSE
    /\ UNCHANGED <<peerVars, toPeer, fromPeer, job, tx, got>>

ThreadReceives ==
    /\ thread = "sent" /\ fromPeer # <<>>
    /\ Answer(job, Head(fromPeer))
    /\ fromPeer' = Tail(fromPeer)
    /\ thread' = "idle" /\ job' = NoCall
    /\ UNCHANGED <<peerVars, sock, toPeer, queue, tx>>

\* Faulty variant: the loop goes on after an error.
ThreadReceiveFailsGoesOn ==
    /\ thread = "sent"
    /\ AnswerDead(job)
    /\ thread' = "idle" /\ job' = NoCall
    /\ UNCHANGED <<peerVars, wire, queue, tx, got>>

\* Faulty variant: the socket is closed only after child.wait.
ThreadReceiveFailsHoldsSocket ==
    /\ thread = "sent"
    /\ AnswerDead(job)
    /\ thread' = "reaping" /\ job' = NoCall
    /\ UNCHANGED <<peerVars, wire, queue, tx, got>>

\* EOF or ECONNRESET because the agent has exited, or any other error: the response
\* of this job may still be on its way, so the thread never reads again.
ThreadReceiveFails ==
    /\ thread = "sent"
    /\ AnswerDead(job)
    /\ thread' = "reaping" /\ job' = NoCall
    /\ sock' = FALSE
    /\ UNCHANGED <<peerVars, toPeer, fromPeer, queue, tx, got>>

\* recv on the channel fails once the sender is gone and every queued job is done.
ThreadChannelClosed ==
    /\ thread = "idle" /\ queue = <<>> /\ ~tx
    /\ thread' = "reaping"
    /\ sock' = FALSE
    /\ UNCHANGED <<peerVars, toPeer, fromPeer, job, queue, tx, calls>>

\* Faulty variant: the receiver is kept when the thread ends.
ThreadEndsKeepsQueue ==
    /\ thread = "reaping"
    /\ kind = "file" => peer = "exited"
    /\ thread' = "done"
    /\ UNCHANGED <<peerVars, wire, job, queue, tx, calls>>

\* child.wait, then the closure's end drops the receiver, and with it the one-shots
\* of the jobs that are still queued.  A TPM has nobody to wait for.
ThreadEnds ==
    /\ thread = "reaping"
    /\ kind = "file" => peer = "exited"
    /\ thread' = "done"
    /\ queue' = <<>>
    /\ call' = [c \in Calls |-> IF call[c] = "waiting" THEN "dead" ELSE call[c]]
    /\ UNCHANGED <<peerVars, wire, job, tx, got>>

-----------------------------------------------------------------------------
(* The agent process, and the TPM as a peer that serves from the start.      *)

\* Faulty variant: the agent serves as soon as it has the key.
AgentServesUnlocked ==
    /\ peer = "boot"
    /\ rung' = rung + 1
    /\ peer' = IF rung' >= 2 THEN "serving" ELSE "boot"
    /\ UNCHANGED <<kind, handling, audit, wire, actor, calls>>

\* One step of run_inner and lock_down.
AgentRung ==
    /\ peer = "boot"
    /\ rung' = rung + 1
    /\ peer' = IF rung' = Len(Rungs) THEN "serving" ELSE "boot"
    /\ UNCHANGED <<kind, handling, audit, wire, actor, calls>>

\* Every step but mlockall is fatal when it fails.
AgentRungFails ==
    /\ peer = "boot" /\ Rungs[rung + 1] # "lock_memory"
    /\ peer' = "exited"
    /\ UNCHANGED <<kind, rung, handling, audit, wire, actor, calls>>

\* Faulty variant: the audit line is not written before the signature is made.
AgentTakesUnlogged ==
    /\ peer = "serving" /\ toPeer # <<>>
    /\ peer' = "busy" /\ handling' = Head(toPeer) /\ toPeer' = Tail(toPeer)
    /\ UNCHANGED <<kind, rung, audit, sock, fromPeer, actor, calls>>

\* serve_loop receives a request; handle logs the claims it is about to sign.
AgentTakes ==
    /\ peer = "serving" /\ toPeer # <<>>
    /\ peer' = "busy" /\ handling' = Head(toPeer) /\ toPeer' = Tail(toPeer)
    /\ audit' = IF kind = "file" /\ Request(Head(toPeer)) = "SignJwt"
                THEN audit \cup {Head(toPeer)} ELSE audit
    /\ UNCHANGED <<kind, rung, sock, fromPeer, actor, calls>>

AgentReplies ==
    /\ peer = "busy" /\ sock
    /\ \E r \in Responses(handling) : fromPeer' = Append(fromPeer, r)
    /\ peer' = "serving" /\ handling' = NoCall
    /\ UNCHANGED <<kind, rung, audit, sock, toPeer, actor, calls>>

\* Faulty variant: the daemon's end is not close-on-exec, so the agent holds a copy of
\* it and never reads EOF.
AgentHoldsDaemonEnd ==
    /\ ~sock /\ kind = "tpm"
    /\ peer \in {"serving", "busy"}
    /\ peer' = "exited" /\ handling' = NoCall
    /\ UNCHANGED <<kind, rung, audit, wire, actor, calls>>

\* The agent reads EOF once the daemon's end is closed and all requests are read, or
\* its send fails with EPIPE.  A device is closed with its descriptor.
AgentSeesClosed ==
    /\ ~sock
    /\ \/ peer = "serving" /\ toPeer = <<>>
       \/ peer = "busy"
    /\ peer' = "exited" /\ handling' = NoCall
    /\ UNCHANGED <<kind, rung, audit, wire, actor, calls>>

\* The agent is killed, by the kernel or an operator.
AgentDies ==
    /\ kind = "file" /\ peer \in {"boot", "serving", "busy"}
    /\ peer' = "exited" /\ handling' = NoCall
    /\ UNCHANGED <<kind, rung, audit, wire, actor, calls>>

\* The thread's steps that need nothing to go wrong but the peer's exit: it blocks in
\* recv as long as the peer lives and does not answer.
ThreadProgress ==
    \/ ThreadSends
    \/ ThreadReceives
    \/ ThreadChannelClosed
    \/ ThreadEnds
    \/ peer = "exited" /\ (ThreadSendFails \/ ThreadReceiveFails)

PeerProgress ==
    \/ AgentRung
    \/ AgentTakes
    \/ AgentReplies
    \/ AgentSeesClosed
=============================================================================
