--------------------------- MODULE StartupProofs ---------------------------
(***************************************************************************)
(* The signing backend and the start around it, for any number of calls    *)
(* and any set of configurations and hosts.                                *)
(*                                                                         *)
(* The backend's invariant speaks of its own variables only, and is kept   *)
(* by every step of a caller, the thread, the far end and the main thread  *)
(* (SigNext).  Its core is Lockstep: at most one message is between the    *)
(* thread and the far end, and it belongs to the thread's job; once that   *)
(* can no longer be said the thread does not read again.  The start's      *)
(* invariant says what the main thread knows in each phase (Order), and    *)
(* that nothing dies around it without a fault (Healthy).  On top of both, *)
(* WInv says what each party that waits can count on.                      *)
(***************************************************************************)
EXTENDS Startup, TLAPS

-----------------------------------------------------------------------------
(* The invariant of the backend.                                             *)

SigTyped ==
    /\ sock \in BOOLEAN /\ tx \in BOOLEAN
    /\ kind \in {"none", "file", "tpm"}
    /\ peer \in {"none", "boot", "serving", "busy", "exited"}
    /\ rung \in 0 .. 7
    /\ audit \subseteq Callers
    /\ toPeer \in Seq(Calls) /\ fromPeer \in Seq(Replies) /\ queue \in Seq(Calls)
    /\ thread \in {"off", "idle", "sent", "reaping", "done"}
    /\ call \in [Calls -> {"unused", "waiting", "gone", "dead", "answered"}]
    /\ got \in [Calls -> Replies \cup {Nothing(c) : c \in Calls}]
    /\ IF thread = "sent" THEN job \in Calls ELSE job = NoCall
    /\ IF peer = "busy" THEN handling \in Calls ELSE handling = NoCall
    /\ kind = "file" /\ peer \in {"serving", "busy"} => rung = 7
    /\ peer = "boot" => kind = "file" /\ rung < 7
    /\ thread = "off" => ~tx

Fits(r, c) ==
    /\ r.for = c
    /\ r.type \in {"Error", IF c = SelfCheck THEN "Pong" ELSE "Jwt"}

\* What is between the thread and the far end.
Lockstep ==
    /\ thread \in {"off", "idle"} =>
          toPeer = <<>> /\ fromPeer = <<>> /\ handling = NoCall
    /\ thread = "sent" =>
          \/ toPeer = <<job>> /\ fromPeer = <<>> /\ handling = NoCall
          \/ toPeer = <<>> /\ fromPeer = <<>> /\ handling \in {job, NoCall}
          \/ /\ toPeer = <<>> /\ handling = NoCall
             /\ Len(fromPeer) = 1 /\ Fits(fromPeer[1], job)

\* The agent has logged what it works on.
Logged ==
    kind = "file" /\ handling \in Callers => handling \in audit

\* The far end does not answer before it exists.
NoPeer ==
    kind = "none" =>
        /\ peer = "none" /\ rung = 0 /\ fromPeer = <<>>
        /\ \A c \in Calls : got[c].type # "Jwt"

\* A call has no response before it is answered.
Fresh == \A c \in Calls : call[c] \in {"unused", "waiting"} => got[c] = Nothing(c)

SigInv ==
    /\ SigTyped
    /\ Fresh
    /\ Lockstep
    /\ Logged
    /\ NoPeer
    /\ OwnAnswer
    /\ SignaturesAudited
    /\ NoForgottenCall

\* A step of the backend, whoever takes it.
SigNext ==
    \/ \E k \in {"file", "tpm"} : kind = "none" /\ thread = "off" /\ Spawn(k)
    \/ thread = "off" /\ Start
    \/ DropBackend
    \/ ProcessEnds
    \/ call' = Abandoned /\ UNCHANGED <<peerVars, wire, actor, got>>
    \/ \E c \in Calls : Submit(c)
    \/ \E c \in Callers : CallerGone(c)
    \/ ThreadProgress \/ ThreadSendFails \/ ThreadReceiveFails
    \/ PeerProgress \/ AgentDies \/ AgentRungFails
    \/ UNCHANGED signing

-----------------------------------------------------------------------------
(* The invariant of the start.                                               *)

Before == {"load", "mlock", "watch", "listen", "clients", "psks", "broker", "spawn"}
Checked == {"probe", "notify", "pidfile", "run"}
Going == Before \cup {"gate", "seal", "ping", "check"} \cup Checked

StTyped ==
    /\ setup \in Setups
    /\ phase \in Phases
    /\ code \in {"none", "failed", "ok", "killed"}
    /\ shutdown \in BOOLEAN /\ locked \in BOOLEAN /\ ready \in BOOLEAN
    /\ fault \in BOOLEAN
    /\ gate \in {"open", "off", "full", "partial", "none"}
    /\ confined \in {"open", "off", "full", "partial", "none"}
    /\ granted \subseteq {"clients", "psks", "pidfile"}
    /\ pidfile \in {"none", "written", "failed"}

\* What the main thread knows in each phase.
Order ==
    /\ phase \in Before => kind = "none" /\ gate = "open"
    /\ phase \in Before \cup {"gate", "seal"} => thread = "off"
    /\ phase \in Before \cup {"gate"} => gate = "open"
    /\ phase \in Going \ (Before \cup {"gate"}) => gate # "open"
    /\ phase \in Going \ {"load"} => ValidBackend(setup)
    /\ phase \in Going \ {"load", "mlock"} /\ setup.mlock = "required" => locked
    /\ gate # "open" /\ setup.sandbox = "required" => gate = "full"
    /\ gate \in {"full", "partial"} => granted = Writable(setup)
    /\ phase = "pidfile" => setup.pidfile
    /\ phase \in Going \ {"pidfile", "run"} => ~ready
    /\ thread # "off" => gate # "open" /\ confined = gate
    /\ phase \in {"ping", "check"} \cup Checked /\ setup.backend # "none" =>
          thread # "off" /\ tx
    /\ thread # "off" /\ phase \in Going => tx
    /\ phase \in {"ping", "check"} => setup.backend # "none"

\* The self-check has been passed.
Passed ==
    (phase \in Checked \/ ready) /\ setup.backend # "none" =>
        call[SelfCheck] = "answered" /\ got[SelfCheck] = Reply("Pong", SelfCheck)

Hard == ready => /\ gate # "open"
                 /\ setup.mlock = "required" => locked

\* Without a fault nothing around the main thread has died.
Healthy ==
    /\ shutdown => fault
    /\ phase \in Going /\ ~fault =>
          /\ peer # "exited" /\ thread \notin {"reaping", "done"}
          /\ kind # "none" => sock
          /\ call[SelfCheck] # "dead"

StInv == StTyped /\ Order /\ Passed /\ Hard /\ Healthy /\ FailsOnlyForCause

IInv == SigInv /\ StInv
-----------------------------------------------------------------------------
(* Proofs of the backend.                                                    *)

LEMMA HeadOrTail ==
    ASSUME NEW S, NEW q \in Seq(S), q # <<>>
    PROVE  \A i \in DOMAIN q :
              q[i] = Head(q) \/ \E j \in DOMAIN Tail(q) : Tail(q)[j] = q[i]
<1> TAKE i \in DOMAIN q
<1>1. CASE i = 1 BY <1>1
<1>2. CASE i # 1
  <2>1. i - 1 \in DOMAIN Tail(q) /\ Tail(q)[i - 1] = q[i] BY <1>2
  <2> QED BY <2>1
<1> QED BY <1>1, <1>2

LEMMA SigSpawn ==
    ASSUME SigInv, \E k \in {"file", "tpm"} : kind = "none" /\ thread = "off" /\ Spawn(k)
    PROVE  SigInv'
<1>1. SigTyped'
  <2>1. PICK k \in {"file", "tpm"} : kind = "none" /\ thread = "off" /\ Spawn(k)
    OBVIOUS
  <2>2. peer = "none" /\ rung = 0 /\ handling = NoCall
    BY <2>1 DEF SigInv, SigTyped, NoPeer
  <2> QED BY <2>2 DEF SigInv, SigTyped, Spawn, actor, calls
<1>2. Lockstep'
  BY DEF SigInv, Lockstep, Spawn
<1>3. Logged'
  BY CallsDistinct DEF SigInv, Logged, Lockstep, Spawn
<1>4. NoPeer'
  BY DEF NoPeer, Spawn
<1>5. OwnAnswer'
  BY DEF SigInv, OwnAnswer, Spawn, calls
<1>6. SignaturesAudited'
  BY DEF SigInv, SignaturesAudited, NoPeer, Spawn, calls
<1>7. NoForgottenCall'
  BY DEF SigInv, NoForgottenCall, Spawn, calls
<1>8. Fresh'
  BY DEF SigInv, Fresh, Spawn, calls
<1> QED BY <1>1, <1>2, <1>3, <1>4, <1>5, <1>6, <1>7, <1>8 DEF SigInv

LEMMA SigStart == ASSUME SigInv, thread = "off" /\ Start PROVE SigInv'
<1>1. SigTyped'
  BY DEF SigInv, SigTyped, Start, peerVars, wire, calls
<1>2. Lockstep'
  BY DEF SigInv, Lockstep, Start, peerVars, wire
<1>3. Logged'
  BY DEF SigInv, Logged, Start, peerVars
<1>4. NoPeer'
  BY DEF SigInv, NoPeer, Start, peerVars, wire, calls
<1>5. OwnAnswer'
  BY DEF SigInv, OwnAnswer, Start, calls
<1>6. SignaturesAudited'
  BY DEF SigInv, SignaturesAudited, Start, peerVars, wire, calls
<1>7. NoForgottenCall'
  BY DEF SigInv, NoForgottenCall, Start, calls
<1>8. Fresh'
  BY DEF SigInv, Fresh, Start, calls
<1> QED BY <1>1, <1>2, <1>3, <1>4, <1>5, <1>6, <1>7, <1>8 DEF SigInv

LEMMA SigDrop == ASSUME SigInv, DropBackend PROVE SigInv'
<1>1. SigTyped'
  BY DEF SigInv, SigTyped, DropBackend, Abandoned, peerVars, wire
<1>2. Lockstep'
  BY DEF SigInv, Lockstep, DropBackend, peerVars, wire
<1>3. Logged'
  BY DEF SigInv, Logged, DropBackend, peerVars
<1>4. NoPeer'
  BY DEF SigInv, NoPeer, DropBackend, peerVars, wire
<1>5. OwnAnswer'
  BY DEF SigInv, OwnAnswer, DropBackend, Abandoned
<1>6. SignaturesAudited'
  BY DEF SigInv, SignaturesAudited, DropBackend, peerVars, wire
<1>7. NoForgottenCall'
  BY DEF NoForgottenCall, DropBackend, Abandoned
<1>8. Fresh'
  BY DEF SigInv, Fresh, DropBackend, Abandoned
<1> QED BY <1>1, <1>2, <1>3, <1>4, <1>5, <1>6, <1>7, <1>8 DEF SigInv

LEMMA SigProcessEnds == ASSUME SigInv, ProcessEnds PROVE SigInv'
<1>1. SigTyped'
  <2>1. <<>> \in Seq(Calls) OBVIOUS
  <2>2. call' \in [Calls -> {"unused", "waiting", "gone", "dead", "answered"}]
    BY DEF SigInv, SigTyped, ProcessEnds, Abandoned
  <2> QED BY <2>1, <2>2 DEF SigInv, SigTyped, ProcessEnds
<1>2. Lockstep'
  BY DEF SigInv, Lockstep, ProcessEnds
<1>3. Logged'
  BY CallsDistinct DEF SigInv, Logged, ProcessEnds
<1>4. NoPeer'
  BY DEF SigInv, NoPeer, ProcessEnds
<1>5. OwnAnswer'
  BY DEF SigInv, OwnAnswer, ProcessEnds, Abandoned
<1>6. SignaturesAudited'
  BY DEF SigInv, SignaturesAudited, ProcessEnds
<1>7. NoForgottenCall'
  BY DEF NoForgottenCall, ProcessEnds, Abandoned
<1>8. Fresh'
  BY DEF SigInv, Fresh, ProcessEnds, Abandoned
<1> QED BY <1>1, <1>2, <1>3, <1>4, <1>5, <1>6, <1>7, <1>8 DEF SigInv

LEMMA SigAbandon ==
    ASSUME SigInv, call' = Abandoned /\ UNCHANGED <<peerVars, wire, actor, got>>
    PROVE  SigInv'
<1>1. SigTyped'
  BY DEF SigInv, SigTyped, Abandoned, peerVars, wire, actor
<1>2. Lockstep'
  BY DEF SigInv, Lockstep, peerVars, wire, actor
<1>3. Logged'
  BY DEF SigInv, Logged, peerVars
<1>4. NoPeer'
  BY DEF SigInv, NoPeer, peerVars, wire
<1>5. OwnAnswer'
  BY DEF SigInv, OwnAnswer, Abandoned
<1>6. SignaturesAudited'
  BY DEF SigInv, SignaturesAudited, peerVars, wire
<1>7. NoForgottenCall'
  BY DEF NoForgottenCall, Abandoned
<1>8. Fresh'
  BY DEF SigInv, Fresh, Abandoned
<1> QED BY <1>1, <1>2, <1>3, <1>4, <1>5, <1>6, <1>7, <1>8 DEF SigInv

LEMMA SigSubmit == ASSUME SigInv, \E c \in Calls : Submit(c) PROVE SigInv'
<1>1. SigTyped'
  <2>1. PICK c \in Calls : Submit(c) OBVIOUS
  <2>2. queue' \in Seq(Calls)
    <3>1. queue \in Seq(Calls) BY DEF SigInv, SigTyped
    <3>2. queue' = queue \/ queue' = Append(queue, c) BY <2>1 DEF Submit
    <3> QED BY <3>1, <3>2
  <2>3. call' \in [Calls -> {"unused", "waiting", "gone", "dead", "answered"}]
    BY <2>1 DEF SigInv, SigTyped, Submit
  <2> QED BY <2>2 DEF SigInv, SigTyped, Submit, peerVars, wire
<1>2. Lockstep'
  BY DEF SigInv, Lockstep, Submit, peerVars, wire
<1>3. Logged'
  BY DEF SigInv, Logged, Submit, peerVars
<1>4. NoPeer'
  BY DEF SigInv, NoPeer, Submit, peerVars, wire
<1>5. OwnAnswer'
  BY DEF SigInv, SigTyped, OwnAnswer, Submit
<1>6. SignaturesAudited'
  BY DEF SigInv, SignaturesAudited, Submit, peerVars, wire
<1>7. NoForgottenCall'
  <2>1. PICK c \in Calls : Submit(c) OBVIOUS
  <2>2. CASE thread = "done"
    BY <2>2 DEF SigInv, SigTyped, NoForgottenCall, Submit
  <2>3. CASE thread # "done"
    <3>1. /\ queue' = Append(queue, c) /\ call' = [call EXCEPT ![c] = "waiting"]
          /\ UNCHANGED <<thread, job>>
          /\ thread # "off"
      BY <2>1, <2>3 DEF SigInv, SigTyped, Submit
    <3>2. /\ \E i \in DOMAIN queue' : queue'[i] = c
          /\ \A d \in Calls : (\E i \in DOMAIN queue : queue[i] = d) =>
                                (\E i \in DOMAIN queue' : queue'[i] = d)
      <4>1. queue \in Seq(Calls) BY DEF SigInv, SigTyped
      <4>2. Append(queue, c)[Len(queue) + 1] = c /\ Len(queue) + 1 \in DOMAIN
         Append(queue, c)
        BY <4>1
      <4>3. \A i \in DOMAIN queue :
                i \in DOMAIN Append(queue, c) /\ Append(queue, c)[i] = queue[i]
        BY <4>1
      <4> QED BY <3>1, <4>2, <4>3, Zenon
    <3> QED BY <2>3, <3>1, <3>2 DEF SigInv, SigTyped, NoForgottenCall
  <2> QED BY <2>2, <2>3
<1>8. Fresh'
  BY DEF SigInv, SigTyped, Fresh, Submit
<1> QED BY <1>1, <1>2, <1>3, <1>4, <1>5, <1>6, <1>7, <1>8 DEF SigInv

LEMMA SigGone == ASSUME SigInv, \E c \in Callers : CallerGone(c) PROVE SigInv'
<1>1. SigTyped'
  BY DEF SigInv, SigTyped, Calls, CallerGone, peerVars, wire, actor
<1>2. Lockstep'
  BY DEF SigInv, Lockstep, CallerGone, peerVars, wire, actor
<1>3. Logged'
  BY DEF SigInv, Logged, CallerGone, peerVars
<1>4. NoPeer'
  BY DEF SigInv, NoPeer, CallerGone, peerVars, wire
<1>5. OwnAnswer'
  BY DEF SigInv, OwnAnswer, CallerGone
<1>6. SignaturesAudited'
  BY DEF SigInv, SignaturesAudited, CallerGone, peerVars, wire
<1>7. NoForgottenCall'
  BY DEF SigInv, NoForgottenCall, CallerGone, actor
<1>8. Fresh'
  BY DEF SigInv, Fresh, CallerGone
<1> QED BY <1>1, <1>2, <1>3, <1>4, <1>5, <1>6, <1>7, <1>8 DEF SigInv

LEMMA SigSends == ASSUME SigInv, ThreadSends PROVE SigInv'
<1>1. SigTyped'
  BY DEF SigInv, SigTyped, ThreadSends, peerVars, calls
<1>2. Lockstep'
  BY DEF SigInv, Lockstep, ThreadSends, peerVars
<1>3. Logged'
  BY DEF SigInv, Logged, ThreadSends, peerVars
<1>4. NoPeer'
  BY DEF SigInv, NoPeer, ThreadSends, peerVars, calls
<1>5. OwnAnswer'
  BY DEF SigInv, OwnAnswer, ThreadSends, calls
<1>6. SignaturesAudited'
  BY DEF SigInv, SignaturesAudited, ThreadSends, peerVars, calls
<1>7. NoForgottenCall'
  <2>1. queue \in Seq(Calls) /\ queue # <<>> BY DEF SigInv, SigTyped, ThreadSends
  <2>2. \A i \in DOMAIN queue : queue[i] = Head(queue) \/
            \E j \in DOMAIN Tail(queue) : Tail(queue)[j] = queue[i]
    BY <2>1, HeadOrTail
  <2>3. \A c \in Calls : call'[c] = "waiting" => \E i \in DOMAIN queue : queue[i] = c
    BY CallsDistinct DEF SigInv, SigTyped, NoForgottenCall, ThreadSends, calls, Calls
  <2>4. thread' = "sent" /\ job' = Head(queue) /\ queue' = Tail(queue)
    BY DEF ThreadSends
  <2> QED BY <2>2, <2>3, <2>4, Zenon DEF NoForgottenCall
<1>8. Fresh'
  BY DEF SigInv, Fresh, ThreadSends, calls
<1> QED BY <1>1, <1>2, <1>3, <1>4, <1>5, <1>6, <1>7, <1>8 DEF SigInv

LEMMA SigSendFails == ASSUME SigInv, ThreadSendFails PROVE SigInv'
<1>1. SigTyped'
  <2>1. Head(queue) \in Calls /\ queue' \in Seq(Calls)
    BY DEF SigInv, SigTyped, ThreadSendFails
  <2>2. call' \in [Calls -> {"unused", "waiting", "gone", "dead", "answered"}]
    BY DEF SigInv, SigTyped, ThreadSendFails, AnswerDead
  <2> QED BY <2>1, <2>2 DEF SigInv, SigTyped, ThreadSendFails, peerVars
<1>2. Lockstep'
  BY DEF Lockstep, ThreadSendFails
<1>3. Logged'
  BY DEF SigInv, Logged, ThreadSendFails, peerVars
<1>4. NoPeer'
  BY DEF SigInv, NoPeer, ThreadSendFails, peerVars
<1>5. OwnAnswer'
  BY DEF SigInv, OwnAnswer, ThreadSendFails, AnswerDead
<1>6. SignaturesAudited'
  BY DEF SigInv, SignaturesAudited, ThreadSendFails, peerVars
<1>7. NoForgottenCall'
  <2>1. Head(queue) \in Calls
    BY DEF SigInv, SigTyped, ThreadSendFails
  <2>2. \A c \in Calls : call'[c] = "waiting" => call[c] = "waiting" /\ c # Head(queue)
    BY DEF SigInv, SigTyped, ThreadSendFails, AnswerDead
  <2> QED BY <2>2, HeadOrTail DEF SigInv, SigTyped, NoForgottenCall, ThreadSendFails
<1>8. Fresh'
  BY DEF SigInv, Fresh, ThreadSendFails, AnswerDead
<1> QED BY <1>1, <1>2, <1>3, <1>4, <1>5, <1>6, <1>7, <1>8 DEF SigInv

LEMMA SigReceives == ASSUME SigInv, ThreadReceives PROVE SigInv'
<1>1. SigTyped'
  <2>1. Head(fromPeer) \in Replies /\ fromPeer' \in Seq(Replies) /\ job \in Calls
    BY DEF SigInv, SigTyped, ThreadReceives
  <2>2. /\ call' \in [Calls -> {"unused", "waiting", "gone", "dead", "answered"}]
        /\ got' \in [Calls -> Replies \cup {Nothing(c) : c \in Calls}]
    BY <2>1 DEF SigInv, SigTyped, ThreadReceives, Answer, calls
  <2> QED BY <2>2 DEF SigInv, SigTyped, ThreadReceives, peerVars
<1>2. Lockstep'
  BY CallsDistinct DEF SigInv, Lockstep, Replies, ThreadReceives, peerVars
<1>3. Logged'
  BY DEF SigInv, Logged, ThreadReceives, peerVars
<1>4. NoPeer'
  BY DEF SigInv, NoPeer, ThreadReceives, peerVars
<1>5. OwnAnswer'
  BY DEF SigInv, SigTyped, OwnAnswer, Lockstep, Fits, ThreadReceives, Answer, calls
<1>6. SignaturesAudited'
  <2>1. /\ fromPeer' = <<>> /\ job \in Calls
        /\ Head(fromPeer) = fromPeer[1] /\ 1 \in DOMAIN fromPeer
    BY DEF SigInv, SigTyped, Lockstep, ThreadReceives
  <2>2. \A c \in Calls : got'[c] = got[c] \/ got'[c] = fromPeer[1]
    BY DEF SigInv, SigTyped, ThreadReceives, Answer, calls
  <2> QED BY <2>1, <2>2 DEF SigInv, SignaturesAudited, ThreadReceives, peerVars
<1>7. NoForgottenCall'
  BY DEF SigInv, SigTyped, NoForgottenCall, ThreadReceives, Answer, calls
<1>8. Fresh'
  BY DEF SigInv, SigTyped, Fresh, ThreadReceives, Answer, calls
<1> QED BY <1>1, <1>2, <1>3, <1>4, <1>5, <1>6, <1>7, <1>8 DEF SigInv

LEMMA SigReceiveFails == ASSUME SigInv, ThreadReceiveFails PROVE SigInv'
<1>1. SigTyped'
  BY DEF SigInv, SigTyped, ThreadReceiveFails, AnswerDead, peerVars
<1>2. Lockstep'
  BY DEF Lockstep, ThreadReceiveFails
<1>3. Logged'
  BY DEF SigInv, Logged, ThreadReceiveFails, peerVars
<1>4. NoPeer'
  BY DEF SigInv, NoPeer, ThreadReceiveFails, peerVars
<1>5. OwnAnswer'
  BY DEF SigInv, OwnAnswer, ThreadReceiveFails, AnswerDead
<1>6. SignaturesAudited'
  BY DEF SigInv, SignaturesAudited, ThreadReceiveFails, peerVars
<1>7. NoForgottenCall'
  BY DEF SigInv, SigTyped, NoForgottenCall, ThreadReceiveFails, AnswerDead
<1>8. Fresh'
  BY DEF SigInv, Fresh, ThreadReceiveFails, AnswerDead
<1> QED BY <1>1, <1>2, <1>3, <1>4, <1>5, <1>6, <1>7, <1>8 DEF SigInv

LEMMA SigChannelClosed == ASSUME SigInv, ThreadChannelClosed PROVE SigInv'
<1>1. SigTyped'
  BY DEF SigInv, SigTyped, ThreadChannelClosed, peerVars, calls
<1>2. Lockstep'
  BY DEF Lockstep, ThreadChannelClosed
<1>3. Logged'
  BY DEF SigInv, Logged, ThreadChannelClosed, peerVars
<1>4. NoPeer'
  BY DEF SigInv, NoPeer, ThreadChannelClosed, peerVars, calls
<1>5. OwnAnswer'
  BY DEF SigInv, OwnAnswer, ThreadChannelClosed, calls
<1>6. SignaturesAudited'
  BY DEF SigInv, SignaturesAudited, ThreadChannelClosed, peerVars, calls
<1>7. NoForgottenCall'
  BY DEF SigInv, NoForgottenCall, ThreadChannelClosed, calls
<1>8. Fresh'
  BY DEF SigInv, Fresh, ThreadChannelClosed, calls
<1> QED BY <1>1, <1>2, <1>3, <1>4, <1>5, <1>6, <1>7, <1>8 DEF SigInv

LEMMA SigEnds == ASSUME SigInv, ThreadEnds PROVE SigInv'
<1>1. SigTyped'
  BY DEF SigInv, SigTyped, ThreadEnds, peerVars, wire
<1>2. Lockstep'
  BY DEF Lockstep, ThreadEnds
<1>3. Logged'
  BY DEF SigInv, Logged, ThreadEnds, peerVars
<1>4. NoPeer'
  BY DEF SigInv, NoPeer, ThreadEnds, peerVars, wire
<1>5. OwnAnswer'
  BY DEF SigInv, OwnAnswer, ThreadEnds
<1>6. SignaturesAudited'
  BY DEF SigInv, SignaturesAudited, ThreadEnds, peerVars, wire
<1>7. NoForgottenCall'
  BY DEF NoForgottenCall, ThreadEnds
<1>8. Fresh'
  BY DEF SigInv, Fresh, ThreadEnds
<1> QED BY <1>1, <1>2, <1>3, <1>4, <1>5, <1>6, <1>7, <1>8 DEF SigInv

LEMMA SigRung == ASSUME SigInv, AgentRung PROVE SigInv'
<1>1. SigTyped'
  BY DEF SigInv, SigTyped, AgentRung, Rungs, wire, actor, calls
<1>2. Lockstep'
  BY DEF SigInv, Lockstep, AgentRung, wire, actor
<1>3. Logged'
  BY DEF SigInv, Logged, AgentRung
<1>4. NoPeer'
  BY DEF SigInv, NoPeer, AgentRung
<1>5. OwnAnswer'
  BY DEF SigInv, OwnAnswer, AgentRung, calls
<1>6. SignaturesAudited'
  BY DEF SigInv, SignaturesAudited, AgentRung, wire, calls
<1>7. NoForgottenCall'
  BY DEF SigInv, NoForgottenCall, AgentRung, actor, calls
<1>8. Fresh'
  BY DEF SigInv, Fresh, AgentRung, calls
<1> QED BY <1>1, <1>2, <1>3, <1>4, <1>5, <1>6, <1>7, <1>8 DEF SigInv

LEMMA SigRungFails == ASSUME SigInv, AgentRungFails PROVE SigInv'
<1>1. SigTyped'
  BY DEF SigInv, SigTyped, AgentRungFails, wire, actor, calls
<1>2. Lockstep'
  BY DEF SigInv, Lockstep, AgentRungFails, wire, actor
<1>3. Logged'
  BY DEF SigInv, Logged, AgentRungFails
<1>4. NoPeer'
  BY DEF SigInv, NoPeer, AgentRungFails
<1>5. OwnAnswer'
  BY DEF SigInv, OwnAnswer, AgentRungFails, calls
<1>6. SignaturesAudited'
  BY DEF SigInv, SignaturesAudited, AgentRungFails, wire, calls
<1>7. NoForgottenCall'
  BY DEF SigInv, NoForgottenCall, AgentRungFails, actor, calls
<1>8. Fresh'
  BY DEF SigInv, Fresh, AgentRungFails, calls
<1> QED BY <1>1, <1>2, <1>3, <1>4, <1>5, <1>6, <1>7, <1>8 DEF SigInv

LEMMA SigTakes == ASSUME SigInv, AgentTakes PROVE SigInv'
<1>1. SigTyped'
  BY DEF SigInv, SigTyped, Calls, AgentTakes, Request, actor, calls
<1>2. Lockstep'
  BY DEF SigInv, SigTyped, Lockstep, AgentTakes, actor
<1>3. Logged'
  BY CallsDistinct DEF Logged, AgentTakes, Request
<1>4. NoPeer'
  BY DEF SigInv, NoPeer, AgentTakes
<1>5. OwnAnswer'
  BY DEF SigInv, OwnAnswer, AgentTakes, calls
<1>6. SignaturesAudited'
  BY DEF SigInv, SignaturesAudited, AgentTakes, calls
<1>7. NoForgottenCall'
  BY DEF SigInv, NoForgottenCall, AgentTakes, actor, calls
<1>8. Fresh'
  BY DEF SigInv, Fresh, AgentTakes, calls
<1> QED BY <1>1, <1>2, <1>3, <1>4, <1>5, <1>6, <1>7, <1>8 DEF SigInv

LEMMA SigReplies == ASSUME SigInv, AgentReplies PROVE SigInv'
<1>1. SigTyped'
  BY DEF SigInv, SigTyped, Replies, AgentReplies, Responses, Reply, actor, calls
<1>2. Lockstep'
  BY CallsDistinct
  DEF SigInv, SigTyped, Lockstep, Fits, Calls, AgentReplies, Responses, Reply,
      Request, actor
<1>3. Logged'
  BY CallsDistinct DEF Logged, AgentReplies
<1>4. NoPeer'
  BY DEF SigInv, NoPeer, AgentReplies
<1>5. OwnAnswer'
  BY DEF SigInv, OwnAnswer, AgentReplies, calls
<1>6. SignaturesAudited'
  BY DEF SigInv, SigTyped, SignaturesAudited, Logged, Calls, AgentReplies, Responses,
      Reply, Request, calls
<1>7. NoForgottenCall'
  BY DEF SigInv, NoForgottenCall, AgentReplies, actor, calls
<1>8. Fresh'
  BY DEF SigInv, Fresh, AgentReplies, calls
<1> QED BY <1>1, <1>2, <1>3, <1>4, <1>5, <1>6, <1>7, <1>8 DEF SigInv

LEMMA SigSeesClosed == ASSUME SigInv, AgentSeesClosed PROVE SigInv'
<1>1. SigTyped'
  BY DEF SigInv, SigTyped, AgentSeesClosed, wire, actor, calls
<1>2. Lockstep'
  BY DEF SigInv, Lockstep, AgentSeesClosed, wire, actor
<1>3. Logged'
  BY CallsDistinct DEF Logged, AgentSeesClosed
<1>4. NoPeer'
  BY DEF SigInv, NoPeer, AgentSeesClosed
<1>5. OwnAnswer'
  BY DEF SigInv, OwnAnswer, AgentSeesClosed, calls
<1>6. SignaturesAudited'
  BY DEF SigInv, SignaturesAudited, AgentSeesClosed, wire, calls
<1>7. NoForgottenCall'
  BY DEF SigInv, NoForgottenCall, AgentSeesClosed, actor, calls
<1>8. Fresh'
  BY DEF SigInv, Fresh, AgentSeesClosed, calls
<1> QED BY <1>1, <1>2, <1>3, <1>4, <1>5, <1>6, <1>7, <1>8 DEF SigInv

LEMMA SigDies == ASSUME SigInv, AgentDies PROVE SigInv'
<1>1. SigTyped'
  BY DEF SigInv, SigTyped, AgentDies, wire, actor, calls
<1>2. Lockstep'
  BY DEF SigInv, Lockstep, AgentDies, wire, actor
<1>3. Logged'
  BY CallsDistinct DEF Logged, AgentDies
<1>4. NoPeer'
  BY DEF NoPeer, AgentDies
<1>5. OwnAnswer'
  BY DEF SigInv, OwnAnswer, AgentDies, calls
<1>6. SignaturesAudited'
  BY DEF SigInv, SignaturesAudited, AgentDies, wire, calls
<1>7. NoForgottenCall'
  BY DEF SigInv, NoForgottenCall, AgentDies, actor, calls
<1>8. Fresh'
  BY DEF SigInv, Fresh, AgentDies, calls
<1> QED BY <1>1, <1>2, <1>3, <1>4, <1>5, <1>6, <1>7, <1>8 DEF SigInv

LEMMA SigUnchanged == ASSUME SigInv, UNCHANGED signing PROVE SigInv'
<1>1. SigTyped'
  BY DEF SigInv, SigTyped, signing, peerVars, wire, actor, calls
<1>2. Lockstep'
  BY DEF SigInv, Lockstep, signing, peerVars, wire, actor
<1>3. Logged'
  BY DEF SigInv, Logged, signing, peerVars
<1>4. NoPeer'
  BY DEF SigInv, NoPeer, signing, peerVars, wire, calls
<1>5. OwnAnswer'
  BY DEF SigInv, OwnAnswer, signing, calls
<1>6. SignaturesAudited'
  BY DEF SigInv, SignaturesAudited, signing, peerVars, wire, calls
<1>7. NoForgottenCall'
  BY DEF SigInv, NoForgottenCall, signing, actor, calls
<1>8. Fresh'
  BY DEF SigInv, Fresh, signing, calls
<1> QED BY <1>1, <1>2, <1>3, <1>4, <1>5, <1>6, <1>7, <1>8 DEF SigInv

LEMMA SigStep == ASSUME SigInv, SigNext PROVE SigInv'
BY SigSpawn, SigStart, SigDrop, SigProcessEnds, SigAbandon, SigSubmit, SigGone,
   SigSends, SigSendFails, SigReceives, SigReceiveFails, SigChannelClosed, SigEnds,
   SigRung, SigRungFails, SigTakes, SigReplies, SigSeesClosed, SigDies, SigUnchanged
DEF SigNext, ThreadProgress, PeerProgress

-----------------------------------------------------------------------------
(* Every step of the start is a step of the backend, or leaves it alone.     *)

LEMMA LeaveIsSig == ASSUME NEW c, Leave(c) PROVE DropBackend \/ ProcessEnds
BY DEF Leave

LEMMA NextIsSig == ASSUME IInv, [Next]_vars PROVE SigNext
<1> USE DEF IInv
<1>1. CASE LoadConfig BY LeaveIsSig, <1>1 DEF SigNext, LoadConfig
<1>2. CASE Mlock BY <1>2 DEF SigNext, Mlock
<1>3. CASE Watch BY <1>3 DEF SigNext, Watch, Goto
<1>4. CASE TakeListeners BY <1>4 DEF SigNext, TakeListeners, Goto
<1>5. CASE ReadClients BY <1>5 DEF SigNext, ReadClients
<1>6. CASE ReadPsks BY <1>6 DEF SigNext, ReadPsks
<1>7. CASE ReadBrokerKey BY <1>7 DEF SigNext, ReadBrokerKey
<1>8. CASE SpawnBackend
  BY LeaveIsSig, SetupsTyped, <1>8
  DEF SigNext, SpawnBackend, StInv, Order, Before, StTyped, SetupType
<1>9. CASE ApplySandbox BY LeaveIsSig, <1>9 DEF SigNext, ApplySandbox
<1>10. CASE StartBackend BY <1>10 DEF SigNext, StartBackend, StInv, Order
<1>11. CASE Ping BY <1>11 DEF SigNext, Ping, Calls
<1>12. CASE SelfCheckDone BY LeaveIsSig, <1>12 DEF SigNext, SelfCheckDone
<1>13. CASE CancelPrepare BY LeaveIsSig, <1>13 DEF SigNext, CancelPrepare
<1>14. CASE ProbeDone BY <1>14 DEF SigNext, ProbeDone
<1>15. CASE Notify BY <1>15 DEF SigNext, Notify
<1>16. CASE WritePidfile BY <1>16 DEF SigNext, WritePidfile
<1>17. CASE RunEnds BY LeaveIsSig, <1>17 DEF SigNext, RunEnds
<1>18. CASE Joined BY <1>18 DEF SigNext, Joined
<1>19. CASE \E c \in Callers : Sign(c) BY <1>19 DEF SigNext, Sign, Calls
<1>20. CASE \E c \in Callers : CallerGone(c) /\ UNCHANGED startup BY <1>20 DEF SigNext
<1>21. CASE ThreadProgress /\ UNCHANGED startup BY <1>21 DEF SigNext
<1>22. CASE PeerProgress /\ UNCHANGED startup BY <1>22 DEF SigNext
<1>23. CASE WritePidfileFails BY <1>23 DEF SigNext, WritePidfileFails
<1>24. CASE StepFails BY LeaveIsSig, <1>24 DEF SigNext, StepFails, FailsAt
<1>25. CASE PeerFails BY <1>25 DEF SigNext, PeerFails
<1>26. CASE Signal BY <1>26 DEF SigNext, Signal
<1>27. CASE Crash BY <1>27 DEF SigNext, Crash
<1>28. CASE UNCHANGED vars BY <1>28 DEF SigNext, vars
<1> QED
  BY <1>1, <1>2, <1>3, <1>4, <1>5, <1>6, <1>7, <1>8, <1>9, <1>10, <1>11, <1>12, <1>13,
     <1>14, <1>15, <1>16, <1>17, <1>18, <1>19, <1>20, <1>21, <1>22, <1>23, <1>24, <1>25,
     <1>26, <1>27, <1>28
  DEF Next, Daemon

-----------------------------------------------------------------------------
(* Every step of the start keeps its invariant.                              *)

LEMMA StLeave ==
    ASSUME IInv, NEW c \in {"failed", "ok"}, Leave(c),
           fault' \in BOOLEAN, fault => fault', c = "failed" => Cause'
    PROVE  StInv'
<1>1. /\ phase' \in {"joining", "exit"} /\ code' = c /\ call' = Abandoned
      /\ thread' = "off" <=> thread = "off"
      /\ UNCHANGED <<setup, shutdown, locked, gate, granted, confined, ready, pidfile,
         got>>
  BY DEF Leave, DropBackend, ProcessEnds
<1>2. StTyped' BY <1>1 DEF IInv, StInv, StTyped, Phases
<1>3. Order' BY <1>1 DEF IInv, StInv, Order, Before, Checked, Going
<1>4. Passed' BY <1>1 DEF IInv, StInv, Passed, Checked, Calls, Abandoned
<1>5. Hard' BY <1>1 DEF IInv, StInv, Hard
<1>6. Healthy' BY <1>1 DEF IInv, StInv, Healthy, Before, Checked, Going
<1>7. FailsOnlyForCause' BY <1>1 DEF IInv, StInv, FailsOnlyForCause, Cause
<1> QED BY <1>2, <1>3, <1>4, <1>5, <1>6, <1>7 DEF StInv

\* The thread answers only calls that wait.
LEMMA ThreadKeeps ==
    ASSUME IInv, ThreadProgress PROVE got[SelfCheck].type = "Error" =>
       got'[SelfCheck].type = "Error"
<1>1. got[SelfCheck].type = "Error" => call[SelfCheck] # "waiting"
  <2>1. SelfCheck \in Calls BY DEF Calls
  <2>2. call[SelfCheck] = "waiting" => got[SelfCheck] = Nothing(SelfCheck)
    BY <2>1 DEF IInv, SigInv, Fresh
  <2> QED BY <2>2 DEF Nothing
<1>2. got' = got \/ (\E r : Answer(job, r))
  BY DEF ThreadProgress, ThreadSends, ThreadReceives, ThreadChannelClosed,
      ThreadEnds, ThreadSendFails, ThreadReceiveFails, calls
<1>3. \A r : Answer(job, r) => got' = got \/ (call[job] = "waiting" /\ got' = [got
   EXCEPT ![job] = r])
  BY DEF Answer, calls
<1>4. CASE job = SelfCheck BY <1>1, <1>2, <1>3, <1>4
<1>5. CASE job # SelfCheck
  <2>1. got'[SelfCheck] = got[SelfCheck]
    BY <1>2, <1>3, <1>5 DEF IInv, SigInv, SigTyped, Calls
  <2> QED BY <2>1
<1> QED BY <1>4, <1>5

LEMMA StLoad == ASSUME IInv, LoadConfig PROVE StInv'
<1>1. CASE ~ValidBackend(setup)
  <2>1. Leave("failed") /\ UNCHANGED fault BY <1>1 DEF LoadConfig
  <2>2. Cause'
    BY <1>1, <2>1 DEF Cause, ValidBackend, Leave
  <2> QED BY <2>1, <2>2, StLeave DEF IInv, StInv, StTyped
<1>2. CASE ValidBackend(setup)
  <2>1. StTyped'
    BY <1>2 DEF IInv, StInv, StTyped, Phases, LoadConfig, Goto, ValidBackend
  <2>2. Order'
    BY <1>2
    DEF IInv, StInv, Order, Before, Checked, Going, LoadConfig, Goto, signing,
        peerVars, actor
  <2>3. Passed'
    BY <1>2 DEF IInv, StInv, Passed, Checked, LoadConfig, Goto, signing, calls
  <2>4. Hard'
    BY <1>2 DEF IInv, StInv, Hard, LoadConfig, Goto
  <2>5. Healthy'
    BY <1>2
    DEF IInv, StInv, Healthy, Order, Before, Going, LoadConfig, Goto, signing,
        peerVars, actor, calls
  <2>6. FailsOnlyForCause'
    BY <1>2 DEF IInv, StInv, FailsOnlyForCause, Cause, LoadConfig, Goto, signing, calls
  <2> QED BY <2>1, <2>2, <2>3, <2>4, <2>5, <2>6 DEF StInv
<1> QED BY <1>1, <1>2

LEMMA StMlock == ASSUME IInv, Mlock PROVE StInv'
<1>1. StTyped'
  BY SetupsTyped, CallsDistinct
  DEF IInv, StInv, StTyped, Phases, Mlock, signing, peerVars, wire, actor, calls
<1>2. Order'
  BY DEF IInv, StInv, Order, Before, Checked, Going, Mlock, signing, peerVars, actor
<1>3. Passed'
  BY DEF IInv, StInv, Passed, Checked, Mlock, signing, calls
<1>4. Hard'
  BY DEF IInv, StInv, Hard, Mlock
<1>5. Healthy'
  BY DEF IInv, StInv, Healthy, Order, Before, Going, Mlock, signing, peerVars, actor,
      calls
<1>6. FailsOnlyForCause'
  BY DEF IInv, StInv, FailsOnlyForCause, Cause, Mlock, signing, calls
<1> QED BY <1>1, <1>2, <1>3, <1>4, <1>5, <1>6 DEF StInv

LEMMA StStraight ==
    ASSUME IInv, Watch \/ TakeListeners \/ ReadClients \/ ReadPsks \/ ReadBrokerKey
    PROVE  StInv'
<1>1. StTyped'
  <2>1. /\ phase' \in {"listen", "clients", "psks", "broker", "spawn"}
        /\ UNCHANGED <<setup, code, shutdown, locked, gate, granted, confined, ready,
           pidfile, fault>>
    BY DEF Watch, TakeListeners, ReadClients, ReadPsks, ReadBrokerKey, Goto
  <2> QED BY <2>1 DEF IInv, StInv, StTyped, Phases
<1>2. Order'
  BY DEF IInv, StInv, Order, Before, Checked, Going, Watch, TakeListeners,
      ReadClients, ReadPsks, ReadBrokerKey, Goto, signing, peerVars, actor
<1>3. Passed'
  BY DEF IInv, StInv, Passed, Checked, Watch, TakeListeners, ReadClients, ReadPsks,
      ReadBrokerKey, Goto, signing, calls
<1>4. Hard'
  BY DEF IInv, StInv, Hard, Watch, TakeListeners, ReadClients, ReadPsks,
      ReadBrokerKey, Goto
<1>5. Healthy'
  BY DEF IInv, StInv, Healthy, Order, Before, Going, Watch, TakeListeners,
      ReadClients, ReadPsks, ReadBrokerKey, Goto, signing, peerVars, actor, calls
<1>6. FailsOnlyForCause'
  BY DEF IInv, StInv, FailsOnlyForCause, Cause, Watch, TakeListeners, ReadClients,
      ReadPsks, ReadBrokerKey, Goto, signing, calls
<1> QED BY <1>1, <1>2, <1>3, <1>4, <1>5, <1>6 DEF StInv

LEMMA StSpawn == ASSUME IInv, SpawnBackend PROVE StInv'
<1> USE DEF IInv
<1>1. /\ phase = "spawn" /\ gate = "open" /\ kind = "none" /\ ValidBackend(setup)
      /\ setup.backend \in {"none", "file", "tpm"}
  BY SetupsTyped DEF StInv, StTyped, Order, Before, Going, SpawnBackend, SetupType
<1>2. /\ Goto("gate")
      /\ UNCHANGED signing \/ Spawn(setup.backend)
  BY <1>1 DEF SpawnBackend, ValidBackend
<1>3. StTyped'
  BY <1>2 DEF StInv, StTyped, Phases, Goto
<1>4. Order'
  BY <1>1, <1>2 DEF StInv, Order, Before, Checked, Going, Goto, Spawn, signing, actor
<1>5. Passed'
  BY <1>2 DEF StInv, Passed, Checked, Goto, Spawn, signing, calls
<1>6. Hard'
  BY <1>2 DEF StInv, Hard, Goto
<1>7. Healthy'
  BY <1>1, <1>2
  DEF StInv, Healthy, Before, Going, Goto, Spawn, signing, peerVars, actor, calls
<1>8. FailsOnlyForCause'
  BY <1>2 DEF StInv, FailsOnlyForCause, Cause, Goto, Spawn, signing, calls
<1> QED BY <1>3, <1>4, <1>5, <1>6, <1>7, <1>8 DEF StInv

LEMMA StGate == ASSUME IInv, ApplySandbox PROVE StInv'
<1>1. CASE setup.sandbox # "off" /\ ~(Enforceable(setup) /\ PathsOpen(setup))
  <2>1. Leave("failed") /\ UNCHANGED fault BY <1>1 DEF ApplySandbox
  <2>2. Cause'
    BY <1>1, <2>1 DEF Cause, Enforceable, PathsOpen, Leave
  <2> QED BY <2>1, <2>2, StLeave DEF IInv, StInv, StTyped
<1>2. CASE ~(setup.sandbox # "off" /\ ~(Enforceable(setup) /\ PathsOpen(setup)))
  <2>1. StTyped'
    <3>1. /\ phase' \in {"seal"}
          /\ gate' \in {"off", "full", "partial", "none"}
          /\ granted' \in SUBSET {"clients", "psks", "pidfile"}
          /\ UNCHANGED <<setup, code, shutdown, locked, confined, ready, pidfile,
             fault>>
      BY <1>2, SetupsTyped DEF IInv, StInv, StTyped, ApplySandbox, SetupType, Writable
    <3> QED BY <3>1 DEF IInv, StInv, StTyped, Phases
  <2>2. Order'
    <3>1. setup.landlock \in {"full", "partial", "none"} /\ setup.sandbox \in Modes
      BY SetupsTyped DEF IInv, StInv, StTyped, SetupType
    <3>2. /\ phase' = "seal" /\ thread' = "off" /\ ValidBackend(setup)
          /\ gate' # "open" /\ (setup.sandbox = "required" => gate' = "full")
          /\ setup.mlock = "required" => locked
          /\ gate' \in {"full", "partial"} => granted' = Writable(setup)
          /\ ready' = FALSE
          /\ UNCHANGED <<setup, locked>>
      BY <1>2, <3>1
      DEF IInv, StInv, Order, Going, ApplySandbox, Enforceable, signing, actor
    <3> QED BY <3>2 DEF Order, Before, Checked
  <2>3. Passed'
    BY <1>2 DEF IInv, StInv, Passed, Checked, ApplySandbox, signing, calls
  <2>4. Hard'
    BY <1>2 DEF IInv, StInv, Hard, Order, ApplySandbox
  <2>5. Healthy'
    BY <1>2
    DEF IInv, StInv, Healthy, Going, ApplySandbox, signing, peerVars, wire, actor,
        calls
  <2>6. FailsOnlyForCause'
    BY <1>2 DEF IInv, StInv, FailsOnlyForCause, Cause, ApplySandbox, signing, calls
  <2> QED BY <2>1, <2>2, <2>3, <2>4, <2>5, <2>6 DEF StInv
<1> QED BY <1>1, <1>2

LEMMA StStart == ASSUME IInv, StartBackend PROVE StInv'
<1>1. StTyped'
  <2>1. /\ phase' \in {"probe", "ping"}
        /\ confined' \in {confined, gate}
        /\ UNCHANGED <<setup, code, shutdown, locked, gate, granted, ready, pidfile,
           fault>>
    BY DEF StartBackend, Goto
  <2> QED BY <2>1 DEF IInv, StInv, StTyped, Phases
<1>2. Order'
  BY DEF IInv, StInv, Order, Before, Going, StartBackend, Goto, Start, signing, actor
<1>3. Passed'
  BY DEF IInv, StInv, Passed, Checked, StartBackend, Goto, Start, calls
<1>4. Hard'
  BY DEF IInv, StInv, Hard, StartBackend, Goto
<1>5. Healthy'
  BY DEF IInv, StInv, Healthy, Going, StartBackend, Goto, Start, signing, peerVars,
      wire, actor, calls
<1>6. FailsOnlyForCause'
  BY DEF IInv, StInv, FailsOnlyForCause, Cause, StartBackend, Goto, Start, signing,
      calls
<1> QED BY <1>1, <1>2, <1>3, <1>4, <1>5, <1>6 DEF StInv

LEMMA StPing == ASSUME IInv, Ping PROVE StInv'
<1>1. StTyped'
  BY DEF IInv, StInv, StTyped, Phases, Ping, Goto
<1>2. Order'
  BY DEF IInv, StInv, Order, Before, Going, Ping, Submit, Goto
<1>3. Passed'
  BY DEF IInv, StInv, Passed, Checked, Ping, Submit, Goto
<1>4. Hard'
  BY DEF IInv, StInv, Hard, Ping, Goto
<1>5. Healthy'
  BY DEF IInv, StInv, Healthy, SigInv, SigTyped, Calls, Going, Ping, Submit, Goto,
      peerVars, wire
<1>6. FailsOnlyForCause'
  BY DEF IInv, StInv, FailsOnlyForCause, Cause, Ping, Submit, Goto
<1> QED BY <1>1, <1>2, <1>3, <1>4, <1>5, <1>6 DEF StInv

LEMMA StSelfCheck == ASSUME IInv, SelfCheckDone PROVE StInv'
<1>1. CASE ~(call[SelfCheck] = "answered" /\ got[SelfCheck].type = "Pong")
  <2>1. Leave("failed") /\ UNCHANGED fault BY <1>1 DEF SelfCheckDone
  <2>2. Cause'
    BY <1>1
    DEF IInv, StInv, Healthy, Going, SigInv, OwnAnswer, Calls, Cause,
        SelfCheckDone, Leave, DropBackend, ProcessEnds
  <2> QED BY <2>1, <2>2, StLeave DEF IInv, StInv, StTyped
<1>2. CASE call[SelfCheck] = "answered" /\ got[SelfCheck].type = "Pong"
  <2>1. StTyped'
    <3>1. /\ phase' \in {"probe"}
          /\ UNCHANGED <<setup, code, shutdown, locked, gate, granted, confined,
             ready, pidfile, fault>>
      BY <1>2 DEF SelfCheckDone, Goto
    <3> QED BY <3>1 DEF IInv, StInv, StTyped, Phases
  <2>2. Order'
    BY <1>2 DEF IInv, StInv, Order, Before, Going, SelfCheckDone, Goto, signing, actor
  <2>3. Passed'
    <3>1. got[SelfCheck] = Reply("Pong", SelfCheck)
      <4>1. got[SelfCheck] \in Replies \cup {Nothing(c) : c \in Calls}
        BY DEF IInv, SigInv, SigTyped, Calls
      <4>2. got[SelfCheck].for = SelfCheck
        BY <1>2 DEF IInv, SigInv, OwnAnswer, Calls
      <4> QED BY <1>2, <4>1, <4>2 DEF Replies, Nothing, Reply
    <3>2. UNCHANGED calls BY <1>2 DEF SelfCheckDone, signing
    <3> QED BY <1>2, <3>1, <3>2 DEF Passed, calls
  <2>4. Hard'
    BY <1>2 DEF IInv, StInv, Hard, SelfCheckDone, Goto
  <2>5. Healthy'
    BY <1>2
    DEF IInv, StInv, Healthy, Going, SelfCheckDone, Goto, signing, peerVars, wire,
        actor, calls
  <2>6. FailsOnlyForCause'
    BY <1>2 DEF IInv, StInv, FailsOnlyForCause, Cause, SelfCheckDone, Goto
  <2> QED BY <2>1, <2>2, <2>3, <2>4, <2>5, <2>6 DEF StInv
<1> QED BY <1>1, <1>2

LEMMA StCancel == ASSUME IInv, CancelPrepare PROVE StInv'
BY StLeave DEF IInv, StInv, Cause, Healthy, CancelPrepare

LEMMA StProbe == ASSUME IInv, ProbeDone PROVE StInv'
<1>1. StTyped'
  BY DEF IInv, StInv, StTyped, Phases, ProbeDone, Goto
<1>2. Order'
  BY DEF IInv, StInv, Order, Before, Checked, Going, ProbeDone, Goto, actor
<1>3. Passed'
  BY DEF IInv, StInv, Passed, Checked, Calls, ProbeDone, Goto, Abandoned
<1>4. Hard'
  BY DEF IInv, StInv, Hard, ProbeDone, Goto
<1>5. Healthy'
  BY DEF IInv, StInv, Healthy, Calls, Checked, Going, ProbeDone, Goto, Abandoned,
      peerVars, wire, actor
<1>6. FailsOnlyForCause'
  BY DEF IInv, StInv, FailsOnlyForCause, Cause, ProbeDone, Goto
<1> QED BY <1>1, <1>2, <1>3, <1>4, <1>5, <1>6 DEF StInv

LEMMA StNotify == ASSUME IInv, Notify PROVE StInv'
<1>1. StTyped'
  BY DEF IInv, StInv, StTyped, Phases, Notify
<1>2. Order'
  BY DEF IInv, StInv, Order, Before, Checked, Going, Notify, signing, actor
<1>3. Passed'
  BY DEF IInv, StInv, Passed, Checked, Notify, signing, calls
<1>4. Hard'
  BY DEF IInv, StInv, Hard, Order, Before, Checked, Going, Notify
<1>5. Healthy'
  BY DEF IInv, StInv, Healthy, Checked, Going, Notify, signing, peerVars, wire,
      actor, calls
<1>6. FailsOnlyForCause'
  BY DEF IInv, StInv, FailsOnlyForCause, Cause, Notify, signing, calls
<1> QED BY <1>1, <1>2, <1>3, <1>4, <1>5, <1>6 DEF StInv

LEMMA StPidfile == ASSUME IInv, WritePidfile \/ WritePidfileFails PROVE StInv'
<1>1. StTyped'
  <2>1. /\ phase' \in {"run"}
        /\ pidfile' \in {"written", "failed"}
        /\ fault' \in BOOLEAN
        /\ UNCHANGED <<setup, code, shutdown, locked, gate, granted, confined, ready>>
    BY DEF IInv, StInv, StTyped, WritePidfile, WritePidfileFails
  <2> QED BY <2>1 DEF IInv, StInv, StTyped, Phases
<1>2. Order'
  BY DEF IInv, StInv, Order, Before, Checked, Going, WritePidfile, WritePidfileFails,
      signing, actor
<1>3. Passed'
  BY DEF IInv, StInv, Passed, Checked, WritePidfile, WritePidfileFails, signing, calls
<1>4. Hard'
  BY DEF IInv, StInv, Hard, WritePidfile, WritePidfileFails
<1>5. Healthy'
  BY DEF IInv, StInv, Healthy, Checked, Going, WritePidfile, WritePidfileFails,
      signing, peerVars, wire, actor, calls
<1>6. FailsOnlyForCause'
  <2>1. CASE WritePidfileFails
    BY <2>1 DEF WritePidfileFails, FailsOnlyForCause, Cause
  <2>2. CASE WritePidfile
    <3>1. gate \in {"off", "none"} \/ "pidfile" \in granted
      BY <2>2
      DEF IInv, StInv, StTyped, Order, Writable, WritePidfile, Before, Checked,
          Going
    <3>2. pidfile' = "written" /\ UNCHANGED <<setup, code, fault, got>>
      BY <2>2, <3>1 DEF WritePidfile, signing, calls
    <3>3. FailsOnlyForCause BY DEF IInv, StInv
    <3> QED BY <3>2, <3>3 DEF FailsOnlyForCause, Cause
  <2> QED BY <2>1, <2>2
<1> QED BY <1>1, <1>2, <1>3, <1>4, <1>5, <1>6 DEF StInv

LEMMA StSign == ASSUME IInv, \E c \in Callers : Sign(c) PROVE StInv'
<1>1. StTyped'
  BY DEF IInv, StInv, StTyped, Sign, startup
<1>2. Order'
  BY DEF IInv, StInv, Order, Before, Sign, Submit, startup
<1>3. Passed'
  BY DEF IInv, StInv, Passed, SigInv, SigTyped, Calls, Sign, Submit, startup
<1>4. Hard'
  BY DEF IInv, StInv, Hard, Sign, startup
<1>5. Healthy'
  BY DEF IInv, StInv, Healthy, SigInv, SigTyped, Calls, Sign, Submit, startup,
      peerVars, wire
<1>6. FailsOnlyForCause'
  BY DEF IInv, StInv, FailsOnlyForCause, Cause, Sign, Submit, startup
<1> QED BY <1>1, <1>2, <1>3, <1>4, <1>5, <1>6 DEF StInv

LEMMA StRunEnds == ASSUME IInv, RunEnds PROVE StInv'
BY StLeave DEF IInv, StInv, StTyped, RunEnds

LEMMA StJoined == ASSUME IInv, Joined PROVE StInv'
<1>1. StTyped'
  BY DEF IInv, StInv, StTyped, Phases, Joined, Goto
<1>2. Order'
  BY DEF IInv, StInv, Order, Before, Checked, Going, Joined, Goto
<1>3. Passed'
  BY DEF IInv, StInv, Passed, Checked, Calls, Joined, Goto, ProcessEnds, Abandoned
<1>4. Hard'
  BY DEF IInv, StInv, Hard, Joined, Goto
<1>5. Healthy'
  BY DEF IInv, StInv, Healthy, Before, Checked, Going, Joined, Goto
<1>6. FailsOnlyForCause'
  BY DEF IInv, StInv, FailsOnlyForCause, Cause, Joined, Goto, ProcessEnds
<1> QED BY <1>1, <1>2, <1>3, <1>4, <1>5, <1>6 DEF StInv

LEMMA StGone ==
    ASSUME IInv, \E c \in Callers : CallerGone(c) /\ UNCHANGED startup
    PROVE  StInv'
<1>1. StTyped'
  BY DEF IInv, StInv, StTyped, startup
<1>2. Order'
  BY DEF IInv, StInv, Order, CallerGone, startup, peerVars, actor
<1>3. Passed'
  BY DEF IInv, StInv, Passed, CallerGone, startup
<1>4. Hard'
  BY DEF IInv, StInv, Hard, startup
<1>5. Healthy'
  BY DEF IInv, StInv, Healthy, CallerGone, startup, peerVars, wire, actor
<1>6. FailsOnlyForCause'
  BY DEF IInv, StInv, FailsOnlyForCause, Cause, CallerGone, startup
<1> QED BY <1>1, <1>2, <1>3, <1>4, <1>5, <1>6 DEF StInv

LEMMA StThread == ASSUME IInv, ThreadProgress /\ UNCHANGED startup PROVE StInv'
<1>1. StTyped'
  BY DEF IInv, StInv, StTyped, startup
<1>2. Order'
  BY DEF IInv, StInv, Order, ThreadProgress, ThreadSends, ThreadReceives,
      ThreadChannelClosed, ThreadEnds, ThreadSendFails, ThreadReceiveFails, startup
<1>3. Passed'
  BY DEF IInv, StInv, Passed, SigInv, SigTyped, Calls, ThreadProgress, ThreadSends,
      ThreadReceives, ThreadChannelClosed, ThreadEnds, ThreadSendFails,
      ThreadReceiveFails, AnswerDead, Answer, startup, calls
<1>4. Hard'
  BY DEF IInv, StInv, Hard, startup
<1>5. Healthy'
  BY DEF IInv, StInv, Healthy, Order, SigInv, SigTyped, Calls, ThreadProgress,
      ThreadSends, ThreadReceives, ThreadChannelClosed, ThreadEnds, Answer, startup,
      peerVars, calls
<1>6. FailsOnlyForCause'
  <2>1. got'[SelfCheck].type = "Error" \/ got[SelfCheck].type # "Error"
    BY ThreadKeeps
  <2>2. UNCHANGED <<setup, code, fault, pidfile>> BY DEF startup
  <2> QED BY <2>1, <2>2 DEF IInv, StInv, FailsOnlyForCause, Cause
<1> QED BY <1>1, <1>2, <1>3, <1>4, <1>5, <1>6 DEF StInv

LEMMA StPeer == ASSUME IInv, PeerProgress /\ UNCHANGED startup PROVE StInv'
<1>1. StTyped'
  BY DEF IInv, StInv, StTyped, startup
<1>2. Order'
  BY DEF IInv, StInv, Order, PeerProgress, AgentRung, AgentTakes, AgentReplies,
      AgentSeesClosed, startup, actor
<1>3. Passed'
  BY DEF IInv, StInv, Passed, PeerProgress, AgentRung, AgentTakes, AgentReplies,
      AgentSeesClosed, startup, calls
<1>4. Hard'
  BY DEF IInv, StInv, Hard, startup
<1>5. Healthy'
  BY DEF IInv, StInv, Healthy, SigInv, NoPeer, PeerProgress, AgentRung, AgentTakes,
      AgentReplies, AgentSeesClosed, startup, wire, actor, calls
<1>6. FailsOnlyForCause'
  BY DEF IInv, StInv, FailsOnlyForCause, Cause, PeerProgress, AgentRung, AgentTakes,
      AgentReplies, AgentSeesClosed, startup, calls
<1> QED BY <1>1, <1>2, <1>3, <1>4, <1>5, <1>6 DEF StInv

LEMMA StStepFails == ASSUME IInv, StepFails PROVE StInv'
BY StLeave DEF Cause, StepFails, FailsAt

LEMMA StPeerFails == ASSUME IInv, PeerFails PROVE StInv'
<1>1. StTyped'
  BY DEF IInv, StInv, StTyped, PeerFails
<1>2. Order'
  BY DEF IInv, StInv, Order, PeerFails, AgentDies, AgentRungFails, ThreadSendFails,
      ThreadReceiveFails, actor
<1>3. Passed'
  BY DEF IInv, StInv, Passed, SigInv, SigTyped, Calls, PeerFails, AgentDies,
      AgentRungFails, ThreadSendFails, ThreadReceiveFails, AnswerDead, calls
<1>4. Hard'
  BY DEF IInv, StInv, Hard, PeerFails
<1>5. Healthy'
  BY DEF Healthy, PeerFails
<1>6. FailsOnlyForCause'
  BY DEF FailsOnlyForCause, Cause, PeerFails
<1> QED BY <1>1, <1>2, <1>3, <1>4, <1>5, <1>6 DEF StInv

LEMMA StSignal == ASSUME IInv, Signal PROVE StInv'
<1>1. StTyped'
  <2>1. /\ phase' \in {"exit", phase}
        /\ code' \in {code, "killed"}
        /\ shutdown' \in BOOLEAN
        /\ fault' \in BOOLEAN
        /\ UNCHANGED <<setup, locked, gate, granted, confined, ready, pidfile>>
    BY DEF IInv, StInv, StTyped, Signal
  <2> QED BY <2>1 DEF IInv, StInv, StTyped, Phases
<1>2. Order'
  BY DEF IInv, StInv, Order, Before, Checked, Going, Signal, ProcessEnds, signing,
      peerVars, actor
<1>3. Passed'
  BY DEF IInv, StInv, Passed, Checked, Calls, Signal, ProcessEnds, Abandoned,
      signing, calls
<1>4. Hard'
  BY DEF IInv, StInv, Hard, Signal
<1>5. Healthy'
  BY DEF Healthy, Signal
<1>6. FailsOnlyForCause'
  BY DEF FailsOnlyForCause, Cause, Signal
<1> QED BY <1>1, <1>2, <1>3, <1>4, <1>5, <1>6 DEF StInv

LEMMA StCrash == ASSUME IInv, Crash PROVE StInv'
<1>1. StTyped'
  BY DEF IInv, StInv, StTyped, Phases, Crash
<1>2. Order'
  BY DEF IInv, StInv, Order, Before, Checked, Going, Crash, ProcessEnds
<1>3. Passed'
  BY DEF IInv, StInv, Passed, Checked, Calls, Crash, ProcessEnds, Abandoned
<1>4. Hard'
  BY DEF IInv, StInv, Hard, Crash
<1>5. Healthy'
  BY DEF Healthy, Crash
<1>6. FailsOnlyForCause'
  BY DEF FailsOnlyForCause, Cause, Crash
<1> QED BY <1>1, <1>2, <1>3, <1>4, <1>5, <1>6 DEF StInv

LEMMA StUnchanged == ASSUME IInv, UNCHANGED vars PROVE StInv'
<1>1. StTyped'
  BY DEF IInv, StInv, StTyped, vars, startup
<1>2. Order'
  BY DEF IInv, StInv, Order, vars, startup, signing, peerVars, actor
<1>3. Passed'
  BY DEF IInv, StInv, Passed, vars, startup, signing, calls
<1>4. Hard'
  BY DEF IInv, StInv, Hard, vars, startup
<1>5. Healthy'
  BY DEF IInv, StInv, Healthy, vars, startup, signing, peerVars, wire, actor, calls
<1>6. FailsOnlyForCause'
  BY DEF IInv, StInv, FailsOnlyForCause, Cause, vars, startup, signing, calls
<1> QED BY <1>1, <1>2, <1>3, <1>4, <1>5, <1>6 DEF StInv

LEMMA StStep == ASSUME IInv, [Next]_vars PROVE StInv'
<1>1. CASE Daemon
  BY <1>1, StLoad, StMlock, StStraight, StSpawn, StGate, StStart, StPing, StSelfCheck,
     StCancel, StProbe, StNotify, StPidfile, StRunEnds, StJoined
  DEF Daemon
<1>2. CASE \E c \in Callers : Sign(c) \/ (CallerGone(c) /\ UNCHANGED startup)
  BY <1>2, StSign, StGone
<1> QED
  BY <1>1, <1>2, StThread, StPeer, StPidfile, StStepFails, StPeerFails, StSignal,
     StCrash, StUnchanged
  DEF Next

-----------------------------------------------------------------------------
(* The theorems.                                                             *)

LEMMA InitIInv == Init => IInv
<1> SUFFICES ASSUME Init PROVE IInv OBVIOUS
<1>1. SigTyped
  <2>1. got \in [Calls -> Replies \cup {Nothing(c) : c \in Calls}]
    BY DEF Init, SigningInit
  <2>2. call \in [Calls -> {"unused", "waiting", "gone", "dead", "answered"}]
    BY DEF Init, SigningInit
  <2>3. toPeer \in Seq(Calls) /\ fromPeer \in Seq(Replies) /\ queue \in Seq(Calls)
    BY DEF Init, SigningInit
  <2>4. kind = "none" /\ peer = "none" /\ rung = 0 /\ audit = {} /\ thread = "off"
    BY DEF Init, SigningInit
  <2>5. sock \in BOOLEAN /\ tx \in BOOLEAN /\ ~tx /\ job = NoCall /\ handling = NoCall
    BY DEF Init, SigningInit
  <2> QED BY <2>1, <2>2, <2>3, <2>4, <2>5 DEF SigTyped
<1>2. Lockstep /\ Logged /\ OwnAnswer /\ NoForgottenCall /\ Fresh
  BY DEF Init, SigningInit, Lockstep, Logged, OwnAnswer, NoForgottenCall, Fresh
<1>3. NoPeer /\ SignaturesAudited
  BY DEF Init, SigningInit, NoPeer, SignaturesAudited, Nothing
<1>4. StInv
  BY DEF Init, SigningInit, StInv, StTyped, Phases, Order, Before, Checked, Passed,
      Hard, Healthy, FailsOnlyForCause, Calls
<1> QED BY <1>1, <1>2, <1>3, <1>4 DEF IInv, SigInv

LEMMA StepIInv == ASSUME IInv, [Next]_vars PROVE IInv'
BY NextIsSig, SigStep, StStep DEF IInv

\* The invariant of the backend and of the start, on which the others rest.
THEOREM Invariance == Spec => []IInv
BY InitIInv, StepIInv, PTL DEF Spec

\* A round trip, a request at the far end and the agent's lock-down are what the type
\* invariant says they are, for any number of callers.
THEOREM TypeCorrect == Spec => []TypeOK
<1>1. IInv => TypeOK
  <2>1. Len(Rungs) = 7 BY DEF Rungs
  <2> SUFFICES ASSUME IInv PROVE TypeOK OBVIOUS
  <2>2. SigTyped /\ StTyped BY DEF IInv, SigInv, StInv
  <2>3. {shutdown, locked, ready, fault, sock, tx} \subseteq BOOLEAN
    BY <2>2 DEF SigTyped, StTyped
  <2> QED BY <2>1, <2>2 DEF TypeOK, SigTyped, StTyped
<1> QED BY <1>1, Invariance, PTL

\* The thread of agent_backend.rs never hands a caller the response to another's
\* request.
THEOREM AnswersAreOwn == Spec => []OwnAnswer
<1>1. IInv => OwnAnswer BY DEF IInv, SigInv
<1> QED BY <1>1, Invariance, PTL

\* No signature leaves the agent without its audit line.
THEOREM Audited == Spec => []SignaturesAudited
<1>1. IInv => SignaturesAudited BY DEF IInv, SigInv
<1> QED BY <1>1, Invariance, PTL

\* A waiting caller is always known to a thread that has not ended.
THEOREM NoneForgotten == Spec => []NoForgottenCall
<1>1. IInv => NoForgottenCall BY DEF IInv, SigInv
<1> QED BY <1>1, Invariance, PTL

\* READY=1 means confined, locked and answered for, as far as configured.
THEOREM Earned == Spec => []ReadyEarned
<1>1. IInv => ReadyEarned
  BY DEF IInv, StInv, Order, Passed, Hard, ReadyEarned
<1> QED BY <1>1, Invariance, PTL

\* The daemon does not fail itself at startup.
THEOREM FailuresHaveCauses == Spec => []FailsOnlyForCause
<1>1. IInv => FailsOnlyForCause BY DEF IInv, StInv
<1> QED BY <1>1, Invariance, PTL
-----------------------------------------------------------------------------
(* Who waits for whom.                                                       *)

\* What a thread that waits can count on, and that there is a far end to wait for.
Owed ==
    /\ kind # "none" => peer # "none"
    /\ thread # "off" => kind # "none"
    /\ thread \in {"idle", "sent"} => sock
    /\ thread = "sent" =>
          \/ peer = "exited"
          \/ peer \in {"boot", "serving"} /\ toPeer = <<job>>
          \/ peer = "busy" /\ handling = job
          \/ fromPeer # <<>>
    /\ thread = "reaping" => ~sock

\* The descriptor is there when the thread is started with it.
Backed ==
    phase \in {"gate", "seal"} /\ setup.backend # "none" => kind # "none" /\ sock

\* A join is for a thread that was started and whose channel is closed.
JoinClosed == phase = "joining" => thread # "off" /\ ~tx

\* A process that is gone holds no socket.
ExitClosed == phase = "exit" => ~sock

WInv == Owed /\ Backed /\ JoinClosed /\ ExitClosed

\* The main thread's part of a step.
MainStep ==
    \/ phase = "seal" /\ setup.backend # "none" /\ Start /\ phase' = "ping"
    \/ \E c : Leave(c)
    \/ ProcessEnds /\ phase' = "exit"
    \/ /\ thread' = "off" <=> thread = "off"
       /\ tx' = tx
       /\ phase' = "joining" => phase = "joining"
       /\ phase' = "exit" => phase = "exit" /\ (sock' => sock)
       /\ phase' \in {"gate", "seal"} =>
             /\ setup' = setup
             /\ \/ phase \in {"gate", "seal"} /\ kind' = kind /\ sock' = sock
                \/ setup.backend # "none" => kind' # "none" /\ sock'

\* Steps of callers, the thread and the far end leave the main thread's part alone.
LEMMA BackendStep ==
    ASSUME IInv, UNCHANGED <<phase, setup>>,
           \/ \E c \in Calls : Submit(c) \/ CallerGone(c)
           \/ ThreadProgress \/ ThreadSendFails \/ ThreadReceiveFails
           \/ PeerProgress \/ AgentDies \/ AgentRungFails
           \/ UNCHANGED signing
    PROVE  MainStep
<1>1. phase \in {"gate", "seal"} => thread = "off"
  BY DEF IInv, StInv, Order
<1>2. CASE ThreadProgress \/ ThreadSendFails \/ ThreadReceiveFails
  <2>1. /\ thread \in {"idle", "sent", "reaping"} /\ thread' # "off" /\ tx' = tx
        /\ sock' => sock
    BY <1>2 DEF ThreadProgress, ThreadSends, ThreadReceives, ThreadChannelClosed,
        ThreadEnds, ThreadSendFails, ThreadReceiveFails, wire
  <2> QED BY <1>1, <2>1 DEF MainStep
<1>3. CASE \/ \E c \in Calls : Submit(c) \/ CallerGone(c)
           \/ PeerProgress \/ AgentDies \/ AgentRungFails \/ UNCHANGED signing
  <2>1. thread' = thread /\ tx' = tx /\ kind' = kind /\ sock' = sock
    BY <1>3 DEF Submit, CallerGone, PeerProgress, AgentRung, AgentTakes, AgentReplies,
        AgentSeesClosed, AgentDies, AgentRungFails, signing, peerVars, wire, actor
  <2> QED BY <2>1 DEF MainStep
<1> QED BY <1>2, <1>3

LEMMA NextIsMain == ASSUME IInv, [Next]_vars PROVE MainStep
<1>1. CASE LoadConfig \/ Mlock \/ Watch \/ TakeListeners \/ ReadClients \/ ReadPsks
           \/ ReadBrokerKey
  <2>1. \/ \E c : Leave(c)
        \/ UNCHANGED signing /\ phase' \notin {"joining", "gate", "seal", "exit"}
    BY <1>1 DEF LoadConfig, Mlock, Watch, TakeListeners, ReadClients, ReadPsks,
        ReadBrokerKey, Goto
  <2> QED BY <2>1 DEF MainStep, signing, actor
<1>2. CASE SpawnBackend
  <2>1. setup.backend \in {"none", "file", "tpm"}
    BY SetupsTyped DEF IInv, StInv, StTyped, SetupType
  <2> QED BY <1>2, <2>1 DEF SpawnBackend, Goto, Spawn, MainStep, signing, actor
<1>3. CASE ApplySandbox
  BY <1>3 DEF ApplySandbox, MainStep, signing, actor, wire, peerVars
<1>4. CASE StartBackend
  BY <1>4 DEF StartBackend, Goto, MainStep, signing, actor
<1>5. CASE Ping BY <1>5 DEF Ping, Submit, Goto, MainStep
<1>6. CASE SelfCheckDone BY <1>6 DEF SelfCheckDone, Goto, MainStep, signing, actor
<1>7. CASE CancelPrepare BY <1>7 DEF CancelPrepare, MainStep
<1>8. CASE ProbeDone BY <1>8 DEF ProbeDone, Goto, MainStep, actor
<1>9. CASE Notify \/ WritePidfile \/ WritePidfileFails
  <2>1. UNCHANGED signing /\ phase' \in {"pidfile", "run"}
    BY <1>9 DEF Notify, WritePidfile, WritePidfileFails
  <2> QED BY <2>1 DEF MainStep, signing, actor
<1>10. CASE RunEnds BY <1>10 DEF RunEnds, MainStep
<1>11. CASE Joined BY <1>11 DEF Joined, Goto, MainStep
<1>12. CASE StepFails BY <1>12 DEF StepFails, FailsAt, MainStep
<1>13. CASE Signal
  <2>1. \/ ProcessEnds /\ phase' = "exit"
        \/ UNCHANGED signing /\ UNCHANGED <<phase, setup>>
    BY <1>13 DEF Signal
  <2> QED BY <2>1 DEF MainStep, signing, actor, wire, peerVars
<1>14. CASE Crash BY <1>14 DEF Crash, MainStep
<1>15. CASE \E c \in Callers : Sign(c) \/ (CallerGone(c) /\ UNCHANGED startup)
  <2>1. UNCHANGED <<phase, setup>> /\ \E c \in Calls : Submit(c) \/ CallerGone(c)
    BY <1>15 DEF Sign, startup, Calls
  <2> QED BY <2>1, BackendStep
<1>16. CASE (ThreadProgress \/ PeerProgress) /\ UNCHANGED startup
  <2>1. UNCHANGED <<phase, setup>> BY <1>16 DEF startup
  <2> QED BY <1>16, <2>1, BackendStep
<1>17. CASE PeerFails
  <2>1. UNCHANGED <<phase, setup>> BY <1>17 DEF PeerFails
  <2> QED BY <1>17, <2>1, BackendStep DEF PeerFails
<1>18. CASE UNCHANGED vars
  <2>1. UNCHANGED signing /\ UNCHANGED <<phase, setup>> BY <1>18 DEF vars, startup
  <2> QED BY <2>1, BackendStep
<1> QED
  BY <1>1, <1>2, <1>3, <1>4, <1>5, <1>6, <1>7, <1>8, <1>9, <1>10, <1>11, <1>12, <1>13,
     <1>14, <1>15, <1>16, <1>17, <1>18
  DEF Next, Daemon
\* Steps by the main thread and by callers.
LEMMA OwedMain ==
    ASSUME SigInv, Owed,
           \/ \E k \in {"file", "tpm"} : kind = "none" /\ thread = "off" /\ Spawn(k)
           \/ thread = "off" /\ Start /\ kind # "none" /\ sock
           \/ DropBackend
           \/ ProcessEnds
           \/ call' = Abandoned /\ UNCHANGED <<peerVars, wire, actor, got>>
           \/ \E c \in Calls : Submit(c)
           \/ \E c \in Callers : CallerGone(c)
           \/ UNCHANGED signing
    PROVE  Owed'
<1>1. CASE \E k \in {"file", "tpm"} : kind = "none" /\ thread = "off" /\ Spawn(k)
  BY <1>1 DEF Spawn, Owed, actor
<1>2. CASE thread = "off" /\ Start /\ kind # "none" /\ sock
  BY <1>2 DEF Start, Owed, peerVars, wire
<1>3. CASE ProcessEnds
  BY <1>3 DEF ProcessEnds, Owed
<1>4. CASE \/ DropBackend
           \/ call' = Abandoned /\ UNCHANGED <<peerVars, wire, actor, got>>
           \/ \E c \in Calls : Submit(c)
           \/ \E c \in Callers : CallerGone(c)
           \/ UNCHANGED signing
  <2>1. UNCHANGED <<kind, peer, handling, sock, toPeer, fromPeer, thread, job>>
    BY <1>4 DEF DropBackend, Submit, CallerGone, signing, peerVars, wire, actor
  <2> QED BY <2>1 DEF Owed
<1> QED BY <1>1, <1>2, <1>3, <1>4

\* Steps of the thread.
LEMMA OwedThread ==
    ASSUME SigInv, Owed, ThreadProgress \/ ThreadSendFails \/ ThreadReceiveFails
    PROVE  Owed'
<1>1. CASE ThreadSends
  <2>1. /\ thread = "idle" /\ peer # "exited" /\ thread' = "sent" /\ job' = Head(queue)
        /\ toPeer' = Append(toPeer, Head(queue))
        /\ UNCHANGED <<kind, peer, handling, sock, fromPeer>>
    BY <1>1 DEF ThreadSends, peerVars
  <2>2. toPeer = <<>> /\ handling = NoCall
    BY <2>1 DEF SigInv, Lockstep
  <2>3. toPeer' = <<job'>>
    BY <2>1, <2>2
  <2>4. peer \in {"boot", "serving"}
    <3>1. NoCall \notin Calls BY CallsDistinct DEF Calls
    <3> QED BY <2>1, <2>2, <3>1 DEF SigInv, SigTyped, Owed
  <2> QED BY <2>1, <2>3, <2>4 DEF Owed
<1>2. CASE ThreadReceives BY <1>2 DEF ThreadReceives, Owed, peerVars
<1>3. CASE ThreadSendFails \/ ThreadReceiveFails \/ ThreadChannelClosed
  <2>1. /\ thread \in {"idle", "sent"} /\ thread' = "reaping" /\ sock' = FALSE
        /\ UNCHANGED <<kind, peer>>
    BY <1>3 DEF ThreadSendFails, ThreadReceiveFails, ThreadChannelClosed, peerVars
  <2> QED BY <2>1 DEF Owed
<1>4. CASE ThreadEnds BY <1>4 DEF ThreadEnds, Owed, peerVars
<1> QED BY <1>1, <1>2, <1>3, <1>4 DEF ThreadProgress

\* Steps of the far end: it forgets no request and answers what it has taken.
LEMMA OwedPeer ==
    ASSUME SigInv, Owed, PeerProgress \/ AgentDies \/ AgentRungFails
    PROVE  Owed'
<1>1. UNCHANGED <<kind, sock, thread, job>>
  BY DEF PeerProgress, AgentRung, AgentTakes, AgentReplies, AgentSeesClosed, AgentDies,
      AgentRungFails, wire, actor
<1>2. CASE peer' = "exited" BY <1>1, <1>2 DEF Owed
<1>3. CASE AgentRung
  <2>1. peer = "boot" /\ peer' \in {"boot", "serving"} /\ UNCHANGED <<toPeer, fromPeer>>
    BY <1>3 DEF AgentRung, wire
  <2> QED BY <1>1, <2>1 DEF Owed
<1>4. CASE AgentTakes
  <2>1. /\ peer = "serving" /\ toPeer # <<>> /\ peer' = "busy"
        /\ handling' = Head(toPeer) /\ fromPeer' = fromPeer
    BY <1>4 DEF AgentTakes
  <2>2. CASE thread = "sent"
    <3>1. toPeer = <<job>> BY <2>1, <2>2 DEF SigInv, Lockstep
    <3>2. handling' = job BY <2>1, <3>1
    <3> QED BY <1>1, <2>1, <2>2, <3>2 DEF Owed
  <2>3. CASE thread # "sent" BY <1>1, <2>1, <2>3 DEF Owed
  <2> QED BY <2>2, <2>3
<1>5. CASE AgentReplies
  <2>1. peer' = "serving" /\ \E r : fromPeer' = Append(fromPeer, r)
    BY <1>5 DEF AgentReplies
  <2>2. fromPeer' # <<>> BY <2>1 DEF SigInv, SigTyped
  <2> QED BY <1>1, <2>1, <2>2 DEF Owed
<1> QED
  BY <1>2, <1>3, <1>4, <1>5 DEF PeerProgress, AgentSeesClosed, AgentDies, AgentRungFails

LEMMA StepWInv == ASSUME IInv, WInv, [Next]_vars PROVE WInv'
<1>1. MainStep BY NextIsMain
<1>2. SigNext BY NextIsSig
<1>3. SigInv /\ Owed BY DEF IInv, WInv
<1>4. Owed'
  <2>1. CASE thread = "off" /\ thread' # "off"
    <3>1. phase = "seal" /\ setup.backend # "none" /\ Start
      BY <1>1, <2>1 DEF MainStep, Leave, DropBackend, ProcessEnds
    <3>2. kind # "none" /\ sock BY <3>1 DEF WInv, Backed
    <3> QED BY <1>3, <2>1, <3>1, <3>2, OwedMain
  <2>2. CASE ~(thread = "off" /\ thread' # "off")
    <3>1. ~(thread = "off" /\ Start) BY <2>2 DEF Start
    <3> QED BY <1>2, <1>3, <3>1, OwedMain, OwedThread, OwedPeer DEF SigNext
  <2> QED BY <2>1, <2>2
<1>5. Backed'
  BY <1>1 DEF MainStep, WInv, Backed, Leave
<1>6. JoinClosed'
  <2>1. CASE \E c : Leave(c)
    <3>1. phase' = "joining" => tx /\ tx' = FALSE /\ thread' = thread
      BY <2>1 DEF Leave, DropBackend
    <3> QED BY <1>3, <3>1 DEF SigInv, SigTyped, JoinClosed
  <2>2. CASE ~\E c : Leave(c)
    BY <1>1, <2>2 DEF MainStep, WInv, JoinClosed
  <2> QED BY <2>1, <2>2
<1>7. ExitClosed'
  BY <1>1 DEF MainStep, WInv, ExitClosed, Leave, ProcessEnds
<1> QED BY <1>4, <1>5, <1>6, <1>7 DEF WInv

\* Main thread, actor thread and far end never wait for each other in a circle: the
\* safety half of CallsEnd, AgentEnds and SignalEnds, for any number of calls and every
\* setup.
THEOREM NobodyWaitsInVain == Spec => []NoWaitCycle
<1>1. Init => WInv
  BY DEF Init, SigningInit, WInv, Owed, Backed, JoinClosed, ExitClosed
<1>2. IInv /\ WInv /\ [Next]_vars => WInv' BY StepWInv
<1>3. WInv => NoWaitCycle BY DEF WInv, Owed, JoinClosed, ExitClosed, NoWaitCycle
<1> QED BY <1>1, <1>2, <1>3, Invariance, PTL DEF Spec
=============================================================================
