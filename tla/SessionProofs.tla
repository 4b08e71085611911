--------------------------- MODULE SessionProofs ---------------------------
(***************************************************************************)
(* Agreement between the credential helper and the daemon, for any number  *)
(* of connections, helper runs, clients, keys and requests, and whatever   *)
(* the network does with what was sent.                                    *)
(*                                                                         *)
(* The argument is an account of where frames come from (FrameOK): whoever *)
(* a frame is attributed to is still in the state that produced it, since  *)
(* neither machine ever changes its handshake or its request once set      *)
(* (Stable).                                                               *)
(***************************************************************************)
EXTENDS Session, TLAPS

\* Where a frame on the network comes from.
FrameOK(m) ==
    \/ \E h \in Helpers : helper[h].at # "idle" /\ m = Msg1(h, helper[h].id)
    \/ \E s \in Conns : conn[s].hs # None /\ m = Msg2(conn[s].hs)
    \/ \E h \in Helpers : helper[h].hs # None /\ m = Req(helper[h].hs, helper[h].request)
    \/ \E s \in Conns : /\ conn[s].at \in {"Done", "closed"}
                        /\ conn[s].request # None
                        /\ m = Resp(conn[s].hs, conn[s].request)

FramesOK == \A m \in sent : FrameOK(m)

\* A connection's handshake is with a helper run that exists, and its key is the
\* one listed for its client or else a substitute.
ConnHs(s) ==
    conn[s].hs # None =>
        /\ conn[s].hs.re = s
        /\ conn[s].hs.e = conn[s].peer
        /\ conn[s].hs.id = conn[s].id
        /\ helper[conn[s].peer].at # "idle"
        /\ helper[conn[s].peer].id = conn[s].id
        /\ \/ name[s] = None /\ conn[s].hs.psk = Decoy
           \/ /\ name[s] = conn[s].id
              /\ conn[s].hs.psk \in Keys
              /\ <<name[s], conn[s].hs.psk>> \in listed[s]

\* What is set in which state.
ConnPhase(s) ==
    /\ conn[s].at \in {"idle", "WantHsLen"} => conn[s].hs = None /\ name[s] = None
    /\ conn[s].at \in {"WroteHsPending", "WantReqLen"} => conn[s].hs # None
    /\ conn[s].at \in {"idle", "WantHsLen", "WroteHsPending", "WantReqLen"} =>
           conn[s].request = None
    /\ Served(s) => conn[s].request # None

\* Until a connection's handshake, every pair that is authorised now is listed.
ConnListed(s) == conn[s].at = "WantHsLen" => AuthorisedPairs \subseteq listed[s]

\* A request that was let through is its helper's own.
ConnRequest(s) ==
    conn[s].request # None =>
        /\ conn[s].hs # None
        /\ name[s] # None
        /\ helper[conn[s].peer].hs = conn[s].hs
        /\ helper[conn[s].peer].request = conn[s].request

HelperOK(h) ==
    /\ helper[h].at = "idle" => helper[h].hs = None
    /\ helper[h].at # "idle" =>
           helper[h].id # None /\ helper[h].psk # None /\ helper[h].request # None
    /\ helper[h].at \in {"WroteHs1Pending", "WantHs2Len"} => helper[h].hs = None
    /\ helper[h].at \in {"WroteReqPending", "WantRespLen", "Done"} => helper[h].hs # None
    /\ helper[h].hs # None =>
           /\ helper[h].hs.e = h
           /\ helper[h].hs.psk = helper[h].psk
           /\ helper[h].hs.id = helper[h].id
           /\ conn[helper[h].hs.re].hs = helper[h].hs

IInv ==
    /\ TypeOK
    /\ FramesOK
    /\ \A s \in Conns : ConnHs(s) /\ ConnPhase(s) /\ ConnListed(s) /\ ConnRequest(s)
    /\ \A h \in Helpers : HelperOK(h)
    /\ AnswersAgree

-----------------------------------------------------------------------------
(* What the machines' methods amount to between two waits.                   *)

\* The states in which a Responder is between two methods of one step.
RAnyState == [at : RWaits \cup {"NeedPsk", "AwaitingPsk", "WriteHs", "HaveRequest",
                                "WriteResp", "Failed", "WrongState"},
              peer : Helpers \cup {None}, id : Clients \cup {None},
              hs : Handshakes \cup {None}, request : Requests \cup {None}]

\* Two records of responders that agree on every field but at.
SameButAt(r, st) ==
    r.peer = st.peer /\ r.id = st.id /\ r.hs = st.hs /\ r.request = st.request

LEMMA AfterMsg1 ==
    ASSUME NEW st \in Responders, st.at = "WantHsLen",
           NEW m, m.kind = "msg1", m.e \in Helpers, m.id \in Clients,
           NEW s \in Conns, NEW k \in Keys \cup {Decoy}
    PROVE  LET r == RStep(RSetPsk(s, RStep(RRecv(st, m)), k)) IN
           /\ RRecv(st, m).at = "NeedPsk" /\ RRecv(st, m).id = m.id
           /\ r \in Responders
           /\ r.at = "WroteHsPending" /\ r.peer = m.e /\ r.id = m.id
           /\ r.hs = [e |-> m.e, re |-> s, id |-> m.id, psk |-> k]
           /\ r.request = st.request
<1> DEFINE r1 == RRecv(st, m)
           r2 == RStep(r1)
           r3 == RSetPsk(s, r2, k)
           r4 == RStep(r3)
           hs == [e |-> m.e, re |-> s, id |-> m.id, psk |-> k]
<1>0. hs \in Handshakes
  BY DEF Handshakes
<1>1. /\ r1 \in RAnyState
      /\ r1.at = "NeedPsk" /\ r1.peer = m.e /\ r1.id = m.id /\ r1.request = st.request
  BY DEF RRecv, Responders, RAnyState, RWaits
<1>2. r2 = [r1 EXCEPT !.at = "AwaitingPsk"]
  BY <1>1 DEF RStep
<1> HIDE DEF r1
<1>3. /\ r2 \in RAnyState
      /\ r2.at = "AwaitingPsk" /\ r2.peer = m.e /\ r2.id = m.id /\ r2.request = st.request
  BY <1>1, <1>2 DEF RAnyState
<1> HIDE DEF r2
<1>4. r3 = [r2 EXCEPT !.at = "WriteHs", !.hs = hs]
  BY <1>3 DEF RSetPsk
<1> HIDE DEF hs
<1>5. /\ r3 \in RAnyState
      /\ r3.at = "WriteHs" /\ r3.peer = m.e /\ r3.id = m.id /\ r3.hs = hs
      /\ r3.request = st.request
  BY <1>0, <1>3, <1>4 DEF RAnyState
<1> HIDE DEF r3
<1>6. r4 = [r3 EXCEPT !.at = "WroteHsPending"]
  BY <1>5 DEF RStep
<1>7. /\ r4 \in Responders
      /\ r4.at = "WroteHsPending" /\ r4.peer = m.e /\ r4.id = m.id /\ r4.hs = hs
      /\ r4.request = st.request
  BY <1>5, <1>6 DEF RAnyState, Responders, RWaits
<1> QED BY <1>1, <1>7 DEF r1, r2, r3, hs

LEMMA NoMsg1 ==
    ASSUME NEW st \in Responders, st.at = "WantHsLen", NEW m, m.kind # "msg1"
    PROVE  RRecv(st, m).at = "Failed"
BY DEF RRecv, Responders

LEMMA AfterRequest ==
    ASSUME NEW st \in Responders, st.at = "WantReqLen", NEW m,
           m.kind = "req", m.hs = st.hs, m.body \in Requests
    PROVE  LET r == RStep(RRecv(st, m)) IN
           /\ RRecv(st, m).at # "Failed" /\ RRecv(st, m).request = m.body
           /\ r \in Responders
           /\ r.at = "AwaitingResponse" /\ r.request = m.body
           /\ r.peer = st.peer /\ r.id = st.id /\ r.hs = st.hs
<1> DEFINE r1 == RRecv(st, m)
<1>1. /\ r1 \in RAnyState
      /\ r1.at = "HaveRequest" /\ r1.request = m.body
      /\ r1.peer = st.peer /\ r1.id = st.id /\ r1.hs = st.hs
  BY DEF RRecv, Responders, RAnyState, RWaits
<1> HIDE DEF r1
<1>2. RStep(r1) = [r1 EXCEPT !.at = "AwaitingResponse"]
  BY <1>1 DEF RStep
<1>3. /\ RStep(r1) \in Responders
      /\ RStep(r1).at = "AwaitingResponse" /\ SameButAt(RStep(r1), r1)
  BY <1>1, <1>2 DEF RAnyState, Responders, RWaits, SameButAt
<1> QED BY <1>1, <1>3 DEF r1, SameButAt

LEMMA NoRequest ==
    ASSUME NEW st \in Responders, st.at = "WantReqLen", NEW m,
           ~(m.kind = "req" /\ m.hs = st.hs)
    PROVE  RRecv(st, m).at = "Failed"
BY DEF RRecv, Responders

LEMMA AfterWrote ==
    ASSUME NEW st \in Responders, st.at \in {"WroteHsPending", "WroteRespPending"}
    PROVE  LET r == RStep(RWrote(st)) IN
           /\ r \in Responders /\ SameButAt(r, st)
           /\ r.at = IF st.at = "WroteHsPending" THEN "WantReqLen" ELSE "Done"
<1> DEFINE r1 == RWrote(st)
<1>1. /\ r1 \in Responders /\ SameButAt(r1, st)
      /\ r1.at = IF st.at = "WroteHsPending" THEN "WantReqLen" ELSE "Done"
  BY DEF RWrote, Responders, RWaits, SameButAt
<1> HIDE DEF r1
<1>2. RStep(r1) = r1
  BY <1>1 DEF RStep
<1> QED BY <1>1, <1>2 DEF r1

LEMMA AfterMint ==
    ASSUME NEW st \in Responders, st.at = "AwaitingResponse"
    PROVE  LET r == RStep(RSetResponse(st)) IN
           r \in Responders /\ r.at = "WroteRespPending" /\ SameButAt(r, st)
<1> DEFINE r1 == RSetResponse(st)
<1>1. r1 \in RAnyState /\ r1.at = "WriteResp" /\ SameButAt(r1, st)
  BY DEF RSetResponse, Responders, RAnyState, SameButAt
<1> HIDE DEF r1
<1>2. RStep(r1) = [r1 EXCEPT !.at = "WroteRespPending"]
  BY <1>1 DEF RStep
<1>3. RStep(r1) \in Responders /\ RStep(r1).at = "WroteRespPending" /\ SameButAt(RStep(r1), r1)
  BY <1>1, <1>2 DEF Responders, RAnyState, RWaits, SameButAt
<1> QED BY <1>1, <1>3 DEF r1, SameButAt

LEMMA AfterAccept == RStep(RNew) = RNew /\ RNew \in Responders /\ RNew.at = "WantHsLen"
                     /\ RNew.hs = None /\ RNew.request = None
<1>1. /\ RNew \in Responders /\ RNew.at = "WantHsLen" /\ RNew.hs = None
      /\ RNew.request = None
  BY DEF RNew, RBlank, Responders, RWaits
<1> QED BY <1>1 DEF RStep

-----------------------------------------------------------------------------
IAnyState == [at : IWaits \cup {"WriteHs1", "WriteReq", "WrongState"},
              id : Clients \cup {None}, psk : Keys \cup {None},
              request : Requests \cup {None}, hs : Handshakes \cup {None},
              answer : Requests \cup {None}]

\* What a helper run was given.
SameTask(r, st) == r.id = st.id /\ r.psk = st.psk /\ r.request = st.request

LEMMA AfterRun ==
    ASSUME NEW c \in Clients, NEW k \in Keys, NEW q \in Requests
    PROVE  LET r == IStep(INew(c, k, q)) IN
           /\ r \in Initiators
           /\ r.at = "WroteHs1Pending" /\ r.id = c /\ r.psk = k /\ r.request = q
           /\ r.hs = None
<1> DEFINE r1 == INew(c, k, q)
<1>0. IBlank \in Initiators /\ IBlank.hs = None
  BY DEF IBlank, Initiators, IWaits
<1>1. /\ r1 \in IAnyState
      /\ r1.at = "WriteHs1" /\ r1.id = c /\ r1.psk = k /\ r1.request = q /\ r1.hs = None
  BY <1>0 DEF INew, Initiators, IAnyState
<1> HIDE DEF r1
<1>2. IStep(r1) = [r1 EXCEPT !.at = "WroteHs1Pending"]
  BY <1>1 DEF IStep
<1>3. /\ IStep(r1) \in Initiators
      /\ IStep(r1).at = "WroteHs1Pending" /\ SameTask(IStep(r1), r1) /\ IStep(r1).hs = r1.hs
  BY <1>1, <1>2 DEF Initiators, IAnyState, IWaits, SameTask
<1> QED BY <1>1, <1>3 DEF r1, SameTask

LEMMA AfterHelperWrote ==
    ASSUME NEW st \in Initiators, st.at \in {"WroteHs1Pending", "WroteReqPending"}
    PROVE  LET r == IStep(IWrote(st)) IN
           /\ r \in Initiators /\ SameTask(r, st) /\ r.hs = st.hs
           /\ r.at = IF st.at = "WroteHs1Pending" THEN "WantHs2Len" ELSE "WantRespLen"
<1> DEFINE r1 == IWrote(st)
<1>1. /\ r1 \in Initiators /\ SameTask(r1, st) /\ r1.hs = st.hs
      /\ r1.at = IF st.at = "WroteHs1Pending" THEN "WantHs2Len" ELSE "WantRespLen"
  BY DEF IWrote, Initiators, IWaits, SameTask
<1> HIDE DEF r1
<1>2. IStep(r1) = r1
  BY <1>1 DEF IStep
<1> QED BY <1>1, <1>2 DEF r1

\* What a helper makes of a frame: message 2, its answer, or a failure.
AfterRead(h, st, m) == LET r == IRecv(h, st, m) IN IF r.at = "Failed" THEN r ELSE IStep(r)

LEMMA HelperReadsMsg2 ==
    ASSUME NEW st \in Initiators, st.at = "WantHs2Len", NEW h, NEW m,
           m.kind = "msg2", m.hs.e = h, m.hs.psk = st.psk, m.hs \in Handshakes
    PROVE  LET r == AfterRead(h, st, m) IN
           /\ r \in Initiators /\ SameTask(r, st)
           /\ r.at = "WroteReqPending" /\ r.hs = m.hs
<1> DEFINE r1 == IRecv(h, st, m)
<1>1. r1 \in IAnyState /\ SameTask(r1, st) /\ r1.at = "WriteReq" /\ r1.hs = m.hs
  BY DEF IRecv, Initiators, IAnyState, IWaits, SameTask
<1> HIDE DEF r1
<1>2. IStep(r1) = [r1 EXCEPT !.at = "WroteReqPending"]
  BY <1>1 DEF IStep
<1>3. /\ IStep(r1) \in Initiators /\ SameTask(IStep(r1), r1)
      /\ IStep(r1).at = "WroteReqPending" /\ IStep(r1).hs = r1.hs
  BY <1>1, <1>2 DEF Initiators, IAnyState, IWaits, SameTask
<1>4. AfterRead(h, st, m) = IStep(r1)
  BY <1>1 DEF AfterRead, r1
<1> QED BY <1>1, <1>3, <1>4 DEF SameTask

LEMMA HelperReadsAnswer ==
    ASSUME NEW st \in Initiators, st.at = "WantRespLen", NEW h, NEW m,
           m.kind = "resp", m.hs = st.hs, m.body \in Requests
    PROVE  LET r == AfterRead(h, st, m) IN
           /\ r \in Initiators /\ SameTask(r, st)
           /\ r.at = "Done" /\ r.hs = st.hs /\ r.answer = m.body
<1> DEFINE r1 == IRecv(h, st, m)
<1>1. /\ r1 \in Initiators /\ SameTask(r1, st)
      /\ r1.at = "Done" /\ r1.hs = st.hs /\ r1.answer = m.body
  BY DEF IRecv, Initiators, IWaits, SameTask
<1> HIDE DEF r1
<1>2. IStep(r1) = r1
  BY <1>1 DEF IStep
<1>3. AfterRead(h, st, m) = r1
  BY <1>1, <1>2 DEF AfterRead, r1
<1> QED BY <1>1, <1>3

LEMMA HelperReadsNothing ==
    ASSUME NEW st \in Initiators, st.at \in {"WantHs2Len", "WantRespLen"}, NEW h, NEW m,
           ~(st.at = "WantHs2Len" /\ m.kind = "msg2" /\ m.hs.e = h /\ m.hs.psk = st.psk),
           ~(st.at = "WantRespLen" /\ m.kind = "resp" /\ m.hs = st.hs)
    PROVE  LET r == AfterRead(h, st, m) IN
           r \in Initiators /\ SameTask(r, st) /\ r.at = "Failed" /\ r.hs = st.hs
<1> DEFINE r1 == IRecv(h, st, m)
<1>1. r1 \in Initiators /\ SameTask(r1, st) /\ r1.at = "Failed" /\ r1.hs = st.hs
  BY DEF IRecv, Initiators, IWaits, SameTask
<1>2. AfterRead(h, st, m) = r1
  BY <1>1 DEF AfterRead
<1> QED BY <1>1, <1>2

-----------------------------------------------------------------------------
(* Neither machine changes its handshake, its request or its task once set.  *)

StableConn(s) ==
    /\ conn[s].hs # None =>
           conn'[s].hs = conn[s].hs /\ conn'[s].peer = conn[s].peer /\ conn'[s].id = conn[s].id
    /\ conn[s].request # None => conn'[s].request = conn[s].request
    /\ conn[s].at \in {"Done", "closed"} => conn'[s].at = conn[s].at
    /\ conn[s].at = "WroteRespPending" => conn'[s].at \in {"WroteRespPending", "Done", "closed"}

StableHelper(h) ==
    /\ helper[h].at # "idle" => helper'[h].at # "idle" /\ SameTask(helper'[h], helper[h])
    /\ helper[h].hs # None => helper'[h].hs = helper[h].hs
    /\ helper[h].at = "Done" => helper'[h] = helper[h]

Stable == (\A s \in Conns : StableConn(s)) /\ (\A h \in Helpers : StableHelper(h))

LEMMA OldFrames ==
    ASSUME IInv, Stable
    PROVE  \A m \in sent : FrameOK(m)'
<1> SUFFICES ASSUME NEW m \in sent PROVE FrameOK(m)'
  OBVIOUS
<1>1. FrameOK(m)
  BY DEF IInv, FramesOK
<1>2. CASE \E h \in Helpers : helper[h].at # "idle" /\ m = Msg1(h, helper[h].id)
  BY <1>2 DEF FrameOK, Stable, StableHelper, SameTask
<1>3. CASE \E s \in Conns : conn[s].hs # None /\ m = Msg2(conn[s].hs)
  BY <1>3 DEF FrameOK, Stable, StableConn
<1>4. CASE \E h \in Helpers : helper[h].hs # None /\ m = Req(helper[h].hs, helper[h].request)
  BY <1>4 DEF FrameOK, Stable, StableHelper, SameTask, IInv, HelperOK
<1>5. CASE \E s \in Conns : /\ conn[s].at \in {"Done", "closed"}
                            /\ conn[s].request # None
                            /\ m = Resp(conn[s].hs, conn[s].request)
  BY <1>5 DEF FrameOK, Stable, StableConn, IInv, ConnRequest
<1> QED BY <1>1, <1>2, <1>3, <1>4, <1>5 DEF FrameOK

LEMMA SameConn ==
    ASSUME IInv, Stable, NEW s \in Conns, SameButAt(conn'[s], conn[s]),
           name'[s] = name[s], listed[s] \subseteq listed'[s]
    PROVE  ConnHs(s)' /\ ConnRequest(s)'
<1>1. conn[s].hs # None => conn[s].hs \in Handshakes
  BY DEF IInv, TypeOK, Responders
<1>2. conn[s].hs # None => conn[s].peer \in Helpers
  BY <1>1 DEF IInv, ConnHs, Handshakes
<1>3. ConnHs(s)'
  BY <1>2 DEF IInv, Stable, StableHelper, SameTask, ConnHs, SameButAt
<1>4. ConnRequest(s)'
  <2>1. ConnHs(s) /\ ConnRequest(s)
    BY DEF IInv
  <2>2. ASSUME conn[s].request # None
        PROVE  /\ helper'[conn[s].peer].hs = helper[conn[s].peer].hs
               /\ helper'[conn[s].peer].request = helper[conn[s].peer].request
    BY <1>2, <2>1, <2>2 DEF Stable, StableHelper, SameTask, ConnHs, ConnRequest
  <2> QED BY <2>1, <2>2 DEF ConnRequest, SameButAt
<1> QED BY <1>3, <1>4

LEMMA SameHelper ==
    ASSUME IInv, Stable, NEW h \in Helpers, helper'[h] = helper[h]
    PROVE  HelperOK(h)'
<1>1. helper[h].hs # None => helper[h].hs \in Handshakes
  BY DEF IInv, TypeOK, Initiators
<1>2. helper[h].hs # None => helper[h].hs.re \in Conns
  BY <1>1 DEF Handshakes
<1>3. HelperOK(h)
  BY DEF IInv
<1>4. helper[h].hs # None =>
           conn[helper[h].hs.re].hs = helper[h].hs /\ conn'[helper[h].hs.re].hs = helper[h].hs
  BY <1>2, <1>3 DEF Stable, StableConn, HelperOK
<1> QED BY <1>3, <1>4 DEF HelperOK

\* The answers given so far stay right.
LEMMA OldAnswers ==
    ASSUME IInv, Stable, NEW h \in Helpers, helper[h].at = "Done"
    PROVE  /\ helper'[h] = helper[h]
           /\ helper[h].answer = helper[h].request
           /\ \E s \in Conns :
                /\ conn'[s].hs = helper[h].hs
                /\ conn'[s].request = helper[h].answer
                /\ conn'[s].at \in {"WroteRespPending", "Done", "closed"}
<1>1. helper'[h] = helper[h]
  BY DEF Stable, StableHelper
<1>2. helper[h].hs # None /\ helper[h].request # None
  BY DEF IInv, HelperOK
<1>3. helper[h].answer = helper[h].request
  BY DEF IInv, AnswersAgree
<1>4. PICK s \in Conns : /\ conn[s].hs = helper[h].hs
                         /\ conn[s].request = helper[h].answer
                         /\ conn[s].at \in {"WroteRespPending", "Done", "closed"}
  BY DEF IInv, AnswersAgree
<1>5. /\ conn'[s].hs = helper[h].hs
      /\ conn'[s].request = helper[h].answer
      /\ conn'[s].at \in {"WroteRespPending", "Done", "closed"}
  BY <1>2, <1>3, <1>4 DEF Stable, StableConn
<1> QED BY <1>1, <1>3, <1>5

\* A step after which the helpers are what they were.
LEMMA HelpersKept ==
    ASSUME IInv, Stable, UNCHANGED helper
    PROVE  (\A h \in Helpers : HelperOK(h)') /\ AnswersAgree'
<1>1. \A h \in Helpers : HelperOK(h)'
  BY SameHelper
<1>2. AnswersAgree'
  BY OldAnswers DEF AnswersAgree
<1> QED BY <1>1, <1>2

\* A step after which the connections are what they were.
LEMMA ConnsKept ==
    ASSUME IInv, Stable, UNCHANGED <<conn, name>>,
           \A s \in Conns : listed[s] \subseteq listed'[s]
    PROVE  \A s \in Conns : ConnHs(s)' /\ ConnPhase(s)' /\ ConnRequest(s)'
<1> SUFFICES ASSUME NEW s \in Conns PROVE ConnHs(s)' /\ ConnPhase(s)' /\ ConnRequest(s)'
  OBVIOUS
<1>1. ConnHs(s)' /\ ConnRequest(s)'
  BY SameConn DEF SameButAt
<1>2. ConnPhase(s)'
  BY DEF IInv, ConnPhase, Served
<1> QED BY <1>1, <1>2

\* A step of connection s that leaves the others, and the helpers, alone.
LEMMA ConnStep ==
    ASSUME IInv, TypeOK', UNCHANGED <<psks, clients, helper>>, NEW s \in Conns, StableConn(s),
           \A t \in Conns \ {s} : conn'[t] = conn[t] /\ name'[t] = name[t],
           \A t \in Conns \ {s} : listed'[t] = listed[t],
           Stable => ConnHs(s)' /\ ConnRequest(s)',
           ConnPhase(s)', ConnListed(s)',
           Stable => \A m \in sent' \ sent : FrameOK(m)'
    PROVE  IInv'
<1>1. Stable
  BY DEF Stable, StableConn, StableHelper, SameTask
<1>2. \A t \in Conns : ConnHs(t)' /\ ConnPhase(t)' /\ ConnListed(t)' /\ ConnRequest(t)'
  <2> TAKE t \in Conns
  <2>1. CASE t = s
    BY <1>1, <2>1
  <2>2. CASE t # s
    <3>1. conn'[t] = conn[t] /\ name'[t] = name[t] /\ listed'[t] = listed[t]
      BY <2>2
    <3>2. ConnHs(t)' /\ ConnRequest(t)'
      BY <1>1, <3>1, SameConn DEF SameButAt
    <3>3. ConnPhase(t)'
      BY <3>1 DEF IInv, ConnPhase, Served
    <3>4. ConnListed(t)'
      BY <3>1 DEF IInv, ConnListed, AuthorisedPairs
    <3> QED BY <3>2, <3>3, <3>4
  <2> QED BY <2>1, <2>2
<1>3. (\A h \in Helpers : HelperOK(h)') /\ AnswersAgree'
  BY <1>1, HelpersKept
<1>4. FramesOK'
  BY <1>1, OldFrames DEF FramesOK
<1> QED BY <1>2, <1>3, <1>4 DEF IInv

\* A step of helper run h that leaves the others, and the connections, alone.
LEMMA HelperStep ==
    ASSUME IInv, TypeOK', UNCHANGED <<psks, clients, conn, name, listed>>,
           NEW h \in Helpers, StableHelper(h),
           \A g \in Helpers \ {h} : helper'[g] = helper[g],
           Stable => HelperOK(h)',
           \/ helper'[h].at # "Done"
           \/ /\ helper'[h].answer = helper'[h].request
              /\ \E s \in Conns :
                   /\ conn[s].hs = helper'[h].hs
                   /\ conn[s].request = helper'[h].answer
                   /\ conn[s].at \in {"WroteRespPending", "Done", "closed"},
           Stable => \A m \in sent' \ sent : FrameOK(m)'
    PROVE  IInv'
<1>1. Stable
  BY DEF Stable, StableConn, StableHelper, SameTask
<1>2. \A g \in Helpers : HelperOK(g)'
  BY <1>1, SameHelper
<1>3. \A s \in Conns : ConnHs(s)' /\ ConnPhase(s)' /\ ConnRequest(s)'
  BY <1>1, ConnsKept
<1>4. AnswersAgree'
  <2> SUFFICES ASSUME NEW g \in Helpers, helper'[g].at = "Done"
               PROVE  /\ helper'[g].answer = helper'[g].request
                      /\ \E s \in Conns :
                           /\ conn'[s].hs = helper'[g].hs
                           /\ conn'[s].request = helper'[g].answer
                           /\ conn'[s].at \in {"WroteRespPending", "Done", "closed"}
    BY DEF AnswersAgree
  <2>1. CASE g = h
    BY <2>1
  <2>2. CASE g # h
    BY <1>1, <2>2, OldAnswers
  <2> QED BY <2>1, <2>2
<1>5. FramesOK'
  BY <1>1, OldFrames DEF FramesOK
<1>6. \A s \in Conns : ConnListed(s)'
  BY DEF IInv, ConnListed, AuthorisedPairs
<1> QED BY <1>2, <1>3, <1>4, <1>5, <1>6 DEF IInv

-----------------------------------------------------------------------------
(* Every step preserves the invariant.                                       *)

LEMMA InvInit == Init => IInv
<1> SUFFICES ASSUME Init PROVE IInv
  OBVIOUS
<1>1. /\ RBlank \in Responders /\ RBlank.at = "idle" /\ RBlank.hs = None
      /\ RBlank.request = None
  BY DEF RBlank, Responders, RWaits
<1>2. IBlank \in Initiators /\ IBlank.at = "idle" /\ IBlank.hs = None
  BY DEF IBlank, Initiators, IWaits
<1>3. TypeOK
  BY <1>1, <1>2 DEF Init, TypeOK
<1>4. FramesOK
  BY DEF Init, FramesOK
<1>5. \A s \in Conns : ConnHs(s) /\ ConnPhase(s) /\ ConnListed(s) /\ ConnRequest(s)
  BY <1>1 DEF Init, ConnHs, ConnPhase, ConnListed, ConnRequest, Served
<1>6. (\A h \in Helpers : HelperOK(h)) /\ AnswersAgree
  BY <1>2 DEF Init, HelperOK, AnswersAgree
<1> QED BY <1>3, <1>4, <1>5, <1>6 DEF IInv

LEMMA InvAccept ==
    ASSUME IInv, NEW s \in Conns, Accept(s)
    PROVE  IInv'
<1>1. /\ conn' = [conn EXCEPT ![s] = RNew] /\ RNew \in Responders
      /\ RNew.at = "WantHsLen" /\ RNew.hs = None /\ RNew.request = None
  BY AfterAccept DEF Accept
<1>2. conn[s].hs = None /\ conn[s].request = None /\ name[s] = None /\ conn[s].at = "idle"
  <2>1. ConnPhase(s) /\ conn[s].at = "idle"
    BY DEF IInv, Accept
  <2> QED BY <2>1 DEF ConnPhase
<1>3. conn \in [Conns -> Responders] /\ conn'[s] = RNew
  BY <1>1 DEF IInv, TypeOK
<1>4. /\ listed' = [listed EXCEPT ![s] = AuthorisedPairs] /\ UNCHANGED <<psks, clients>>
      /\ AuthorisedPairs' = AuthorisedPairs /\ AuthorisedPairs \in SUBSET Pairs
  BY DEF Accept, roster, AuthorisedPairs
<1>8. listed \in [Conns -> SUBSET Pairs]
  BY DEF IInv, TypeOK
<1>9. ConnListed(s)'
  BY <1>4, <1>8 DEF ConnListed
<1>10. TypeOK'
  BY <1>1, <1>4 DEF IInv, TypeOK, Accept
<1>5. StableConn(s)
  BY <1>2 DEF StableConn
<1>6. ConnHs(s)' /\ ConnRequest(s)' /\ ConnPhase(s)'
  BY <1>1, <1>2, <1>3 DEF ConnHs, ConnRequest, ConnPhase, Served, Accept
<1>7. /\ \A t \in Conns \ {s} : conn'[t] = conn[t] /\ name'[t] = name[t]
      /\ \A t \in Conns \ {s} : listed'[t] = listed[t]
      /\ sent' = sent /\ helper' = helper
  BY <1>1, <1>3, <1>4, <1>8 DEF Accept
<1> QED BY <1>4, <1>9, <1>10, <1>5, <1>6, <1>7, ConnStep

\* handle_connection returns.
LEMMA InvClose ==
    ASSUME IInv, NEW s \in Conns, conn[s].at \notin {"idle", "Done", "closed"}, Close(s),
           UNCHANGED <<roster, name, helper, listed>>,
           Stable => \A m \in sent' \ sent : FrameOK(m)'
    PROVE  IInv'
<1>1. conn \in [Conns -> Responders]
  BY DEF IInv, TypeOK
<1>2. /\ conn'[s] \in Responders /\ conn'[s].at = "closed" /\ SameButAt(conn'[s], conn[s])
      /\ conn' \in [Conns -> Responders]
      /\ \A t \in Conns \ {s} : conn'[t] = conn[t]
  BY <1>1 DEF Close, SameButAt, Responders, RWaits
<1>3. TypeOK'
  BY <1>2 DEF IInv, TypeOK, roster
<1>4. StableConn(s)
  BY <1>2 DEF StableConn, SameButAt
<1>5. Stable => ConnHs(s)' /\ ConnRequest(s)'
  BY <1>2, SameConn
<1>6. ConnPhase(s)' /\ ConnListed(s)'
  BY <1>2 DEF ConnPhase, ConnListed, Served
<1> QED BY <1>2, <1>3, <1>4, <1>5, <1>6, ConnStep DEF roster

\* What a frame of each kind tells.
LEMMA Msg1Frame ==
    ASSUME IInv, NEW m \in Arrivals, m.kind = "msg1"
    PROVE  /\ m.e \in Helpers /\ m.id \in Clients
           /\ helper[m.e].at # "idle" /\ helper[m.e].id = m.id
<1>1. PICK h \in Helpers : helper[h].at # "idle" /\ m = Msg1(h, helper[h].id)
  BY DEF IInv, FramesOK, FrameOK, Arrivals, Junk, Msg1, Msg2, Req, Resp
<1>2. m.e = h /\ m.id = helper[h].id
  BY <1>1 DEF Msg1
<1>3. helper[h].id # None /\ helper[h].id \in Clients \cup {None}
  BY <1>1 DEF IInv, HelperOK, TypeOK, Initiators
<1> QED BY <1>1, <1>2, <1>3

LEMMA Msg2Frame ==
    ASSUME IInv, NEW m \in Arrivals, m.kind = "msg2"
    PROVE  \E s \in Conns : conn[s].hs # None /\ m.hs = conn[s].hs
<1>1. PICK s \in Conns : conn[s].hs # None /\ m = Msg2(conn[s].hs)
  BY DEF IInv, FramesOK, FrameOK, Arrivals, Junk, Msg1, Msg2, Req, Resp
<1> QED BY <1>1 DEF Msg2

LEMMA RequestFrame ==
    ASSUME IInv, NEW m \in Arrivals, m.kind = "req"
    PROVE  \E h \in Helpers : /\ helper[h].hs # None
                              /\ m.hs = helper[h].hs /\ m.body = helper[h].request
<1>1. PICK h \in Helpers : helper[h].hs # None /\ m = Req(helper[h].hs, helper[h].request)
  BY DEF IInv, FramesOK, FrameOK, Arrivals, Junk, Msg1, Msg2, Req, Resp
<1> QED BY <1>1 DEF Req

LEMMA ResponseFrame ==
    ASSUME IInv, NEW m \in Arrivals, m.kind = "resp"
    PROVE  \E s \in Conns : /\ conn[s].at \in {"Done", "closed"} /\ conn[s].request # None
                            /\ m.hs = conn[s].hs /\ m.body = conn[s].request
<1>1. PICK s \in Conns : /\ conn[s].at \in {"Done", "closed"}
                         /\ conn[s].request # None
                         /\ m = Resp(conn[s].hs, conn[s].request)
  BY DEF IInv, FramesOK, FrameOK, Arrivals, Junk, Msg1, Msg2, Req, Resp
<1> QED BY <1>1 DEF Resp

LEMMA InvRecvMsg1 ==
    ASSUME IInv, NEW s \in Conns, RecvMsg1(s)
    PROVE  IInv'
<1> DEFINE Continues(m, k) ==
             conn' = [conn EXCEPT ![s] = RStep(RSetPsk(s, RStep(RRecv(conn[s], m)), k))]
<1>1. /\ conn \in [Conns -> Responders] /\ conn[s].at = "WantHsLen"
      /\ name \in [Conns -> Clients \cup {None}] /\ psks \in [Clients -> Keys \cup {None}]
      /\ UNCHANGED <<roster, helper, sent, listed>>
  BY DEF IInv, TypeOK, RecvMsg1
<1>2. conn[s].hs = None /\ conn[s].request = None /\ name[s] = None
  <2>1. ConnPhase(s)
    BY DEF IInv
  <2> QED BY <1>1, <2>1 DEF ConnPhase
<1>3. PICK m \in Arrivals :
        \/ RRecv(conn[s], m).at = "Failed" /\ Close(s) /\ UNCHANGED name
        \/ /\ RRecv(conn[s], m).at # "Failed" /\ Authorised(RRecv(conn[s], m).id)
           /\ name' = [name EXCEPT ![s] = RRecv(conn[s], m).id]
           /\ Continues(m, psks[RRecv(conn[s], m).id])
        \/ /\ RRecv(conn[s], m).at # "Failed" /\ ~Authorised(RRecv(conn[s], m).id)
           /\ (\E k \in Substitutes : Continues(m, k)) \/ Close(s)
           /\ UNCHANGED name
  BY DEF RecvMsg1
<1>4. CASE Close(s) /\ UNCHANGED name
  BY <1>1, <1>4, InvClose
<1>5. ASSUME NEW k \in Keys \cup {Decoy}, RRecv(conn[s], m).at # "Failed", Continues(m, k),
             \/ k = Decoy /\ UNCHANGED name
             \/ /\ k \in Keys /\ name' = [name EXCEPT ![s] = RRecv(conn[s], m).id]
                /\ <<RRecv(conn[s], m).id, k>> \in listed[s]
      PROVE  IInv'
  <2>1. m.kind = "msg1"
    BY <1>1, <1>5, NoMsg1
  <2>2. /\ m.e \in Helpers /\ m.id \in Clients
        /\ helper[m.e].at # "idle" /\ helper[m.e].id = m.id
    BY <2>1, Msg1Frame
  <2> DEFINE r == RStep(RSetPsk(s, RStep(RRecv(conn[s], m)), k))
             hs == [e |-> m.e, re |-> s, id |-> m.id, psk |-> k]
  <2>3. /\ RRecv(conn[s], m).id = m.id
        /\ r \in Responders
        /\ r.at = "WroteHsPending" /\ r.peer = m.e /\ r.id = m.id
        /\ r.hs = hs /\ r.request = None
    BY <1>1, <1>2, <2>1, <2>2, AfterMsg1
  <2>4. conn' = [conn EXCEPT ![s] = r]
    BY <1>5
  <2> HIDE DEF r
  <2>5. conn'[s] = r /\ \A t \in Conns \ {s} : conn'[t] = conn[t]
    BY <1>1, <2>4
  <2>6. name' \in [Conns -> Clients \cup {None}] /\ \A t \in Conns \ {s} : name'[t] = name[t]
    BY <1>1, <1>5, <2>2, <2>3
  <2>7. \/ k = Decoy /\ name'[s] = None
        \/ k \in Keys /\ name'[s] = m.id /\ <<m.id, k>> \in listed[s]
    BY <1>1, <1>2, <1>5, <2>3
  <2>8. TypeOK'
    BY <1>1, <2>3, <2>4, <2>6 DEF IInv, TypeOK, roster
  <2>9. StableConn(s)
    BY <1>1, <1>2 DEF StableConn
  <2>10. hs.e = m.e /\ hs.re = s /\ hs.id = m.id /\ hs.psk = k /\ hs # None
    <3>1. hs \in Handshakes
      BY <2>2 DEF Handshakes
    <3> QED BY <3>1, HandshakeAssumption
  <2>11. ConnHs(s)' /\ ConnRequest(s)'
    BY <1>1, <2>2, <2>3, <2>5, <2>7, <2>10 DEF ConnHs, ConnRequest
  <2>12. ConnPhase(s)' /\ ConnListed(s)'
    BY <2>3, <2>5, <2>10 DEF ConnPhase, ConnListed, Served
  <2> QED BY <1>1, <2>5, <2>6, <2>8, <2>9, <2>11, <2>12, ConnStep DEF roster
<1>6. CASE /\ RRecv(conn[s], m).at # "Failed" /\ Authorised(RRecv(conn[s], m).id)
           /\ name' = [name EXCEPT ![s] = RRecv(conn[s], m).id]
           /\ Continues(m, psks[RRecv(conn[s], m).id])
  <2>1. m.kind = "msg1"
    BY <1>1, <1>6, NoMsg1
  <2>2. m.id \in Clients
    BY <2>1, Msg1Frame
  <2>3. RRecv(conn[s], m).id = m.id
    BY <1>1, <2>1 DEF RRecv, Responders
  <2>4. psks[m.id] \in Keys /\ m.id \in clients
    BY <1>1, <1>6, <2>2, <2>3 DEF Authorised
  <2>5. <<m.id, psks[m.id]>> \in AuthorisedPairs
    BY <2>2, <2>4 DEF AuthorisedPairs, Pairs
  <2>6. <<m.id, psks[m.id]>> \in listed[s]
    BY <1>1, <2>5 DEF IInv, ConnListed
  <2> QED BY <1>5, <1>6, <2>3, <2>4, <2>6
<1>7. CASE /\ RRecv(conn[s], m).at # "Failed" /\ UNCHANGED name
           /\ \E k \in Substitutes : Continues(m, k)
  BY <1>5, <1>7 DEF Substitutes
<1> QED BY <1>3, <1>4, <1>6, <1>7

\* Message 2 and the response are its connection's own, once written.
LEMMA InvWrote ==
    ASSUME IInv, NEW s \in Conns, Wrote(s)
    PROVE  IInv'
<1> DEFINE r == RStep(RWrote(conn[s]))
<1>1. /\ conn \in [Conns -> Responders]
      /\ conn[s].at \in {"WroteHsPending", "WroteRespPending"}
      /\ conn' = [conn EXCEPT ![s] = r]
      /\ sent' = sent \cup {RFrame(conn[s])}
      /\ UNCHANGED <<psks, clients, name, helper, listed>>
  BY DEF IInv, TypeOK, Wrote, roster
<1>2. /\ r \in Responders /\ SameButAt(r, conn[s])
      /\ r.at = IF conn[s].at = "WroteHsPending" THEN "WantReqLen" ELSE "Done"
  BY <1>1, AfterWrote
<1> HIDE DEF r
<1>3. conn'[s] = r /\ \A t \in Conns \ {s} : conn'[t] = conn[t]
  BY <1>1
<1>4. ConnPhase(s)
  BY DEF IInv
<1>5. TypeOK'
  BY <1>1, <1>2 DEF IInv, TypeOK
<1>6. StableConn(s)
  BY <1>1, <1>2, <1>3 DEF StableConn, SameButAt
<1>7. Stable => ConnHs(s)' /\ ConnRequest(s)'
  BY <1>1, <1>2, <1>3, SameConn
<1>8. ConnPhase(s)' /\ ConnListed(s)'
  BY <1>1, <1>2, <1>3, <1>4 DEF ConnPhase, ConnListed, Served, SameButAt
<1>9. \A m \in sent' \ sent : FrameOK(m)'
  <2>1. CASE conn[s].at = "WroteHsPending"
    <3>1. conn'[s].hs # None /\ RFrame(conn[s]) = Msg2(conn'[s].hs)
      BY <1>2, <1>3, <1>4, <2>1 DEF ConnPhase, RFrame, SameButAt
    <3> QED BY <1>1, <3>1 DEF FrameOK
  <2>2. CASE conn[s].at = "WroteRespPending"
    <3>1. /\ conn'[s].at = "Done" /\ conn'[s].request # None
          /\ RFrame(conn[s]) = Resp(conn'[s].hs, conn'[s].request)
      BY <1>2, <1>3, <1>4, <2>2 DEF ConnPhase, RFrame, SameButAt, Served
    <3> QED BY <1>1, <3>1 DEF FrameOK
  <2> QED BY <1>1, <2>1, <2>2
<1> QED BY <1>1, <1>3, <1>5, <1>6, <1>7, <1>8, <1>9, ConnStep

\* A request that decrypts comes from the one helper run with this handshake.
LEMMA InvRecvRequest ==
    ASSUME IInv, NEW s \in Conns, RecvRequest(s)
    PROVE  IInv'
<1>1. /\ conn \in [Conns -> Responders] /\ conn[s].at = "WantReqLen"
      /\ UNCHANGED <<psks, clients, name, helper, sent, listed>>
  BY DEF IInv, TypeOK, RecvRequest, roster
<1>2. ConnHs(s) /\ ConnPhase(s) /\ conn[s].hs # None /\ conn[s].request = None
  <2>1. ConnHs(s) /\ ConnPhase(s)
    BY DEF IInv
  <2> QED BY <1>1, <2>1 DEF ConnPhase
<1>3. PICK m \in Arrivals :
        IF RRecv(conn[s], m).at = "Failed" \/ name[s] = None
              \/ RRecv(conn[s], m).request = Malformed
        THEN Close(s)
        ELSE conn' = [conn EXCEPT ![s] = RStep(RRecv(conn[s], m))]
  BY DEF RecvRequest
<1>4. CASE Close(s)
  BY <1>1, <1>4, InvClose DEF roster
<1>5. CASE /\ RRecv(conn[s], m).at # "Failed" /\ name[s] # None
           /\ conn' = [conn EXCEPT ![s] = RStep(RRecv(conn[s], m))]
  <2>1. m.kind = "req" /\ m.hs = conn[s].hs
    BY <1>1, <1>5, NoRequest
  <2>2. PICK h \in Helpers : /\ helper[h].hs # None
                             /\ m.hs = helper[h].hs /\ m.body = helper[h].request
    BY <2>1, RequestFrame
  <2>3. h = conn[s].peer
    <3>1. HelperOK(h)
      BY DEF IInv
    <3> QED BY <1>2, <2>1, <2>2, <3>1 DEF HelperOK, ConnHs
  <2>4. m.body \in Requests /\ m.body # None
    <3>1. HelperOK(h) /\ helper[h].request \in Requests \cup {None}
      BY DEF IInv, TypeOK, Initiators
    <3> QED BY <2>2, <3>1 DEF HelperOK
  <2> DEFINE r == RStep(RRecv(conn[s], m))
  <2>5. /\ r \in Responders
        /\ r.at = "AwaitingResponse" /\ r.request = m.body
        /\ r.peer = conn[s].peer /\ r.id = conn[s].id /\ r.hs = conn[s].hs
    BY <1>1, <2>1, <2>4, AfterRequest
  <2>6. conn' = [conn EXCEPT ![s] = r]
    BY <1>5
  <2> HIDE DEF r
  <2>7. conn'[s] = r /\ \A t \in Conns \ {s} : conn'[t] = conn[t]
    BY <1>1, <2>6
  <2>8. TypeOK'
    BY <1>1, <2>5, <2>6 DEF IInv, TypeOK
  <2>9. StableConn(s)
    BY <1>1, <1>2, <2>5, <2>7 DEF StableConn
  <2>10. ConnHs(s)'
    BY <1>1, <1>2, <2>5, <2>7 DEF ConnHs
  <2>11. ConnRequest(s)'
    BY <1>1, <1>2, <1>5, <2>1, <2>2, <2>3, <2>5, <2>7 DEF ConnRequest
  <2>12. ConnPhase(s)' /\ ConnListed(s)'
    BY <2>4, <2>5, <2>7 DEF ConnPhase, ConnListed, Served
  <2> QED BY <1>1, <2>7, <2>8, <2>9, <2>10, <2>11, <2>12, ConnStep
<1> QED BY <1>3, <1>4, <1>5

LEMMA InvMintReturns ==
    ASSUME IInv, NEW s \in Conns, MintReturns(s)
    PROVE  IInv'
<1> DEFINE r == RStep(RSetResponse(conn[s]))
<1>1. /\ conn \in [Conns -> Responders] /\ conn[s].at = "AwaitingResponse"
      /\ UNCHANGED <<psks, clients, name, helper, sent, listed>>
  BY DEF IInv, TypeOK, MintReturns, roster
<1>2. CASE Close(s)
  BY <1>1, <1>2, InvClose DEF roster
<1>3. CASE conn' = [conn EXCEPT ![s] = r]
  <2>1. r \in Responders /\ r.at = "WroteRespPending" /\ SameButAt(r, conn[s])
    BY <1>1, AfterMint
  <2> HIDE DEF r
  <2>2. conn'[s] = r /\ \A t \in Conns \ {s} : conn'[t] = conn[t]
    BY <1>1, <1>3
  <2>3. ConnPhase(s)
    BY DEF IInv
  <2>4. TypeOK'
    BY <1>1, <1>3, <2>1 DEF IInv, TypeOK
  <2>5. StableConn(s)
    BY <1>1, <2>1, <2>2 DEF StableConn, SameButAt
  <2>6. Stable => ConnHs(s)' /\ ConnRequest(s)'
    BY <1>1, <2>1, <2>2, SameConn
  <2>7. ConnPhase(s)' /\ ConnListed(s)'
    BY <1>1, <2>1, <2>2, <2>3 DEF ConnPhase, ConnListed, Served, SameButAt
  <2> QED BY <1>1, <2>2, <2>4, <2>5, <2>6, <2>7, ConnStep
<1> QED BY <1>2, <1>3 DEF MintReturns

LEMMA InvDrop ==
    ASSUME IInv, NEW s \in Conns, Drop(s)
    PROVE  IInv'
<1>1. /\ conn \in [Conns -> Responders] /\ conn[s].at \notin {"idle", "Done", "closed"}
      /\ Close(s) /\ UNCHANGED <<roster, name, helper, listed>>
      /\ ConnPhase(s)
  BY DEF IInv, TypeOK, Drop
<1>2. conn'[s].at = "closed" /\ SameButAt(conn'[s], conn[s])
  BY <1>1 DEF Close, SameButAt, Responders
<1>3. \A m \in sent' \ sent : FrameOK(m)'
  <2>1. CASE UNCHANGED sent
    BY <2>1
  <2>2. CASE conn[s].at = "WroteHsPending" /\ sent' = sent \cup {RFrame(conn[s])}
    <3>1. conn'[s].hs # None /\ RFrame(conn[s]) = Msg2(conn'[s].hs)
      BY <1>1, <1>2, <2>2 DEF ConnPhase, RFrame, SameButAt
    <3> QED BY <2>2, <3>1 DEF FrameOK
  <2>3. CASE conn[s].at = "WroteRespPending" /\ sent' = sent \cup {RFrame(conn[s])}
    <3>1. /\ conn'[s].at = "closed" /\ conn'[s].request # None
          /\ RFrame(conn[s]) = Resp(conn'[s].hs, conn'[s].request)
      BY <1>1, <1>2, <2>3 DEF ConnPhase, RFrame, SameButAt, Served
    <3> QED BY <2>3, <3>1 DEF FrameOK
  <2> QED BY <2>1, <2>2, <2>3 DEF Drop
<1> QED BY <1>1, <1>3, InvClose

LEMMA InvRun ==
    ASSUME IInv, NEW h \in Helpers, NEW c \in Clients, NEW k \in Keys, NEW q \in Requests,
           Run(h, c, k, q)
    PROVE  IInv'
<1> DEFINE r == IStep(INew(c, k, q))
<1>1. /\ helper \in [Helpers -> Initiators] /\ helper[h].at = "idle"
      /\ helper' = [helper EXCEPT ![h] = r]
      /\ UNCHANGED <<psks, clients, conn, name, sent, listed>>
  BY DEF IInv, TypeOK, Run, roster
<1>2. /\ r \in Initiators /\ r.at = "WroteHs1Pending"
      /\ r.id = c /\ r.psk = k /\ r.request = q /\ r.hs = None
  BY AfterRun
<1> HIDE DEF r
<1>3. helper'[h] = r /\ \A g \in Helpers \ {h} : helper'[g] = helper[g]
  BY <1>1
<1>4. c # None /\ k # None /\ q # None
  BY NoneAssumption DEF Requests
<1>5. HelperOK(h)
  BY DEF IInv
<1>6. TypeOK'
  BY <1>1, <1>2 DEF IInv, TypeOK
<1>7. StableHelper(h)
  BY <1>1, <1>5 DEF StableHelper, HelperOK
<1>8. HelperOK(h)'
  BY <1>2, <1>3, <1>4 DEF HelperOK
<1> QED BY <1>1, <1>2, <1>3, <1>6, <1>7, <1>8, HelperStep

\* A helper that gave its task and its handshake to the next state keeps its promises.
LEMMA HelperMoves ==
    ASSUME IInv, Stable, NEW h \in Helpers, helper[h].at # "idle",
           SameTask(helper'[h], helper[h]), helper'[h].hs = helper[h].hs,
           \/ /\ helper[h].at \in {"WroteHs1Pending", "WantHs2Len"}
              /\ helper'[h].at \in {"WroteHs1Pending", "WantHs2Len", "Failed"}
           \/ /\ helper[h].at \in {"WroteReqPending", "WantRespLen"}
              /\ helper'[h].at \in {"WroteReqPending", "WantRespLen", "Done", "Failed"}
    PROVE  HelperOK(h)'
<1>1. HelperOK(h)
  BY DEF IInv
<1>2. helper[h].hs # None => helper[h].hs.re \in Conns
  BY DEF IInv, TypeOK, Initiators, Handshakes
<1>3. helper[h].hs # None =>
           conn[helper[h].hs.re].hs = helper[h].hs /\ conn'[helper[h].hs.re].hs = helper[h].hs
  BY <1>1, <1>2 DEF Stable, StableConn, HelperOK
<1> QED BY <1>1, <1>3 DEF HelperOK, SameTask

\* The frame a helper is writing is its own, whether or not the write succeeds.
LEMMA HelperFrame ==
    ASSUME IInv, NEW h \in Helpers, helper[h].at \in {"WroteHs1Pending", "WroteReqPending"},
           StableHelper(h), NEW m, m = IFrame(h, helper[h])
    PROVE  FrameOK(m)'
<1>1. HelperOK(h)
  BY DEF IInv
<1>2. CASE helper[h].at = "WroteHs1Pending"
  <2>1. helper'[h].at # "idle" /\ m = Msg1(h, helper'[h].id)
    BY <1>2 DEF StableHelper, SameTask, IFrame
  <2> QED BY <2>1 DEF FrameOK
<1>3. CASE helper[h].at = "WroteReqPending"
  <2>1. /\ helper'[h].hs # None
        /\ m = Req(helper'[h].hs, helper'[h].request)
    BY <1>1, <1>3 DEF StableHelper, SameTask, HelperOK, IFrame
  <2> QED BY <2>1 DEF FrameOK
<1> QED BY <1>2, <1>3

LEMMA InvHelperWrote ==
    ASSUME IInv, NEW h \in Helpers, HelperWrote(h)
    PROVE  IInv'
<1> DEFINE r == IStep(IWrote(helper[h]))
<1>1. /\ helper \in [Helpers -> Initiators]
      /\ helper[h].at \in {"WroteHs1Pending", "WroteReqPending"}
      /\ helper' = [helper EXCEPT ![h] = r]
      /\ sent' = sent \cup {IFrame(h, helper[h])}
      /\ UNCHANGED <<psks, clients, conn, name, listed>>
  BY DEF IInv, TypeOK, HelperWrote, roster
<1>2. /\ r \in Initiators /\ SameTask(r, helper[h]) /\ r.hs = helper[h].hs
      /\ r.at = IF helper[h].at = "WroteHs1Pending" THEN "WantHs2Len" ELSE "WantRespLen"
  BY <1>1, AfterHelperWrote
<1> HIDE DEF r
<1>3. helper'[h] = r /\ \A g \in Helpers \ {h} : helper'[g] = helper[g]
  BY <1>1
<1>4. TypeOK'
  BY <1>1, <1>2 DEF IInv, TypeOK
<1>5. StableHelper(h)
  BY <1>1, <1>2, <1>3 DEF StableHelper
<1>6. Stable => HelperOK(h)'
  BY <1>1, <1>2, <1>3, HelperMoves
<1>7. \A m \in sent' \ sent : FrameOK(m)'
  BY <1>1, <1>5, HelperFrame
<1>8. helper'[h].at # "Done"
  BY <1>1, <1>2, <1>3
<1> QED BY <1>1, <1>3, <1>4, <1>5, <1>6, <1>7, <1>8, HelperStep

LEMMA InvHelperFails ==
    ASSUME IInv, NEW h \in Helpers, HelperFails(h)
    PROVE  IInv'
<1>1. /\ helper \in [Helpers -> Initiators] /\ helper[h].at \notin {"idle", "Done", "Failed"}
      /\ helper' = [helper EXCEPT ![h].at = "Failed"]
      /\ UNCHANGED <<psks, clients, conn, name, listed>>
  BY DEF IInv, TypeOK, HelperFails, roster
<1>2. /\ helper' \in [Helpers -> Initiators] /\ helper'[h].at = "Failed"
      /\ SameTask(helper'[h], helper[h]) /\ helper'[h].hs = helper[h].hs
      /\ \A g \in Helpers \ {h} : helper'[g] = helper[g]
  BY <1>1 DEF Initiators, IWaits, SameTask
<1>3. helper[h].at \in {"WroteHs1Pending", "WantHs2Len", "WroteReqPending", "WantRespLen"}
  BY <1>1 DEF Initiators, IWaits
<1>4. TypeOK'
  BY <1>1, <1>2 DEF IInv, TypeOK
<1>5. StableHelper(h)
  BY <1>1, <1>2 DEF StableHelper
<1>6. Stable => HelperOK(h)'
  BY <1>2, <1>3, HelperMoves
<1>7. \A m \in sent' \ sent : FrameOK(m)'
  <2>1. CASE UNCHANGED sent
    BY <2>1
  <2>2. CASE /\ helper[h].at \in {"WroteHs1Pending", "WroteReqPending"}
             /\ sent' = sent \cup {IFrame(h, helper[h])}
    BY <1>5, <2>2, HelperFrame
  <2> QED BY <2>1, <2>2 DEF HelperFails
<1>8. helper'[h].at # "Done"
  BY <1>2
<1> QED BY <1>1, <1>2, <1>4, <1>5, <1>6, <1>7, <1>8, HelperStep

\* Message 2 fixes a helper's handshake, and a response that decrypts is the answer
\* of the connection with that handshake.
LEMMA InvHelperReads ==
    ASSUME IInv, NEW h \in Helpers, HelperReads(h)
    PROVE  IInv'
<1>1. /\ helper \in [Helpers -> Initiators]
      /\ helper[h].at \in {"WantHs2Len", "WantRespLen"}
      /\ UNCHANGED <<psks, clients, conn, name, sent, listed>>
  BY DEF IInv, TypeOK, HelperReads, roster
<1>2. PICK m \in Arrivals : helper' = [helper EXCEPT ![h] = AfterRead(h, helper[h], m)]
  BY DEF HelperReads, AfterRead
<1> DEFINE r == AfterRead(h, helper[h], m)
<1> HIDE DEF r
<1>3. helper'[h] = r /\ \A g \in Helpers \ {h} : helper'[g] = helper[g]
  BY <1>1, <1>2 DEF r
<1>4. HelperOK(h)
  BY DEF IInv
<1>5. ASSUME r \in Initiators PROVE TypeOK'
  BY <1>1, <1>2, <1>5 DEF IInv, TypeOK, r
<1>6. CASE /\ helper[h].at = "WantHs2Len" /\ m.kind = "msg2"
           /\ m.hs.e = h /\ m.hs.psk = helper[h].psk
  <2>1. PICK s \in Conns : conn[s].hs # None /\ m.hs = conn[s].hs
    BY <1>6, Msg2Frame
  <2>2. ConnHs(s) /\ conn[s].hs \in Handshakes
    BY <2>1 DEF IInv, TypeOK, Responders
  <2>3. m.hs.re = s /\ m.hs.id = helper[h].id
    BY <1>6, <2>1, <2>2 DEF ConnHs
  <2>4. /\ r \in Initiators /\ SameTask(r, helper[h])
        /\ r.at = "WroteReqPending" /\ r.hs = m.hs
    BY <1>1, <1>6, <2>1, <2>2, HelperReadsMsg2 DEF r
  <2>5. StableHelper(h)
    BY <1>3, <1>4, <1>6, <2>4 DEF StableHelper, HelperOK
  <2>6. HelperOK(h)'
    BY <1>1, <1>3, <1>4, <1>6, <2>1, <2>3, <2>4 DEF HelperOK, SameTask
  <2> QED BY <1>1, <1>3, <1>5, <2>4, <2>5, <2>6, HelperStep
<1>7. CASE helper[h].at = "WantRespLen" /\ m.kind = "resp" /\ m.hs = helper[h].hs
  <2>1. PICK s \in Conns : /\ conn[s].at \in {"Done", "closed"} /\ conn[s].request # None
                           /\ m.hs = conn[s].hs /\ m.body = conn[s].request
    BY <1>7, ResponseFrame
  <2>2. /\ ConnHs(s) /\ ConnRequest(s) /\ conn[s].hs \in Handshakes \cup {None}
        /\ conn[s].request \in Requests \cup {None}
    BY DEF IInv, TypeOK, Responders
  <2>3. conn[s].hs # None /\ conn[s].peer = h
    BY <1>4, <1>7, <2>1, <2>2 DEF HelperOK, ConnHs, ConnRequest
  <2>4. m.body \in Requests /\ m.body = helper[h].request
    BY <2>1, <2>2, <2>3 DEF ConnRequest
  <2>5. /\ r \in Initiators /\ SameTask(r, helper[h])
        /\ r.at = "Done" /\ r.hs = helper[h].hs /\ r.answer = m.body
    BY <1>1, <1>7, <2>4, HelperReadsAnswer DEF r
  <2>6. StableHelper(h)
    BY <1>3, <1>7, <2>5 DEF StableHelper
  <2>7. Stable => HelperOK(h)'
    BY <1>3, <1>7, <2>5, HelperMoves
  <2>8. /\ helper'[h].answer = helper'[h].request
        /\ conn[s].hs = helper'[h].hs /\ conn[s].request = helper'[h].answer
    BY <1>3, <1>7, <2>1, <2>4, <2>5 DEF SameTask
  <2> QED BY <1>1, <1>3, <1>5, <2>1, <2>5, <2>6, <2>7, <2>8, HelperStep
<1>8. CASE /\ ~(/\ helper[h].at = "WantHs2Len" /\ m.kind = "msg2"
                /\ m.hs.e = h /\ m.hs.psk = helper[h].psk)
           /\ ~(helper[h].at = "WantRespLen" /\ m.kind = "resp" /\ m.hs = helper[h].hs)
  <2>1. /\ r \in Initiators /\ SameTask(r, helper[h])
        /\ r.at = "Failed" /\ r.hs = helper[h].hs
    BY <1>1, <1>8, HelperReadsNothing DEF r
  <2>2. StableHelper(h)
    BY <1>1, <1>3, <2>1 DEF StableHelper
  <2>3. Stable => HelperOK(h)'
    BY <1>1, <1>3, <2>1, HelperMoves
  <2> QED BY <1>1, <1>3, <1>5, <2>1, <2>2, <2>3, HelperStep
<1> QED BY <1>6, <1>7, <1>8

\* A step of the roster: connections and helpers are what they were.
LEMMA RosterStep ==
    ASSUME IInv, TypeOK', UNCHANGED <<conn, name, helper, sent>>,
           \A s \in Conns : listed[s] \subseteq listed'[s],
           \A s \in Conns : ConnListed(s)'
    PROVE  IInv'
<1>1. Stable
  BY DEF Stable, StableConn, StableHelper, SameTask
<1>2. \A s \in Conns : ConnHs(s)' /\ ConnPhase(s)' /\ ConnRequest(s)'
  BY <1>1, ConnsKept
<1>3. (\A h \in Helpers : HelperOK(h)') /\ AnswersAgree'
  BY <1>1, HelpersKept
<1>4. FramesOK'
  BY <1>1, OldFrames DEF FramesOK
<1> QED BY <1>2, <1>3, <1>4 DEF IInv

LEMMA InvEnroll ==
    ASSUME IInv, NEW c \in Clients, NEW k \in Keys, Enroll(c, k)
    PROVE  IInv'
<1>1. /\ psks \in [Clients -> Keys \cup {None}] /\ clients \in SUBSET Clients
      /\ listed \in [Conns -> SUBSET Pairs]
  BY DEF IInv, TypeOK
<1>2. /\ psks' = [psks EXCEPT ![c] = k] /\ clients' = clients \cup {c}
      /\ UNCHANGED <<conn, name, helper, sent>>
  BY DEF Enroll, Shared!Enroll
<1>3. /\ \A s \in Conns : listed[s] \subseteq listed'[s]
      /\ \A s \in Conns : conn[s].at = "WantHsLen" => <<c, k>> \in listed'[s]
      /\ listed' \in [Conns -> SUBSET Pairs]
  BY <1>1 DEF Enroll, Pairs
<1>4. AuthorisedPairs' \subseteq AuthorisedPairs \cup {<<c, k>>}
  BY <1>1, <1>2 DEF AuthorisedPairs, Pairs
<1>5. TypeOK'
  BY <1>1, <1>2, <1>3 DEF IInv, TypeOK
<1>6. \A s \in Conns : ConnListed(s)'
  BY <1>2, <1>3, <1>4 DEF IInv, ConnListed
<1> QED BY <1>2, <1>3, <1>5, <1>6, RosterStep

LEMMA InvRemove ==
    ASSUME IInv, NEW c \in Clients, RemoveKey(c) \/ RemoveClient(c)
    PROVE  IInv'
<1>1. psks \in [Clients -> Keys \cup {None}] /\ clients \in SUBSET Clients
  BY DEF IInv, TypeOK
<1>2. /\ psks' = [psks EXCEPT ![c] = None] /\ clients' \subseteq clients
      /\ UNCHANGED <<conn, name, helper, sent, listed>>
  BY DEF RemoveKey, RemoveClient, Shared!RemoveKey, Shared!RemoveClient
<1>3. AuthorisedPairs' \subseteq AuthorisedPairs
  BY <1>1, <1>2, NoneAssumption DEF AuthorisedPairs, Pairs
<1>4. TypeOK'
  BY <1>1, <1>2 DEF IInv, TypeOK
<1>5. \A s \in Conns : ConnListed(s)'
  BY <1>2, <1>3 DEF IInv, ConnListed
<1> QED BY <1>2, <1>4, <1>5, RosterStep

LEMMA InvNext == IInv /\ [Next]_vars => IInv'
<1> SUFFICES ASSUME IInv, [Next]_vars PROVE IInv'
  OBVIOUS
<1>1. CASE UNCHANGED vars
  <2>1. TypeOK' /\ UNCHANGED <<conn, name, helper, sent, listed>>
    BY <1>1 DEF vars, roster, IInv, TypeOK
  <2>2. \A s \in Conns : ConnListed(s)'
    BY <1>1 DEF vars, roster, IInv, ConnListed, AuthorisedPairs
  <2> QED BY <2>1, <2>2, RosterStep
<1>2. ASSUME NEW s \in Conns,
             \/ Accept(s) \/ RecvMsg1(s) \/ Wrote(s) \/ RecvRequest(s)
             \/ MintReturns(s) \/ Drop(s)
      PROVE  IInv'
  BY <1>2, InvAccept, InvRecvMsg1, InvWrote, InvRecvRequest, InvMintReturns, InvDrop
<1>3. ASSUME NEW h \in Helpers,
             \/ \E c \in Clients, k \in Keys, q \in Requests : Run(h, c, k, q)
             \/ HelperWrote(h) \/ HelperReads(h) \/ HelperFails(h)
      PROVE  IInv'
  BY <1>3, InvRun, InvHelperWrote, InvHelperReads, InvHelperFails
<1>4. ASSUME NEW c \in Clients,
             (\E k \in Keys : Enroll(c, k)) \/ RemoveKey(c) \/ RemoveClient(c)
      PROVE  IInv'
  BY <1>4, InvEnroll, InvRemove
<1> QED BY <1>1, <1>2, <1>3, <1>4 DEF Next

LEMMA Invariant == Spec => []IInv
BY InvInit, InvNext, PTL DEF Spec

-----------------------------------------------------------------------------
\* The machines only ever rest where their drivers wait: handle_connection and drive
\* call no method in a state that answers WrongState, whatever arrives.
THEOREM SessionTypeCorrect == Spec => []TypeOK
<1>1. IInv => TypeOK
  BY DEF IInv
<1> QED BY <1>1, Invariant, PTL

\* provider.mint is only ever called for a helper run that holds the key, on this
\* connection, and for what that run asked for, and never twice for one run.
THEOREM MintsOnlyForItsHelper == Spec => []MintsAgree
<1>1. IInv => MintsAgree
  <2> SUFFICES ASSUME IInv, NEW s \in Conns, Served(s), NEW h, h = conn[s].peer
               PROVE  /\ name[s] = helper[h].id
                      /\ helper[h].hs = conn[s].hs
                      /\ helper[h].hs = [e |-> h, re |-> s, id |-> helper[h].id,
                                         psk |-> helper[h].psk]
                      /\ helper[h].request = conn[s].request
                      /\ \A t \in Conns :
                            conn[t].request # None /\ conn[t].peer = h => t = s
    BY DEF MintsAgree
  <2>1. ConnHs(s) /\ ConnPhase(s) /\ ConnRequest(s) /\ conn[s].hs \in Handshakes \cup {None}
    BY DEF IInv, TypeOK, Responders
  <2>2. /\ conn[s].hs # None /\ name[s] # None
        /\ helper[h].hs = conn[s].hs /\ helper[h].request = conn[s].request
    BY <2>1 DEF ConnPhase, ConnRequest
  <2>3. h \in Helpers
    BY <2>1, <2>2 DEF ConnHs, Handshakes
  <2>4. HelperOK(h)
    BY <2>3 DEF IInv
  <2>5. name[s] = helper[h].id
    BY <2>1, <2>2 DEF ConnHs
  <2>6. /\ helper[h].hs \in Handshakes
        /\ helper[h].hs.e = h /\ helper[h].hs.re = s
        /\ helper[h].hs.id = helper[h].id /\ helper[h].hs.psk = helper[h].psk
    BY <2>1, <2>2, <2>4 DEF ConnHs, HelperOK
  <2>7. helper[h].hs = [e |-> h, re |-> s, id |-> helper[h].id, psk |-> helper[h].psk]
    BY <2>6 DEF Handshakes
  <2>8. ASSUME NEW t \in Conns, conn[t].request # None, conn[t].peer = h
        PROVE  t = s
    <3>1. ConnHs(t) /\ ConnRequest(t)
      BY DEF IInv
    <3>2. conn[t].hs # None /\ conn[t].hs = helper[h].hs /\ conn[t].hs.re = t
      BY <2>8, <3>1 DEF ConnHs, ConnRequest
    <3> QED BY <2>6, <3>2
  <2> QED BY <2>2, <2>5, <2>7, <2>8
<1> QED BY <1>1, Invariant, PTL

\* The token a helper prints was minted for that helper run's own request.
THEOREM AnswersAreOwn == Spec => []AnswersAgree
<1>1. IInv => AnswersAgree
  BY DEF IInv
<1> QED BY <1>1, Invariant, PTL

\* Nothing decrypts as a request in a session with a substitute key, so the check of
\* client_name at Step::Request never fires.
THEOREM SubstituteNeverOpens == Spec => []DecoyUndecryptable
<1>1. IInv => DecoyUndecryptable
  <2> SUFFICES ASSUME IInv, NEW s \in Conns, conn[s].at = "WantReqLen", name[s] = None,
                      NEW m \in Arrivals
               PROVE  RRecv(conn[s], m).at = "Failed"
    BY DEF DecoyUndecryptable
  <2>1. ConnHs(s) /\ ConnPhase(s) /\ conn[s] \in Responders
    BY DEF IInv, TypeOK
  <2>2. conn[s].hs # None /\ conn[s].hs \in Handshakes
    BY <2>1 DEF ConnPhase, Responders
  <2>3. conn[s].hs.psk = Decoy
    <3>1. conn[s].hs.id # None
      BY <2>2, NoneAssumption DEF Handshakes
    <3> QED BY <2>1, <2>2, <3>1 DEF ConnHs
  <2>4. ASSUME m.kind = "req", m.hs = conn[s].hs PROVE FALSE
    <3>1. PICK h \in Helpers : helper[h].hs # None /\ m.hs = helper[h].hs
      BY <2>4, RequestFrame
    <3>2. HelperOK(h) /\ helper[h].psk \in Keys \cup {None}
      BY DEF IInv, TypeOK, Initiators
    <3>3. helper[h].psk = Decoy
      BY <2>3, <2>4, <3>1, <3>2 DEF HelperOK
    <3> QED BY <3>2, <3>3, DecoyAssumption, NoneAssumption
  <2> QED BY <2>1, <2>4, NoRequest
<1> QED BY <1>1, Invariant, PTL

\* A mint rests on a pair that was in both tables at one moment between the
\* connection's accept and its handshake.
THEOREM MintsOnlyWhileListed == Spec => []MintsListed
<1>1. IInv => MintsListed
  <2> SUFFICES ASSUME IInv, NEW s \in Conns, Served(s)
               PROVE  <<name[s], conn[s].hs.psk>> \in listed[s]
    BY DEF MintsListed
  <2>1. ConnHs(s) /\ ConnPhase(s) /\ ConnRequest(s)
    BY DEF IInv
  <2> QED BY <2>1 DEF ConnHs, ConnPhase, ConnRequest
<1> QED BY <1>1, Invariant, PTL
=============================================================================
