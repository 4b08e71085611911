------------------------------ MODULE Session ------------------------------
(***************************************************************************)
(* The wire protocol: transport.rs's Responder driven by the daemon's      *)
(* handle_connection, its Initiator driven by git-credential-symbolon, and *)
(* the roster that handle_connection reads.                                *)
(*                                                                         *)
(* The machines' methods are operators from state to state, and an action  *)
(* is everything a driver does from one wait to the next.  A frame's       *)
(* length and its body are read by one action: the first read has no       *)
(* effect that anybody else could see.                                     *)
(*                                                                         *)
(* Cryptography is symbolic.  A handshake is identified by what Noise      *)
(* mixes into it, and a frame can be read exactly by who has reached the   *)
(* same handshake.  The network delivers anything that was ever sent, to   *)
(* anybody, any number of times, and noise as well.                        *)
(***************************************************************************)
EXTENDS FiniteSets

CONSTANTS Clients,    \* identities
          Keys,       \* pre-shared keys
          Decoy,      \* Psk::random(): a key that nobody else has
          Conns,      \* connections the daemon accepts
          Helpers,    \* runs of the credential helper
          Paths,      \* well-formed requests, by the repository they name
          Malformed,  \* requests over the cap, unparsable or for an unknown host
          None        \* no value

ASSUME DecoyAssumption == Decoy \notin Keys
ASSUME NoneAssumption ==
    /\ None \notin Clients /\ None \notin Keys /\ None # Decoy
    /\ None \notin Conns /\ None \notin Paths /\ None # Malformed

VARIABLES
    psks, clients,  \* SharedState's two tables
    conn,           \* the Responder of each connection
    name,           \* handle_connection's client_name
    helper,         \* the Initiator of each helper run
    sent,           \* every frame ever written to a stream
    \* history, read by properties only
    listed          \* the <<client, key>> pairs that were authorised at some moment
                    \* between a connection's accept and its handshake

roster == <<psks, clients>>
vars == <<roster, conn, name, helper, sent, listed>>

-----------------------------------------------------------------------------
Requests == Paths \cup {Malformed}
Pairs == Clients \X Keys
AuthorisedPairs == {p \in Pairs : p[1] \in clients /\ psks[p[1]] = p[2]}

\* A Noise handshake: the two ephemerals, named after their owners, the identity
\* in message 1 and the key mixed into message 2.
Handshakes == [e : Helpers, re : Conns, id : Clients, psk : Keys \cup {Decoy}]

ASSUME HandshakeAssumption == None \notin Handshakes

Msg1(h, c) == [kind |-> "msg1", e |-> h, id |-> c]
Msg2(hs) == [kind |-> "msg2", hs |-> hs]
Req(hs, q) == [kind |-> "req", hs |-> hs, body |-> q]
Resp(hs, q) == [kind |-> "resp", hs |-> hs, body |-> q]      \* a token for q

\* Bytes that are no frame of this protocol, or do not decrypt, or whose identity
\* TLV parse_identity_tlv rejects.
Junk == [kind |-> "junk"]
Arrivals == sent \cup {Junk}

-----------------------------------------------------------------------------
(* Responder: its state, the peer and identity message 1 revealed, the       *)
(* handshake once its key is set, and the request.  A method that fails      *)
(* leaves Failed; one called in a state it does not expect says WrongState.  *)

\* Where handle_connection can leave it at an await, or after it returned.
RWaits == {"idle", "WantHsLen", "WroteHsPending", "WantReqLen", "AwaitingResponse",
           "WroteRespPending", "Done", "closed"}
Responders == [at : RWaits, peer : Helpers \cup {None}, id : Clients \cup {None},
               hs : Handshakes \cup {None}, request : Requests \cup {None}]

RBlank == [at |-> "idle", peer |-> None, id |-> None, hs |-> None, request |-> None]
RNew == [RBlank EXCEPT !.at = "WantHsLen"]

RStep(st) ==
    CASE st.at = "NeedPsk"     -> [st EXCEPT !.at = "AwaitingPsk"]
      [] st.at = "WriteHs"     -> [st EXCEPT !.at = "WroteHsPending"]
      [] st.at = "HaveRequest" -> [st EXCEPT !.at = "AwaitingResponse"]
      [] st.at = "WriteResp"   -> [st EXCEPT !.at = "WroteRespPending"]
      [] st.at \in {"WantHsLen", "WantReqLen", "Done"} -> st
      [] OTHER                 -> [st EXCEPT !.at = "WrongState"]

\* Faulty variant: the request's key does not depend on the responder's ephemeral.
RRecvUnbound(st, m) ==
    CASE st.at = "WantHsLen" ->
            IF m.kind = "msg1"
            THEN [st EXCEPT !.at = "NeedPsk", !.peer = m.e, !.id = m.id]
            ELSE [st EXCEPT !.at = "Failed"]
      [] st.at = "WantReqLen" ->
            IF m.kind = "req" /\ m.hs.e = st.hs.e /\ m.hs.psk = st.hs.psk
            THEN [st EXCEPT !.at = "HaveRequest", !.request = m.body]
            ELSE [st EXCEPT !.at = "Failed"]
      [] OTHER -> [st EXCEPT !.at = "WrongState"]

\* recv of a length and then of the body.
RRecv(st, m) ==
    CASE st.at = "WantHsLen" ->
            IF m.kind = "msg1"
            THEN [st EXCEPT !.at = "NeedPsk", !.peer = m.e, !.id = m.id]
            ELSE [st EXCEPT !.at = "Failed"]
      [] st.at = "WantReqLen" ->
            IF m.kind = "req" /\ m.hs = st.hs
            THEN [st EXCEPT !.at = "HaveRequest", !.request = m.body]
            ELSE [st EXCEPT !.at = "Failed"]
      [] OTHER -> [st EXCEPT !.at = "WrongState"]

\* On connection s, whose ephemeral is drawn here.
RSetPsk(s, st, k) ==
    IF st.at = "AwaitingPsk"
    THEN [st EXCEPT !.at = "WriteHs",
                    !.hs = [e |-> st.peer, re |-> s, id |-> st.id, psk |-> k]]
    ELSE [st EXCEPT !.at = "WrongState"]

\* Faulty variant: the second write is not acknowledged.
RWroteOnce(st) ==
    CASE st.at = "WroteHsPending"   -> [st EXCEPT !.at = "WantReqLen"]
      [] st.at = "WroteRespPending" -> st
      [] OTHER                      -> [st EXCEPT !.at = "WrongState"]

RWrote(st) ==
    CASE st.at = "WroteHsPending"   -> [st EXCEPT !.at = "WantReqLen"]
      [] st.at = "WroteRespPending" -> [st EXCEPT !.at = "Done"]
      [] OTHER                      -> [st EXCEPT !.at = "WrongState"]

RSetResponse(st) ==
    [st EXCEPT !.at = IF st.at = "AwaitingResponse" THEN "WriteResp" ELSE "WrongState"]

\* The frame that the last Step::Write gave to the driver.
RFrame(st) ==
    IF st.at = "WroteHsPending" THEN Msg2(st.hs) ELSE Resp(st.hs, st.request)

-----------------------------------------------------------------------------
(* Initiator: its state, what Initiator::new was given, the handshake once   *)
(* message 2 is read, and the answer.                                        *)

IWaits == {"idle", "WroteHs1Pending", "WantHs2Len", "WroteReqPending", "WantRespLen",
           "Done", "Failed"}
Initiators == [at : IWaits, id : Clients \cup {None}, psk : Keys \cup {None},
               request : Requests \cup {None}, hs : Handshakes \cup {None},
               answer : Requests \cup {None}]

IBlank == [at |-> "idle", id |-> None, psk |-> None, request |-> None,
           hs |-> None, answer |-> None]

INew(c, k, q) ==
    [IBlank EXCEPT !.at = "WriteHs1", !.id = c, !.psk = k, !.request = q]

IStep(st) ==
    CASE st.at = "WriteHs1" -> [st EXCEPT !.at = "WroteHs1Pending"]
      [] st.at = "WriteReq" -> [st EXCEPT !.at = "WroteReqPending"]
      [] st.at \in {"WantHs2Len", "WantRespLen", "Done"} -> st
      [] OTHER              -> [st EXCEPT !.at = "WrongState"]

\* Faulty variant: a response is taken without being authenticated.
IRecvUnauthenticated(h, st, m) ==
    CASE st.at = "WantHs2Len" ->
            IF m.kind = "msg2" /\ m.hs.e = h /\ m.hs.psk = st.psk
            THEN [st EXCEPT !.at = "WriteReq", !.hs = m.hs]
            ELSE [st EXCEPT !.at = "Failed"]
      [] st.at = "WantRespLen" ->
            IF m.kind = "resp"
            THEN [st EXCEPT !.at = "Done", !.answer = m.body]
            ELSE [st EXCEPT !.at = "Failed"]
      [] OTHER -> [st EXCEPT !.at = "WrongState"]

\* recv of a length and then of the body, in helper run h.
IRecv(h, st, m) ==
    CASE st.at = "WantHs2Len" ->
            IF m.kind = "msg2" /\ m.hs.e = h /\ m.hs.psk = st.psk
            THEN [st EXCEPT !.at = "WriteReq", !.hs = m.hs]
            ELSE [st EXCEPT !.at = "Failed"]
      [] st.at = "WantRespLen" ->
            IF m.kind = "resp" /\ m.hs = st.hs
            THEN [st EXCEPT !.at = "Done", !.answer = m.body]
            ELSE [st EXCEPT !.at = "Failed"]
      [] OTHER -> [st EXCEPT !.at = "WrongState"]

IWrote(st) ==
    CASE st.at = "WroteHs1Pending" -> [st EXCEPT !.at = "WantHs2Len"]
      [] st.at = "WroteReqPending" -> [st EXCEPT !.at = "WantRespLen"]
      [] OTHER                     -> [st EXCEPT !.at = "WrongState"]

IFrame(h, st) ==
    IF st.at = "WroteHs1Pending" THEN Msg1(h, st.id) ELSE Req(st.hs, st.request)

-----------------------------------------------------------------------------
\* The tables are whatever the daemon loaded: an earlier failure may have left a
\* key without metadata, or metadata without a key.
Init ==
    /\ psks \in [Clients -> Keys \cup {None}]
    /\ clients \in SUBSET Clients
    /\ conn = [s \in Conns |-> RBlank]
    /\ name = [s \in Conns |-> None]
    /\ helper = [h \in Helpers |-> IBlank]
    /\ sent = {}
    /\ listed = [s \in Conns |-> {}]

(* handle_connection.                                                        *)

Accept(s) ==
    /\ conn[s].at = "idle"
    /\ conn' = [conn EXCEPT ![s] = RStep(RNew)]
    /\ listed' = [listed EXCEPT ![s] = AuthorisedPairs]
    /\ UNCHANGED <<roster, name, helper, sent>>

\* handle_connection returns and the Responder is gone.
Close(s) == conn' = [conn EXCEPT ![s].at = "closed"]

\* Faulty variant: the metadata is not asked for.
AuthorisedByKey(c) == psks[c] # None

\* Step::NeedPsk: the key for an identity with both a key and metadata.
Authorised(c) == psks[c] # None /\ c \in clients

\* Faulty variant: the substitute is predictable.
PredictableSubstitutes == Keys

\* Psk::random.
Substitutes == {Decoy}

\* Message 1 arrives.  A substitute key is drawn for an identity that is not
\* authorised, or the connection dropped if the RNG fails.
RecvMsg1(s) ==
    /\ conn[s].at = "WantHsLen"
    /\ \E m \in Arrivals :
         LET st == RRecv(conn[s], m)
             Continue(k) == conn' = [conn EXCEPT ![s] = RStep(RSetPsk(s, RStep(st), k))]
         IN  \/ st.at = "Failed" /\ Close(s) /\ UNCHANGED name
             \/ /\ st.at # "Failed" /\ Authorised(st.id)
                /\ name' = [name EXCEPT ![s] = st.id]
                /\ Continue(psks[st.id])
             \/ /\ st.at # "Failed" /\ ~Authorised(st.id)
                /\ \/ \E k \in Substitutes : Continue(k)
                   \/ Close(s)
                /\ UNCHANGED name
    /\ UNCHANGED <<roster, helper, sent, listed>>

\* Step::Write's await returns, for message 2 or for the response.
Wrote(s) ==
    /\ conn[s].at \in {"WroteHsPending", "WroteRespPending"}
    /\ conn' = [conn EXCEPT ![s] = RStep(RWrote(conn[s]))]
    /\ sent' = sent \cup {RFrame(conn[s])}
    /\ UNCHANGED <<roster, name, helper, listed>>

\* A request arrives: it is decrypted, the session must be an authorised one and
\* the request a good one, and provider.mint is called.
RecvRequest(s) ==
    /\ conn[s].at = "WantReqLen"
    /\ \E m \in Arrivals :
         LET st == RRecv(conn[s], m) IN
         IF st.at = "Failed" \/ name[s] = None \/ st.request = Malformed
         THEN Close(s)
         ELSE conn' = [conn EXCEPT ![s] = RStep(st)]
    /\ UNCHANGED <<roster, name, helper, sent, listed>>

\* provider.mint returns a token, which is encoded and encrypted, or an error.
MintReturns(s) ==
    /\ conn[s].at = "AwaitingResponse"
    /\ \/ conn' = [conn EXCEPT ![s] = RStep(RSetResponse(conn[s]))]
       \/ Close(s)
    /\ UNCHANGED <<roster, name, helper, sent, listed>>

\* EOF, an I/O error or the connection timeout, at any await.  What was being
\* written may have got out.
Drop(s) ==
    /\ conn[s].at \notin {"idle", "Done", "closed"}
    /\ Close(s)
    /\ \/ UNCHANGED sent
       \/ /\ conn[s].at \in {"WroteHsPending", "WroteRespPending"}
          /\ sent' = sent \cup {RFrame(conn[s])}
    /\ UNCHANGED <<roster, name, helper, listed>>

-----------------------------------------------------------------------------
(* git-credential-symbolon: run and drive.                                   *)

Run(h, c, k, q) ==
    /\ helper[h].at = "idle"
    /\ helper' = [helper EXCEPT ![h] = IStep(INew(c, k, q))]
    /\ UNCHANGED <<roster, conn, name, sent, listed>>

HelperWrote(h) ==
    /\ helper[h].at \in {"WroteHs1Pending", "WroteReqPending"}
    /\ helper' = [helper EXCEPT ![h] = IStep(IWrote(helper[h]))]
    /\ sent' = sent \cup {IFrame(h, helper[h])}
    /\ UNCHANGED <<roster, conn, name, listed>>

HelperReads(h) ==
    /\ helper[h].at \in {"WantHs2Len", "WantRespLen"}
    /\ \E m \in Arrivals :
         LET st == IRecv(h, helper[h], m) IN
         helper' = [helper EXCEPT ![h] = IF st.at = "Failed" THEN st ELSE IStep(st)]
    /\ UNCHANGED <<roster, conn, name, sent, listed>>

\* An I/O error or a socket timeout: drive returns it and the process exits.
HelperFails(h) ==
    /\ helper[h].at \notin {"idle", "Done", "Failed"}
    /\ helper' = [helper EXCEPT ![h].at = "Failed"]
    /\ \/ UNCHANGED sent
       \/ /\ helper[h].at \in {"WroteHs1Pending", "WroteReqPending"}
          /\ sent' = sent \cup {IFrame(h, helper[h])}
    /\ UNCHANGED <<roster, conn, name, listed>>

-----------------------------------------------------------------------------
(* What enroll_client and revoke_client do to the tables, as far as the wire *)
(* path can see it; Enrollment has the rest, and implements Tables.          *)

Shared == INSTANCE Tables WITH NoKey <- None, up <- TRUE

Enroll(c, k) ==
    /\ Shared!Enroll(c, k)
    /\ listed' = [s \in Conns |-> IF conn[s].at = "WantHsLen"
                                  THEN listed[s] \cup {<<c, k>>} ELSE listed[s]]
    /\ UNCHANGED <<conn, name, helper, sent>>

RemoveKey(c) == Shared!RemoveKey(c) /\ UNCHANGED <<conn, name, helper, sent, listed>>

RemoveClient(c) == Shared!RemoveClient(c) /\ UNCHANGED <<conn, name, helper, sent, listed>>

-----------------------------------------------------------------------------
Next ==
    \/ \E s \in Conns :
          \/ Accept(s) \/ RecvMsg1(s) \/ Wrote(s) \/ RecvRequest(s)
          \/ MintReturns(s) \/ Drop(s)
    \/ \E h \in Helpers, c \in Clients, k \in Keys, q \in Requests : Run(h, c, k, q)
    \/ \E h \in Helpers : HelperWrote(h) \/ HelperReads(h) \/ HelperFails(h)
    \/ \E c \in Clients, k \in Keys : Enroll(c, k)
    \/ \E c \in Clients : RemoveKey(c) \/ RemoveClient(c)

Spec == Init /\ [][Next]_vars

(***************************************************************************)
(* Properties                                                              *)
(***************************************************************************)

\* Every variable has its type.  In particular the machines only ever rest where
\* their drivers wait: no method is called in a state it does not expect, so
\* handle_connection and drive never see WrongState.
TypeOK ==
    /\ psks \in [Clients -> Keys \cup {None}]
    /\ clients \in SUBSET Clients
    /\ conn \in [Conns -> Responders]
    /\ name \in [Conns -> Clients \cup {None}]
    /\ helper \in [Helpers -> Initiators]
    /\ listed \in [Conns -> SUBSET Pairs]

\* provider.mint has been called for this connection.
Served(s) == conn[s].at \in {"AwaitingResponse", "WroteRespPending", "Done"}

\* A mint is only ever made for a helper that holds the key the roster had for the
\* name it is logged under, on this very connection, and for the repository that
\* helper asked for.  And it is the only one for that run: a replayed message 1 or
\* request never mints again, on any connection.
MintsAgree ==
    \A s \in Conns : Served(s) =>
        LET h == conn[s].peer IN
        /\ name[s] = helper[h].id
        /\ helper[h].hs = conn[s].hs
        /\ helper[h].hs = [e |-> h, re |-> s, id |-> helper[h].id, psk |-> helper[h].psk]
        /\ helper[h].request = conn[s].request
        /\ \A t \in Conns : conn[t].request # None /\ conn[t].peer = h => t = s

\* An answer the helper prints was minted by the daemon for this helper's own
\* request, not for another one's and not for an earlier one of the same client.
AnswersAgree ==
    \A h \in Helpers : helper[h].at = "Done" =>
        /\ helper[h].answer = helper[h].request
        /\ \E s \in Conns :
             /\ conn[s].hs = helper[h].hs
             /\ conn[s].request = helper[h].answer
             /\ conn[s].at \in {"WroteRespPending", "Done", "closed"}

\* The comment at Step::Request: a session with a substitute key cannot get a
\* request through; the check of client_name there is never what stops it.
DecoyUndecryptable ==
    \A s \in Conns : conn[s].at = "WantReqLen" /\ name[s] = None =>
        \A m \in Arrivals : RRecv(conn[s], m).at = "Failed"

\* The key a mint rests on was the client's, in both tables at once, while its
\* connection was open.  So, as OPERATIONS.md says of a revocation, later
\* connections never reach the mint path with the old key.
MintsListed ==
    \A s \in Conns : Served(s) => <<name[s], conn[s].hs.psk>> \in listed[s]
=============================================================================
