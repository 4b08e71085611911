----------------------------- MODULE MintProofs -----------------------------
(***************************************************************************)
(* Proofs about Mint, for every number of callers, paths and ids.          *)
(***************************************************************************)
EXTENDS Mint, TLAPS

\* A caller that is minting has a path; one that is not has nothing left over.
Locals ==
    \A c \in Callers :
        /\ pc[c] # "idle" => want[c] \in Keys
        /\ pc[c] = "idle" => id[c] = NoId /\ reply[c] = Unanswered

\* Until a mint of its path is refused, a resolver's own marker is in the store.
OwnMarker ==
    \A c \in Callers :
        pc[c] \in Resolving /\ want[c] \notin refused => store[want[c]] = InFlight(c)

\* Every id the daemon knows for a path, wherever it keeps it, is one that the
\* path has had at the provider.
KnownIds ==
    /\ \A k \in Keys : repo[k] # NoId => <<k, repo[k]>> \in named
    /\ \A k \in Keys : store[k].kind = "memo" => <<k, store[k].id>> \in named
    /\ \A c \in Callers : id[c] # NoId => <<want[c], id[c]>> \in named
    /\ \A c \in Callers : pc[c] = "mint" => id[c] # NoId
    /\ \A c \in Callers : reply[c].kind = "found" => <<want[c], reply[c].id>> \in named

\* The inductive invariant.
IInv ==
    /\ TypeOK
    /\ Locals
    /\ NoOrphanMarker
    /\ WaitersCovered
    /\ OwnMarker
    /\ KnownIds
    /\ TokensInScope

USE NoIdAssumption, NoKeyAssumption

-----------------------------------------------------------------------------
(* Facts about the store's entries and the provider's replies.               *)

\* What the constructors build, and what can be read back from it.
LEMMA EntryFacts ==
    /\ Nothing \in Entries /\ Nothing.kind = "none"
    /\ \A i \in Ids : Memo(i) \in Entries /\ Memo(i).kind = "memo" /\ Memo(i).id = i
    /\ \A c \in Callers :
           InFlight(c) \in Entries /\ InFlight(c).kind = "inflight" /\ InFlight(c).by = c
    /\ \A e \in Entries :
           /\ e.kind = "memo" => e.id \in Ids
           /\ e.kind = "inflight" => e.by \in Callers
<1>1. ASSUME NEW e \in Entries
      PROVE  \/ e = Nothing
             \/ \E i \in Ids : e = Memo(i)
             \/ \E c \in Callers : e = InFlight(c)
  BY DEF Entries
<1>2. /\ Nothing.kind = "none"
      /\ \A i : Memo(i).kind = "memo" /\ Memo(i).id = i
      /\ \A c : InFlight(c).kind = "inflight" /\ InFlight(c).by = c
  BY DEF Nothing, Memo, InFlight
<1>3. /\ Nothing \in Entries
      /\ \A i \in Ids : Memo(i) \in Entries
      /\ \A c \in Callers : InFlight(c) \in Entries
  BY Zenon DEF Entries
<1>4. ASSUME NEW e \in Entries
      PROVE  /\ e.kind = "memo" => e.id \in Ids
             /\ e.kind = "inflight" => e.by \in Callers
  BY <1>1, <1>2
<1>5. QED
  BY <1>2, <1>3, <1>4

\* Likewise for the provider's answers.
LEMMA ReplyFacts ==
    /\ Unanswered \in Replies /\ Unanswered.kind = "unanswered"
    /\ NotFound \in Replies /\ NotFound.kind = "not_found"
    /\ \A i \in Ids : Found(i) \in Replies /\ Found(i).kind = "found" /\ Found(i).id = i
    /\ \A e \in Replies : e.kind = "found" => e.id \in Ids
<1>1. ASSUME NEW e \in Replies
      PROVE  e = Unanswered \/ e = NotFound \/ \E i \in Ids : e = Found(i)
  BY DEF Replies
<1>2. /\ Unanswered.kind = "unanswered" /\ NotFound.kind = "not_found"
      /\ \A i : Found(i).kind = "found" /\ Found(i).id = i
  BY DEF Unanswered, NotFound, Found
<1>3. /\ Unanswered \in Replies /\ NotFound \in Replies
      /\ \A i \in Ids : Found(i) \in Replies
  BY Zenon DEF Replies
<1>4. ASSUME NEW e \in Replies, e.kind = "found" PROVE e.id \in Ids
  BY <1>1, <1>2, <1>4
<1>5. QED
  BY <1>2, <1>3, <1>4

\* Two resolvers of one path that was never refused are one: the path has one
\* entry, and it is the marker of both.
LEMMA OwnMarkerUnique == OwnMarker => SingleUntilRefused
<1> SUFFICES ASSUME OwnMarker,
                    NEW c \in Callers, NEW d \in Callers,
                    pc[c] \in Resolving, pc[d] \in Resolving,
                    want[c] = want[d], want[c] \notin refused
             PROVE  c = d
  BY DEF SingleUntilRefused
<1>1. InFlight(c) = InFlight(d)
  BY DEF OwnMarker
<1> QED
  BY <1>1, EntryFacts

\* What claim leaves in the store and in its caller's variables.
LEMMA ClaimTypes ==
    ASSUME TypeOK, NEW c \in Callers, NEW k \in Keys, Claim(c, k)
    PROVE  /\ store' \in [Keys -> Entries]
           /\ pc' \in [Callers -> Phases]
           /\ ev' \in [Callers -> Callers]
           /\ id' \in [Callers -> Ids \cup {NoId}]
           /\ pc'[c] \in {"mint", "wait", "metadata"}
           /\ \A d \in Callers : d # c => pc'[d] = pc[d]
<1>1. CASE store[k].kind = "memo"
  BY <1>1, EntryFacts DEF TypeOK, Claim, Phases
<1>2. CASE store[k].kind = "inflight"
  BY <1>2, EntryFacts DEF TypeOK, Claim, Phases
<1>3. CASE store[k].kind = "none"
  <2>1. /\ store' = [store EXCEPT ![k] = InFlight(c)]
        /\ pc' = [pc EXCEPT ![c] = "metadata"]
        /\ ev' = [ev EXCEPT ![c] = c]
        /\ id' = id
    BY <1>3 DEF Claim
  <2>2. store' \in [Keys -> Entries]
    BY <2>1, EntryFacts DEF TypeOK
  <2>3. QED
    BY <2>1, <2>2 DEF TypeOK, Phases
<1>4. QED
  BY <1>1, <1>2, <1>3 DEF Claim

-----------------------------------------------------------------------------
(* Every step preserves the invariant: one lemma per action.                 *)

LEMMA InitIInv == Init => IInv
  BY EntryFacts, ReplyFacts
  DEF Init, IInv, TypeOK, Locals, NoOrphanMarker, WaitersCovered, OwnMarker, KnownIds,
      TokensInScope, Phases, Resolving

LEMMA StartStep ==
    ASSUME NEW c \in Callers, NEW k \in Keys, IInv, Start(c, k)
    PROVE  IInv'
<1>1. TypeOK'
  <2>1. CASE tokens[k] # NoId
    BY <2>1 DEF IInv, Start, TypeOK, history
  <2>2. CASE tokens[k] = NoId
    BY <2>2, ClaimTypes DEF IInv, Start, TypeOK, history
  <2>3. QED
    BY <2>1, <2>2
<1>2. Locals'
  BY EntryFacts, ReplyFacts DEF IInv, Start, Claim, TypeOK, Locals, Phases,
     Resolving, history
<1>3. NoOrphanMarker'
  BY EntryFacts DEF IInv, Start, Claim, TypeOK, Locals, NoOrphanMarker, Phases,
     Resolving, history
<1>4. WaitersCovered'
  BY EntryFacts DEF IInv, Start, Claim, TypeOK, Locals, NoOrphanMarker,
     WaitersCovered, Phases, Resolving, history
<1>5. OwnMarker'
  BY EntryFacts, OwnMarkerUnique DEF IInv, Start, Claim, TypeOK, Locals, OwnMarker,
     SingleUntilRefused, Phases, Resolving, history
<1>6. KnownIds'
  <2>1. CASE tokens[k] # NoId
    BY <2>1 DEF IInv, Start, KnownIds, history
  <2>2. CASE tokens[k] = NoId /\ store[k].kind = "memo"
    <3>1. /\ id' = [id EXCEPT ![c] = store[k].id]
          /\ pc' = [pc EXCEPT ![c] = "mint"]
          /\ want' = [want EXCEPT ![c] = k]
          /\ UNCHANGED <<repo, store, reply, named>>
      BY <2>2 DEF Start, Claim, history
    <3>2. store[k].id \in Ids /\ <<k, store[k].id>> \in named
      BY <2>2, EntryFacts DEF IInv, TypeOK, KnownIds
    <3>3. id[c] = NoId /\ reply[c].kind # "found"
      BY ReplyFacts DEF IInv, Start, Locals
    <3>4. QED
      BY <3>1, <3>2, <3>3 DEF IInv, TypeOK, KnownIds
  <2>3. CASE tokens[k] = NoId /\ store[k].kind # "memo"
    <3>1. /\ want' = [want EXCEPT ![c] = k]
          /\ UNCHANGED <<repo, id, reply, named>>
      BY <2>3 DEF Start, Claim, history
    <3>2. \A l \in Keys : store'[l].kind = "memo" => store'[l] = store[l]
      BY <2>3, EntryFacts DEF IInv, TypeOK, Start, Claim
    <3>3. \A d \in Callers : pc'[d] = "mint" => pc[d] = "mint"
      BY <2>3 DEF IInv, TypeOK, Start, Claim
    <3>4. id[c] = NoId /\ reply[c].kind # "found"
      BY ReplyFacts DEF IInv, Start, Locals
    <3>5. QED
      BY <3>1, <3>2, <3>3, <3>4 DEF IInv, TypeOK, KnownIds
  <2>4. QED
    BY <2>1, <2>2, <2>3
<1>7. TokensInScope'
  BY EntryFacts, ReplyFacts DEF IInv, Start, Claim, TypeOK, KnownIds, TokensInScope,
     history
<1>8. QED
  BY <1>1, <1>2, <1>3, <1>4, <1>5, <1>6, <1>7 DEF IInv

LEMMA ReclaimStep ==
    ASSUME NEW c \in Callers, IInv, Reclaim(c)
    PROVE  IInv'
<1>1. TypeOK'
  BY ClaimTypes DEF IInv, Reclaim, TypeOK, Locals, history
<1>2. Locals'
  BY EntryFacts, ReplyFacts DEF IInv, Reclaim, Claim, TypeOK, Locals, Phases,
     Resolving, history
<1>3. NoOrphanMarker'
  BY EntryFacts DEF IInv, Reclaim, Claim, TypeOK, Locals, NoOrphanMarker, Phases,
     Resolving, history
<1>4. WaitersCovered'
  BY EntryFacts DEF IInv, Reclaim, Claim, TypeOK, Locals, NoOrphanMarker,
     WaitersCovered, Phases, Resolving, history
<1>5. OwnMarker'
  BY EntryFacts, OwnMarkerUnique DEF IInv, Reclaim, Claim, TypeOK, Locals,
     OwnMarker, SingleUntilRefused, Phases, Resolving, history
<1>6. KnownIds'
  <2>1. CASE store[want[c]].kind = "memo"
    BY <2>1, EntryFacts, ReplyFacts DEF IInv, Reclaim, Claim, TypeOK, Locals, KnownIds, history
  <2>2. CASE store[want[c]].kind # "memo"
    BY <2>2, EntryFacts, ReplyFacts DEF IInv, Reclaim, Claim, TypeOK, Locals, KnownIds, history
  <2>3. QED
    BY <2>1, <2>2
<1>7. TokensInScope'
  BY EntryFacts, ReplyFacts DEF IInv, Reclaim, Claim, TypeOK, KnownIds,
     TokensInScope, history
<1>8. QED
  BY <1>1, <1>2, <1>3, <1>4, <1>5, <1>6, <1>7 DEF IInv

LEMMA MetadataDoneStep ==
    ASSUME NEW c \in Callers, IInv, MetadataDone(c)
    PROVE  IInv'
<1>1. TypeOK'
  BY EntryFacts, ReplyFacts DEF IInv, MetadataDone, TypeOK, Locals, Phases,
     Resolving, history
<1>2. Locals'
  BY EntryFacts, ReplyFacts DEF IInv, MetadataDone, TypeOK, Locals, Phases,
     Resolving, history
<1>3. NoOrphanMarker'
  BY EntryFacts DEF IInv, MetadataDone, TypeOK, Locals, NoOrphanMarker, Phases,
     Resolving, history
<1>4. WaitersCovered'
  BY EntryFacts DEF IInv, MetadataDone, TypeOK, Locals, NoOrphanMarker,
     WaitersCovered, Phases, Resolving, history
<1>5. OwnMarker'
  BY EntryFacts, OwnMarkerUnique DEF IInv, MetadataDone, TypeOK, Locals, OwnMarker,
     SingleUntilRefused, Phases, Resolving, history
<1>6. KnownIds'
  BY EntryFacts, ReplyFacts DEF IInv, MetadataDone, TypeOK, Locals, KnownIds,
     Phases, Resolving, history
<1>7. TokensInScope'
  BY EntryFacts, ReplyFacts DEF IInv, MetadataDone, TypeOK, KnownIds, TokensInScope,
     history
<1>8. QED
  BY <1>1, <1>2, <1>3, <1>4, <1>5, <1>6, <1>7 DEF IInv

LEMMA MetadataFailsStep ==
    ASSUME NEW c \in Callers, IInv, MetadataFails(c)
    PROVE  IInv'
<1>1. TypeOK'
  BY EntryFacts, ReplyFacts DEF IInv, MetadataFails, ReleaseFailed, Notify, Forget,
     TypeOK, Locals, Phases, Resolving, history
<1>2. Locals'
  BY EntryFacts, ReplyFacts DEF IInv, MetadataFails, ReleaseFailed, Notify, Forget,
     TypeOK, Locals, Phases, Resolving, history
<1>3. NoOrphanMarker'
  BY EntryFacts DEF IInv, MetadataFails, ReleaseFailed, Notify, Forget, TypeOK,
     Locals, NoOrphanMarker, Phases, Resolving, history
<1>4. WaitersCovered'
  BY EntryFacts DEF IInv, MetadataFails, ReleaseFailed, Notify, Forget, TypeOK,
     Locals, NoOrphanMarker, WaitersCovered, Phases, Resolving, history
<1>5. OwnMarker'
  BY EntryFacts, OwnMarkerUnique DEF IInv, MetadataFails, ReleaseFailed, Notify,
     Forget, TypeOK, Locals, OwnMarker, SingleUntilRefused, Phases, Resolving,
     history
<1>6. KnownIds'
  BY EntryFacts, ReplyFacts DEF IInv, MetadataFails, ReleaseFailed, Notify, Forget,
     TypeOK, Locals, KnownIds, Phases, Resolving, history
<1>7. TokensInScope'
  BY EntryFacts, ReplyFacts DEF IInv, MetadataFails, ReleaseFailed, Notify, Forget,
     TypeOK, KnownIds, TokensInScope, history
<1>8. QED
  BY <1>1, <1>2, <1>3, <1>4, <1>5, <1>6, <1>7 DEF IInv

LEMMA LookupDoneStep ==
    ASSUME NEW c \in Callers, IInv, LookupDone(c)
    PROVE  IInv'
<1>1. TypeOK'
  BY EntryFacts, ReplyFacts DEF IInv, LookupDone, TypeOK, Locals, Phases, Resolving,
     history
<1>2. Locals'
  BY EntryFacts, ReplyFacts DEF IInv, LookupDone, TypeOK, Locals, Phases, Resolving,
     history
<1>3. NoOrphanMarker'
  BY EntryFacts DEF IInv, LookupDone, TypeOK, Locals, NoOrphanMarker, Phases,
     Resolving, history
<1>4. WaitersCovered'
  BY EntryFacts DEF IInv, LookupDone, TypeOK, Locals, NoOrphanMarker,
     WaitersCovered, Phases, Resolving, history
<1>5. OwnMarker'
  BY EntryFacts, OwnMarkerUnique DEF IInv, LookupDone, TypeOK, Locals, OwnMarker,
     SingleUntilRefused, Phases, Resolving, history
<1>6. KnownIds'
  BY EntryFacts, ReplyFacts DEF IInv, LookupDone, TypeOK, Locals, KnownIds, Phases,
     Resolving, history
<1>7. TokensInScope'
  BY EntryFacts, ReplyFacts DEF IInv, LookupDone, TypeOK, KnownIds, TokensInScope,
     history
<1>8. QED
  BY <1>1, <1>2, <1>3, <1>4, <1>5, <1>6, <1>7 DEF IInv

LEMMA CleanupDoneStep ==
    ASSUME NEW c \in Callers, IInv, CleanupDone(c)
    PROVE  IInv'
<1>1. TypeOK'
  <2>1. CASE id[c] # NoId
    BY <2>1, EntryFacts, ReplyFacts DEF IInv, CleanupDone, ReleaseDone, Notify, TypeOK, Locals,
                Phases, Resolving, history
  <2>2. CASE id[c] = NoId
    BY <2>2, EntryFacts, ReplyFacts DEF IInv, CleanupDone, ReleaseFailed, Notify, Forget,
                TypeOK, Locals, Phases, Resolving, history
  <2>3. QED
    BY <2>1, <2>2
<1>2. Locals'
  BY EntryFacts, ReplyFacts DEF IInv, CleanupDone, ReleaseDone, ReleaseFailed,
     Notify, Forget, TypeOK, Locals, Phases, Resolving, history
<1>3. NoOrphanMarker'
  <2>1. CASE id[c] # NoId
    BY <2>1, EntryFacts DEF IInv, CleanupDone, ReleaseDone, Notify, TypeOK, Locals,
                NoOrphanMarker, Phases, Resolving, history
  <2>2. CASE id[c] = NoId
    BY <2>2, EntryFacts DEF IInv, CleanupDone, ReleaseFailed, Notify, Forget,
                TypeOK, Locals, NoOrphanMarker, Phases, Resolving, history
  <2>3. QED
    BY <2>1, <2>2
<1>4. WaitersCovered'
  BY EntryFacts DEF IInv, CleanupDone, ReleaseDone, ReleaseFailed, Notify, Forget,
     TypeOK, Locals, NoOrphanMarker, WaitersCovered, Phases, Resolving, history
<1>5. OwnMarker'
  BY EntryFacts, OwnMarkerUnique DEF IInv, CleanupDone, ReleaseDone, ReleaseFailed,
     Notify, Forget, TypeOK, Locals, OwnMarker, SingleUntilRefused, Phases,
     Resolving, history
<1>6. KnownIds'
  <2>1. CASE id[c] # NoId
    <3>1. /\ store' = [store EXCEPT ![want[c]] = Memo(id[c])]
          /\ UNCHANGED <<repo, want, id, reply, named>>
      BY <2>1 DEF CleanupDone, ReleaseDone, history
    <3>2. want[c] \in Keys /\ id[c] \in Ids /\ <<want[c], id[c]>> \in named
      BY <2>1 DEF IInv, TypeOK, Locals, KnownIds, CleanupDone
    <3>3. store'[want[c]].id = id[c]
      BY <3>1, <3>2, EntryFacts DEF IInv, TypeOK
    <3>4. \A k \in Keys : k # want[c] => store'[k] = store[k]
      BY <3>1 DEF IInv, TypeOK
    <3>5. \A d \in Callers : pc'[d] = "mint" => d = c \/ pc[d] = "mint"
      BY <2>1 DEF CleanupDone, ReleaseDone, Notify
    <3>6. QED
      BY <2>1, <3>1, <3>2, <3>3, <3>4, <3>5 DEF IInv, KnownIds
  <2>2. CASE id[c] = NoId
    <3>1. /\ id' = [id EXCEPT ![c] = NoId]
          /\ reply' = [reply EXCEPT ![c] = Unanswered]
          /\ store' = [store EXCEPT ![want[c]] = Nothing]
          /\ want' = [want EXCEPT ![c] = NoKey]
          /\ UNCHANGED <<repo, named>>
      BY <2>2 DEF CleanupDone, ReleaseFailed, Forget, history
    <3>2. \A d \in Callers : pc'[d] = "mint" => d # c /\ pc[d] = "mint"
      BY <2>2 DEF IInv, TypeOK, CleanupDone, ReleaseFailed, Notify
    <3>3. \A d \in Callers \ {c} :
              id'[d] = id[d] /\ reply'[d] = reply[d] /\ want'[d] = want[d]
      BY <3>1 DEF IInv, TypeOK
    <3>4. id'[c] = NoId /\ reply'[c].kind # "found"
      BY <3>1, ReplyFacts DEF IInv, TypeOK
    <3>5. \A k \in Keys : store'[k].kind = "memo" => store'[k] = store[k]
      BY <3>1, EntryFacts DEF IInv, TypeOK
    <3>6. QED
      BY <3>1, <3>2, <3>3, <3>4, <3>5 DEF IInv, KnownIds
  <2>3. QED
    BY <2>1, <2>2
<1>7. TokensInScope'
  BY EntryFacts, ReplyFacts DEF IInv, CleanupDone, ReleaseDone, ReleaseFailed,
     Notify, Forget, TypeOK, KnownIds, TokensInScope, history
<1>8. QED
  BY <1>1, <1>2, <1>3, <1>4, <1>5, <1>6, <1>7 DEF IInv

LEMMA MintDoneStep ==
    ASSUME NEW c \in Callers, IInv, MintDone(c)
    PROVE  IInv'
<1>1. TypeOK'
  BY EntryFacts, ReplyFacts DEF IInv, MintDone, Forget, TypeOK, Locals, Phases,
     Resolving, history
<1>2. Locals'
  BY EntryFacts, ReplyFacts DEF IInv, MintDone, Forget, TypeOK, Locals, Phases,
     Resolving, history
<1>3. NoOrphanMarker'
  BY EntryFacts DEF IInv, MintDone, Forget, TypeOK, Locals, NoOrphanMarker, Phases,
     Resolving, history
<1>4. WaitersCovered'
  BY EntryFacts DEF IInv, MintDone, Forget, TypeOK, Locals, NoOrphanMarker,
     WaitersCovered, Phases, Resolving, history
<1>5. OwnMarker'
  BY EntryFacts, OwnMarkerUnique DEF IInv, MintDone, Forget, TypeOK, Locals,
     OwnMarker, SingleUntilRefused, Phases, Resolving, history
<1>6. KnownIds'
  BY EntryFacts, ReplyFacts DEF IInv, MintDone, Forget, TypeOK, Locals, KnownIds,
     Phases, Resolving, history
<1>7. TokensInScope'
  BY EntryFacts, ReplyFacts DEF IInv, MintDone, Forget, TypeOK, KnownIds,
     TokensInScope, history
<1>8. QED
  BY <1>1, <1>2, <1>3, <1>4, <1>5, <1>6, <1>7 DEF IInv

LEMMA MintNotFoundStep ==
    ASSUME NEW c \in Callers, IInv, MintNotFound(c)
    PROVE  IInv'
<1>1. TypeOK'
  BY EntryFacts, ReplyFacts DEF IInv, MintNotFound, Forget, TypeOK, Locals, Phases,
     Resolving
<1>2. Locals'
  BY EntryFacts, ReplyFacts DEF IInv, MintNotFound, Forget, TypeOK, Locals, Phases,
     Resolving
<1>3. NoOrphanMarker'
  BY EntryFacts DEF IInv, MintNotFound, Forget, TypeOK, Locals, NoOrphanMarker,
     Phases, Resolving
<1>4. WaitersCovered'
  BY EntryFacts DEF IInv, MintNotFound, Forget, TypeOK, Locals, NoOrphanMarker,
     WaitersCovered, Phases, Resolving
<1>5. OwnMarker'
  BY EntryFacts, OwnMarkerUnique DEF IInv, MintNotFound, Forget, TypeOK, Locals,
     OwnMarker, SingleUntilRefused, Phases, Resolving
<1>6. KnownIds'
  BY EntryFacts, ReplyFacts DEF IInv, MintNotFound, Forget, TypeOK, Locals,
     KnownIds, Phases, Resolving
<1>7. TokensInScope'
  BY EntryFacts, ReplyFacts DEF IInv, MintNotFound, Forget, TypeOK, KnownIds,
     TokensInScope
<1>8. QED
  BY <1>1, <1>2, <1>3, <1>4, <1>5, <1>6, <1>7 DEF IInv

LEMMA MintFailsStep ==
    ASSUME NEW c \in Callers, IInv, MintFails(c)
    PROVE  IInv'
<1>1. TypeOK'
  BY EntryFacts, ReplyFacts DEF IInv, MintFails, Forget, TypeOK, Locals, Phases,
     Resolving, history
<1>2. Locals'
  BY EntryFacts, ReplyFacts DEF IInv, MintFails, Forget, TypeOK, Locals, Phases,
     Resolving, history
<1>3. NoOrphanMarker'
  BY EntryFacts DEF IInv, MintFails, Forget, TypeOK, Locals, NoOrphanMarker, Phases,
     Resolving, history
<1>4. WaitersCovered'
  BY EntryFacts DEF IInv, MintFails, Forget, TypeOK, Locals, NoOrphanMarker,
     WaitersCovered, Phases, Resolving, history
<1>5. OwnMarker'
  BY EntryFacts, OwnMarkerUnique DEF IInv, MintFails, Forget, TypeOK, Locals,
     OwnMarker, SingleUntilRefused, Phases, Resolving, history
<1>6. KnownIds'
  BY EntryFacts, ReplyFacts DEF IInv, MintFails, Forget, TypeOK, Locals, KnownIds,
     Phases, Resolving, history
<1>7. TokensInScope'
  BY EntryFacts, ReplyFacts DEF IInv, MintFails, Forget, TypeOK, KnownIds,
     TokensInScope, history
<1>8. QED
  BY <1>1, <1>2, <1>3, <1>4, <1>5, <1>6, <1>7 DEF IInv

LEMMA DropStep ==
    ASSUME NEW c \in Callers, IInv, Drop(c)
    PROVE  IInv'
<1>1. TypeOK'
  BY EntryFacts, ReplyFacts DEF IInv, Drop, ReleaseFailed, Notify, Forget, TypeOK,
     Locals, Phases, Resolving, history
<1>2. Locals'
  BY EntryFacts, ReplyFacts DEF IInv, Drop, ReleaseFailed, Notify, Forget, TypeOK,
     Locals, Phases, Resolving, history
<1>3. NoOrphanMarker'
  BY EntryFacts DEF IInv, Drop, ReleaseFailed, Notify, Forget, TypeOK, Locals,
     NoOrphanMarker, Phases, Resolving, history
<1>4. WaitersCovered'
  BY EntryFacts DEF IInv, Drop, ReleaseFailed, Notify, Forget, TypeOK, Locals,
     NoOrphanMarker, WaitersCovered, Phases, Resolving, history
<1>5. OwnMarker'
  BY EntryFacts, OwnMarkerUnique DEF IInv, Drop, ReleaseFailed, Notify, Forget,
     TypeOK, Locals, OwnMarker, SingleUntilRefused, Phases, Resolving, history
<1>6. KnownIds'
  BY EntryFacts, ReplyFacts DEF IInv, Drop, ReleaseFailed, Notify, Forget, TypeOK,
     Locals, KnownIds, Phases, Resolving, history
<1>7. TokensInScope'
  BY EntryFacts, ReplyFacts DEF IInv, Drop, ReleaseFailed, Notify, Forget, TypeOK,
     KnownIds, TokensInScope, history
<1>8. QED
  BY <1>1, <1>2, <1>3, <1>4, <1>5, <1>6, <1>7 DEF IInv

LEMMA AnswerStep ==
    ASSUME NEW c \in Callers, IInv, Answer(c)
    PROVE  IInv'
<1>1. TypeOK'
  <2>1. CASE pc[c] = "lookup"
    <3>1. repo[want[c]] \in Ids \cup {NoId}
      BY <2>1 DEF IInv, TypeOK, Locals
    <3>2. QED
      BY <2>1, <3>1, ReplyFacts DEF IInv, Answer, TypeOK, history
  <2>2. CASE pc[c] = "mint"
    <3>1. id[c] \in Ids
      BY <2>2 DEF IInv, TypeOK, KnownIds
    <3>2. QED
      BY <2>2, <3>1, ReplyFacts DEF IInv, Answer, TypeOK, history
  <2>3. QED
    BY <2>1, <2>2 DEF Answer
<1>2. Locals'
  BY EntryFacts, ReplyFacts DEF IInv, Answer, TypeOK, Locals, Phases, Resolving,
     history
<1>3. NoOrphanMarker'
  BY EntryFacts DEF IInv, Answer, TypeOK, Locals, NoOrphanMarker, Phases, Resolving,
     history
<1>4. WaitersCovered'
  BY EntryFacts DEF IInv, Answer, TypeOK, Locals, NoOrphanMarker, WaitersCovered,
     Phases, Resolving, history
<1>5. OwnMarker'
  BY EntryFacts, OwnMarkerUnique DEF IInv, Answer, TypeOK, Locals, OwnMarker,
     SingleUntilRefused, Phases, Resolving, history
<1>6. KnownIds'
  BY EntryFacts, ReplyFacts DEF IInv, Answer, TypeOK, Locals, KnownIds, Phases,
     Resolving, history
<1>7. TokensInScope'
  BY EntryFacts, ReplyFacts DEF IInv, Answer, TypeOK, KnownIds, TokensInScope,
     history
<1>8. QED
  BY <1>1, <1>2, <1>3, <1>4, <1>5, <1>6, <1>7 DEF IInv

LEMMA ExpireStep ==
    ASSUME NEW k \in Keys, IInv, Expire(k)
    PROVE  IInv'
<1>1. TypeOK'
  BY EntryFacts, ReplyFacts DEF IInv, Expire, TypeOK, Locals, Phases, Resolving,
     history, local
<1>2. Locals'
  BY EntryFacts, ReplyFacts DEF IInv, Expire, TypeOK, Locals, Phases, Resolving,
     history, local
<1>3. NoOrphanMarker'
  BY EntryFacts DEF IInv, Expire, TypeOK, Locals, NoOrphanMarker, Phases, Resolving,
     history, local
<1>4. WaitersCovered'
  BY EntryFacts DEF IInv, Expire, TypeOK, Locals, NoOrphanMarker, WaitersCovered,
     Phases, Resolving, history, local
<1>5. OwnMarker'
  BY EntryFacts, OwnMarkerUnique DEF IInv, Expire, TypeOK, Locals, OwnMarker,
     SingleUntilRefused, Phases, Resolving, history, local
<1>6. KnownIds'
  BY EntryFacts, ReplyFacts DEF IInv, Expire, TypeOK, Locals, KnownIds, Phases,
     Resolving, history, local
<1>7. TokensInScope'
  BY EntryFacts, ReplyFacts DEF IInv, Expire, TypeOK, KnownIds, TokensInScope,
     history, local
<1>8. QED
  BY <1>1, <1>2, <1>3, <1>4, <1>5, <1>6, <1>7 DEF IInv

LEMMA DeleteStep ==
    ASSUME NEW k \in Keys, IInv, Delete(k)
    PROVE  IInv'
<1>1. TypeOK'
  BY EntryFacts, ReplyFacts DEF IInv, Delete, TypeOK, Locals, Phases, Resolving,
     history, local
<1>2. Locals'
  BY EntryFacts, ReplyFacts DEF IInv, Delete, TypeOK, Locals, Phases, Resolving,
     history, local
<1>3. NoOrphanMarker'
  BY EntryFacts DEF IInv, Delete, TypeOK, Locals, NoOrphanMarker, Phases, Resolving,
     history, local
<1>4. WaitersCovered'
  BY EntryFacts DEF IInv, Delete, TypeOK, Locals, NoOrphanMarker, WaitersCovered,
     Phases, Resolving, history, local
<1>5. OwnMarker'
  BY EntryFacts, OwnMarkerUnique DEF IInv, Delete, TypeOK, Locals, OwnMarker,
     SingleUntilRefused, Phases, Resolving, history, local
<1>6. KnownIds'
  BY EntryFacts, ReplyFacts DEF IInv, Delete, TypeOK, Locals, KnownIds, Phases,
     Resolving, history, local
<1>7. TokensInScope'
  BY EntryFacts, ReplyFacts DEF IInv, Delete, TypeOK, KnownIds, TokensInScope,
     history, local
<1>8. QED
  BY <1>1, <1>2, <1>3, <1>4, <1>5, <1>6, <1>7 DEF IInv

LEMMA CreateStep ==
    ASSUME NEW k \in Keys, NEW i \in Ids, IInv, Create(k, i)
    PROVE  IInv'
<1>1. TypeOK'
  BY EntryFacts, ReplyFacts DEF IInv, Create, TypeOK, Locals, Phases, Resolving,
     local
<1>2. Locals'
  BY EntryFacts, ReplyFacts DEF IInv, Create, TypeOK, Locals, Phases, Resolving,
     local
<1>3. NoOrphanMarker'
  BY EntryFacts DEF IInv, Create, TypeOK, Locals, NoOrphanMarker, Phases, Resolving,
     local
<1>4. WaitersCovered'
  BY EntryFacts DEF IInv, Create, TypeOK, Locals, NoOrphanMarker, WaitersCovered,
     Phases, Resolving, local
<1>5. OwnMarker'
  BY EntryFacts, OwnMarkerUnique DEF IInv, Create, TypeOK, Locals, OwnMarker,
     SingleUntilRefused, Phases, Resolving, local
<1>6. KnownIds'
  BY EntryFacts, ReplyFacts DEF IInv, Create, TypeOK, Locals, KnownIds, Phases,
     Resolving, local
<1>7. TokensInScope'
  BY EntryFacts, ReplyFacts DEF IInv, Create, TypeOK, KnownIds, TokensInScope, local
<1>8. QED
  BY <1>1, <1>2, <1>3, <1>4, <1>5, <1>6, <1>7 DEF IInv

LEMMA NextIInv == IInv /\ [Next]_vars => IInv'
<1> SUFFICES ASSUME IInv, [Next]_vars PROVE IInv'
  OBVIOUS
<1>1. ASSUME NEW c \in Callers, NEW k \in Keys, Start(c, k) PROVE IInv'
  BY <1>1, StartStep
<1>2. ASSUME NEW c \in Callers, Reclaim(c) \/ Progress(c) \/ Drop(c) \/ Answer(c) PROVE IInv'
  BY <1>2, ReclaimStep, MetadataDoneStep, MetadataFailsStep, LookupDoneStep, CleanupDoneStep,
     MintDoneStep, MintNotFoundStep, MintFailsStep, DropStep, AnswerStep DEF Progress
<1>3. ASSUME NEW k \in Keys, Expire(k) \/ Delete(k) PROVE IInv'
  BY <1>3, ExpireStep, DeleteStep
<1>4. ASSUME NEW k \in Keys, NEW i \in Ids, Create(k, i) PROVE IInv'
  BY <1>4, CreateStep
<1>5. CASE UNCHANGED vars
  BY <1>5 DEF vars, local, history, IInv, TypeOK, Locals, NoOrphanMarker, WaitersCovered,
              OwnMarker, KnownIds, TokensInScope
<1>6. QED
  BY <1>1, <1>2, <1>3, <1>4, <1>5 DEF Next

LEMMA Invariant == Spec => []IInv
  BY InitIInv, NextIInv, PTL DEF Spec

-----------------------------------------------------------------------------
(* The theorems.                                                             *)

\* Spec keeps the types; in particular a metadata token is held exactly between
\* mint_metadata_token and the end of revoke_install_token.
THEOREM MintTypeCorrect == Spec => []TypeOK
<1>1. IInv => TypeOK
  BY DEF IInv
<1>2. QED
  BY <1>1, Invariant, PTL

\* The in-flight marker of SingleflightCache cannot leak, whatever fails, is
\* dropped or is invalidated.
THEOREM MarkerNeverLeaks == Spec => []NoOrphanMarker
<1>1. IInv => NoOrphanMarker
  BY DEF IInv
<1>2. QED
  BY <1>1, Invariant, PTL

\* A caller that waits for a resolve always waits for one that is under way.
THEOREM NoLostWaiter == Spec => []WaitersCovered
<1>1. IInv => WaitersCovered
  BY DEF IInv
<1>2. QED
  BY <1>1, Invariant, PTL

\* Resolves are single-flight per path up to the first RepoNotFound.
THEOREM SingleFlight == Spec => []SingleUntilRefused
<1>1. IInv => SingleUntilRefused
  BY OwnMarkerUnique DEF IInv
<1>2. QED
  BY <1>1, Invariant, PTL

\* No path is ever given a token for a repository that never had that path.
THEOREM TokensStayInScope == Spec => []TokensInScope
<1>1. IInv => TokensInScope
  BY DEF IInv
<1>2. QED
  BY <1>1, Invariant, PTL
=============================================================================
