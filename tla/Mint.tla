-------------------------------- MODULE Mint --------------------------------
(***************************************************************************)
(* GitHubProvider::mint with the two caches it goes through: repo_ids (the *)
(* SingleflightCache) and token_cache.  Connections run concurrently on    *)
(* one thread, so everything between two awaits is one step; the awaits    *)
(* are the provider's HTTPS calls, the waits for another caller's resolve, *)
(* and the connection timeout may drop a caller at any of them.            *)
(*                                                                         *)
(* A token is represented by the repository id it is scoped to.  The       *)
(* provider decides on a call at one moment (Answer) and the daemon sees   *)
(* the outcome at a later one.                                             *)
(***************************************************************************)
EXTENDS FiniteSets

CONSTANTS Callers,   \* connections, wire or admin, that call mint
          Keys,      \* lower-cased owner/repo paths
          Ids,       \* repository ids; a re-created repository gets a new one
          NoId,      \* no repository, no token, not found
          NoKey      \* the path of a caller that is not minting

ASSUME NoIdAssumption == NoId \notin Ids
ASSUME NoKeyAssumption == NoKey \notin Keys

VARIABLES
    repo,     \* the provider's own table (external): path -> repository id
    store,    \* SingleflightCache: path -> nothing, a memo or an in-flight marker
    tokens,   \* token_cache: path -> the token held for it, or NoId
    pc,       \* what each caller awaits
    want,     \* the path each caller mints for
    ev,       \* the caller whose completion event a waiter listens to
    id,       \* the repository id a caller has resolved, or NoId if it failed
    reply,    \* the provider's decision on the call a caller has in flight
    scratch,  \* callers that hold a metadata-only installation token
    \* history, read by properties only
    named,    \* every <<path, id>> there has been at the provider
    refused   \* paths for which a mint came back RepoNotFound

local == <<pc, want, ev, id, reply, scratch>>
history == <<named, refused>>
vars == <<repo, store, tokens, local, history>>

-----------------------------------------------------------------------------
Phases == {"idle", "wait", "woken", "metadata", "lookup", "cleanup", "mint"}
Resolving == {"metadata", "lookup", "cleanup"}     \* inside InFlightGuard's scope

Unanswered == [kind |-> "unanswered"]
NotFound == [kind |-> "not_found"]
Found(i) == [kind |-> "found", id |-> i]
Replies == {Unanswered, NotFound} \cup {Found(i) : i \in Ids}

Nothing == [kind |-> "none"]
Memo(i) == [kind |-> "memo", id |-> i]
\* The marker holds the completion event of its resolver.  A caller owns one
\* event at a time and notifying it empties its listeners, so the caller's name
\* names the event.
InFlight(c) == [kind |-> "inflight", by |-> c]
Entries == {Nothing} \cup {Memo(i) : i \in Ids} \cup {InFlight(c) : c \in Callers}

Init ==
    /\ repo = [k \in Keys |-> NoId]
    /\ store = [k \in Keys |-> Nothing]
    /\ tokens = [k \in Keys |-> NoId]
    /\ pc = [c \in Callers |-> "idle"]
    /\ want = [c \in Callers |-> NoKey]
    /\ ev = [c \in Callers |-> c]
    /\ id = [c \in Callers |-> NoId]
    /\ reply = [c \in Callers |-> Unanswered]
    /\ scratch = {}
    /\ named = {}
    /\ refused = {}

-----------------------------------------------------------------------------
(* SingleflightCache.                                                        *)

\* claim, with what its caller `with` does at once with the outcome: Hit goes on
\* to mint_token, Wait listens, Resolve starts with_metadata_token.
Claim(c, k) ==
    \/ /\ store[k].kind = "memo"
       /\ id' = [id EXCEPT ![c] = store[k].id]
       /\ pc' = [pc EXCEPT ![c] = "mint"]
       /\ ev' = [ev EXCEPT ![c] = c]
       /\ UNCHANGED store
    \/ /\ store[k].kind = "inflight"
       /\ ev' = [ev EXCEPT ![c] = store[k].by]
       /\ pc' = [pc EXCEPT ![c] = "wait"]
       /\ UNCHANGED <<store, id>>
    \/ /\ store[k].kind = "none"
       /\ store' = [store EXCEPT ![k] = InFlight(c)]
       /\ pc' = [pc EXCEPT ![c] = "metadata"]
       /\ ev' = [ev EXCEPT ![c] = c]
       /\ UNCHANGED id

\* Faulty variant: one listener is woken, as AsyncFlag::wait would do.
NotifyOne(c, next) ==
    LET waiters == {w \in Callers : pc[w] = "wait" /\ ev[w] = c} IN
    IF waiters = {}
    THEN pc' = [pc EXCEPT ![c] = next]
    ELSE \E w \in waiters : pc' = [pc EXCEPT ![c] = next, ![w] = "woken"]

\* event.notify(usize::MAX): every listener of c's event will look again, and c
\* itself goes on to next.
Notify(c, next) ==
    pc' = [w \in Callers |->
              IF w = c THEN next
              ELSE IF pc[w] = "wait" /\ ev[w] = c THEN "woken"
              ELSE pc[w]]

\* InFlightGuard::drop after commit_done.
ReleaseDone(c, next) ==
    /\ store' = [store EXCEPT ![want[c]] = Memo(id[c])]
    /\ Notify(c, next)

\* Faulty variant: waiters are woken but the marker stays.
ReleaseFailedKeepsMarker(c) ==
    /\ UNCHANGED store
    /\ Notify(c, "idle")

\* InFlightGuard::drop without commit_done: whatever the entry is now, it goes.
ReleaseFailed(c) ==
    /\ store' = [store EXCEPT ![want[c]] = Nothing]
    /\ Notify(c, "idle")

-----------------------------------------------------------------------------
(* mint, one action per await that it returns from.                          *)

\* mint's local variables, gone when it returns or is dropped.
Forget(c) ==
    /\ want' = [want EXCEPT ![c] = NoKey]
    /\ ev' = [ev EXCEPT ![c] = c]
    /\ id' = [id EXCEPT ![c] = NoId]
    /\ reply' = [reply EXCEPT ![c] = Unanswered]

\* A cached token is served without a call; otherwise the path is claimed.
Start(c, k) ==
    /\ pc[c] = "idle"
    /\ \/ tokens[k] # NoId /\ UNCHANGED <<store, pc, want, ev, id>>
       \/ /\ tokens[k] = NoId
          /\ want' = [want EXCEPT ![c] = k]
          /\ Claim(c, k)
    /\ UNCHANGED <<repo, tokens, reply, scratch, history>>

\* A woken waiter claims again; it does not look at token_cache again.
Reclaim(c) ==
    /\ pc[c] = "woken"
    /\ Claim(c, want[c])
    /\ UNCHANGED <<repo, tokens, want, reply, scratch, history>>

MetadataDone(c) ==
    /\ pc[c] = "metadata"
    /\ scratch' = scratch \cup {c}
    /\ pc' = [pc EXCEPT ![c] = "lookup"]
    /\ UNCHANGED <<repo, store, tokens, want, ev, id, reply, history>>

\* mint_metadata_token fails: with_metadata_token has nothing to clean up.
MetadataFails(c) ==
    /\ pc[c] = "metadata"
    /\ ReleaseFailed(c)
    /\ Forget(c)
    /\ UNCHANGED <<repo, tokens, scratch, history>>

\* Faulty variant: an error returns between the use and the revoke.
LookupSkipsCleanup(c) ==
    /\ pc[c] = "lookup"
    /\ \/ /\ reply[c].kind = "found"
          /\ id' = [id EXCEPT ![c] = reply[c].id]
          /\ pc' = [pc EXCEPT ![c] = "cleanup"]
          /\ reply' = [reply EXCEPT ![c] = Unanswered]
          /\ UNCHANGED <<store, want, ev>>
       \/ ReleaseFailed(c) /\ Forget(c)
    /\ UNCHANGED <<repo, tokens, scratch, history>>

\* resolve_repo_id returns, with an id or with an error (404, another status, a
\* transport error, run_call's timeout, shutdown); the revoke of the metadata
\* token starts either way.
LookupDone(c) ==
    /\ pc[c] = "lookup"
    /\ \/ /\ reply[c].kind = "found"
          /\ id' = [id EXCEPT ![c] = reply[c].id]
       \/ id' = [id EXCEPT ![c] = NoId]
    /\ pc' = [pc EXCEPT ![c] = "cleanup"]
    /\ reply' = [reply EXCEPT ![c] = Unanswered]
    /\ UNCHANGED <<repo, store, tokens, want, ev, scratch, history>>

\* revoke_install_token returns and its result is ignored; the resolve ends.
CleanupDone(c) ==
    /\ pc[c] = "cleanup"
    /\ scratch' = scratch \ {c}
    /\ \/ /\ id[c] # NoId
          /\ ReleaseDone(c, "mint")
          /\ UNCHANGED <<want, ev, id, reply>>
       \/ /\ id[c] = NoId
          /\ ReleaseFailed(c)
          /\ Forget(c)
    /\ UNCHANGED <<repo, tokens, history>>

\* Faulty variant: the new token is cached for every path that has none.
MintDoneAnyPath(c) ==
    /\ pc[c] = "mint"
    /\ reply[c].kind = "found"
    /\ tokens' = [k \in Keys |-> IF tokens[k] = NoId THEN reply[c].id ELSE tokens[k]]
    /\ pc' = [pc EXCEPT ![c] = "idle"]
    /\ Forget(c)
    /\ UNCHANGED <<repo, store, scratch, history>>

\* mint_token succeeds: the token is cached and returned.
MintDone(c) ==
    /\ pc[c] = "mint"
    /\ reply[c].kind = "found"
    /\ tokens' = [tokens EXCEPT ![want[c]] = reply[c].id]
    /\ pc' = [pc EXCEPT ![c] = "idle"]
    /\ Forget(c)
    /\ UNCHANGED <<repo, store, scratch, history>>

\* mint_token answers 404: SingleflightCache::invalidate drops whatever entry
\* the path has now, and TtlCache::invalidate drops its token.
MintNotFound(c) ==
    /\ pc[c] = "mint"
    /\ reply[c].kind = "not_found"
    /\ store' = [store EXCEPT ![want[c]] = Nothing]
    /\ tokens' = [tokens EXCEPT ![want[c]] = NoId]
    /\ pc' = [pc EXCEPT ![c] = "idle"]
    /\ refused' = refused \cup {want[c]}
    /\ Forget(c)
    /\ UNCHANGED <<repo, scratch, named>>

\* mint_token fails in any other way, whatever the provider decided.
MintFails(c) ==
    /\ pc[c] = "mint"
    /\ pc' = [pc EXCEPT ![c] = "idle"]
    /\ Forget(c)
    /\ UNCHANGED <<repo, store, tokens, scratch, history>>

\* Faulty variant: a dropped waiter releases the claim that it never had.
DropReleasesAlways(c) ==
    /\ pc[c] # "idle"
    /\ ReleaseFailed(c)
    /\ scratch' = scratch \ {c}
    /\ Forget(c)
    /\ UNCHANGED <<repo, tokens, history>>

\* The connection's timeout drops the caller's future at whatever it awaits.  A
\* resolver's guard releases the claim; nothing revokes its metadata token.
Drop(c) ==
    /\ pc[c] # "idle"
    /\ IF pc[c] \in Resolving
       THEN ReleaseFailed(c)
       ELSE /\ pc' = [pc EXCEPT ![c] = "idle"]
            /\ UNCHANGED store
    /\ scratch' = scratch \ {c}
    /\ Forget(c)
    /\ UNCHANGED <<repo, tokens, history>>

\* A cached token reaches its expiry and is swept.
Expire(k) ==
    /\ tokens[k] # NoId
    /\ tokens' = [tokens EXCEPT ![k] = NoId]
    /\ UNCHANGED <<repo, store, local, history>>

-----------------------------------------------------------------------------
(* The provider (external).                                                  *)

\* A lookup by path sees the repository of that path; a mint by id is refused
\* when no repository has that id any more.
Answer(c) ==
    /\ reply[c] = Unanswered
    /\ \/ /\ pc[c] = "lookup"
          /\ LET i == repo[want[c]] IN
             reply' = [reply EXCEPT ![c] = IF i = NoId THEN NotFound ELSE Found(i)]
       \/ /\ pc[c] = "mint"
          /\ LET live == \E k \in Keys : repo[k] = id[c] IN
             reply' = [reply EXCEPT ![c] = IF live THEN Found(id[c]) ELSE NotFound]
    /\ UNCHANGED <<repo, store, tokens, pc, want, ev, id, scratch, history>>

Delete(k) ==
    /\ repo[k] # NoId
    /\ repo' = [repo EXCEPT ![k] = NoId]
    /\ UNCHANGED <<store, tokens, local, history>>

Create(k, i) ==
    /\ repo[k] = NoId
    /\ \A l \in Keys : <<l, i>> \notin named
    /\ repo' = [repo EXCEPT ![k] = i]
    /\ named' = named \cup {<<k, i>>}
    /\ UNCHANGED <<store, tokens, local, refused>>

-----------------------------------------------------------------------------
\* The steps of a caller that is waiting for the provider.
Progress(c) ==
    \/ MetadataDone(c)
    \/ MetadataFails(c)
    \/ LookupDone(c)
    \/ CleanupDone(c)
    \/ MintDone(c)
    \/ MintNotFound(c)
    \/ MintFails(c)

Next ==
    \/ \E c \in Callers, k \in Keys : Start(c, k)
    \/ \E c \in Callers : Reclaim(c) \/ Progress(c) \/ Drop(c) \/ Answer(c)
    \/ \E k \in Keys : Expire(k) \/ Delete(k)
    \/ \E k \in Keys, i \in Ids : Create(k, i)

Spec == Init /\ [][Next]_vars

\* run_call's timeout ends every provider call.  Nothing is assumed of the
\* connection timeout: a waiter has to be woken, not dropped.
FairSpec == Spec /\ \A c \in Callers : WF_vars(Progress(c))

(***************************************************************************)
(* Properties                                                              *)
(***************************************************************************)

\* Every variable has its type; the callers that hold a metadata token are those
\* between mint_metadata_token and the end of the revoke call.
TypeOK ==
    /\ repo \in [Keys -> Ids \cup {NoId}]
    /\ store \in [Keys -> Entries]
    /\ tokens \in [Keys -> Ids \cup {NoId}]
    /\ pc \in [Callers -> Phases]
    /\ want \in [Callers -> Keys \cup {NoKey}]
    /\ ev \in [Callers -> Callers]
    /\ id \in [Callers -> Ids \cup {NoId}]
    /\ reply \in [Callers -> Replies]
    /\ scratch \in SUBSET Callers
    /\ named \in SUBSET (Keys \X Ids)
    /\ refused \in SUBSET Keys
    /\ \A c \in Callers : c \in scratch <=> pc[c] \in {"lookup", "cleanup"}

\* "A panic, ?-propagation, or async cancellation between claim and outcome
\* cannot leak the in-flight marker": a marker in the SingleflightCache always
\* belongs to a caller that is resolving that very path now.
NoOrphanMarker ==
    \A k \in Keys : store[k].kind = "inflight" =>
        /\ pc[store[k].by] \in Resolving
        /\ want[store[k].by] = k

\* A waiter is never left behind: the event it listens to belongs to a caller
\* that is still resolving the waiter's path, even when the marker that led it
\* there has been invalidated or replaced since.
WaitersCovered ==
    \A w \in Callers : pc[w] = "wait" =>
        /\ pc[ev[w]] \in Resolving
        /\ want[ev[w]] = want[w]

\* As long as no mint of a path came back RepoNotFound, the path has at most one
\* resolve in flight, however callers fail and are dropped.
SingleUntilRefused ==
    \A c, d \in Callers :
        /\ pc[c] \in Resolving /\ pc[d] \in Resolving
        /\ want[c] = want[d] /\ want[c] \notin refused
        => c = d

\* A caller asking for a path is only ever given a token scoped to a repository
\* that had that path: neither cache mixes paths, whoever resolved for whom.
TokensInScope ==
    \A k \in Keys : tokens[k] # NoId => <<k, tokens[k]>> \in named

\* Every caller waiting for another's resolve is woken, with no help from the
\* connection timeout.
WaitersWoken == \A c \in Callers : pc[c] = "wait" ~> pc[c] # "wait"
=============================================================================
