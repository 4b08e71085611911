# A verification project for symbolon

symbolon is a credential broker. A daemon holds a GitHub App's signing key;
enrolled clients reach it over a Noise-encrypted stream and ask for a
short-lived, single-repository token, in the format `git credential` speaks. An
operator enrolls and revokes clients over a local admin socket. The daemon runs
on one thread: tasks interleave only where they `await`, and any task may be
dropped at an `await` by its timeout.

This directory holds TLA+ modules translated from the code, TLC configurations
that check them on small instances, and TLAPS proofs for every value of the
constants. `PROJECT.json` maps every definition to the lines it stands for.

## Running it

    tlc -workers 2 -config Enrollment.cfg MCEnrollment     # one run
    tlapm EnrollmentProofs.tla                             # one proof module

The runs and what to expect of each are listed in `PROJECT.json` under `runs`
and below under "Runs". Three of them are expected to report a violation.

## Inventory

| Component | State it keeps | Operations | Interacts with |
|---|---|---|---|
| Roster (`daemon.rs`, `atomic_fs.rs`, `psk.rs`) | `SharedState.clients`, `.psks`, `mutation_lock`, `clients.json`, the psks file | `enroll_client`, `revoke_client`, `Acquired::acquire` | admin handlers call it; the wire path reads it at the handshake |
| Repository-id cache (`singleflight_cache.rs`) | key → memo or in-flight marker with its event | `with` (claim, wait, resolve, guard drop), `invalidate` | used by every `mint` |
| GitHub provider (`providers/github.rs`) | the two caches, a metadata token while resolving | `mint`, `with_metadata_token`, `selfcheck` | HTTPS calls to the provider, the signer, both caches |
| Token cache (`ttl_cache.rs`) | hash map, heap of deadlines | `get_with_expiry`, `insert`, `invalidate` | used by every `mint` |
| Log limiter (`rate_limit.rs`) | `tat`, `suppressed` | `try_acquire` | the connection handler, on an unknown identity |
| Wire session (`transport.rs`) | responder and initiator states | `step`, `recv`, `set_psk`, `wrote`, `set_response` | driven by the connection handler and by the helper |
| Connection handler (`daemon.rs`) | one session | `handle_connection` | roster, limiter, provider, session |
| Service lifecycle (`daemon.rs`, `connection_tracker.rs`, `signals.rs`, `main.rs`) | active count and event, shutdown flag and wakers | accept loops, `spawn`, `drain`, signal watcher, exit | owns every handler |
| Signing backends (`providers/agent_backend.rs`, `tpm_backend.rs`, `agent.rs`, `agent_protocol.rs`) | an actor thread, its job queue, one reply channel per job, the agent process or the device | `sign`, `self_check`, drop; the agent's `lock_down` and `serve_loop` | called by the provider for each JWT and once at startup |
| Startup (`main.rs`, `daemon.rs`, `sandbox.rs`, `mlock.rs`, `ready.rs`, `config.rs`, `loader.rs`) | the phase it is in, what the sandbox grants, readiness, the pidfile | `run_daemon`, `prepare` (acquire, gate, seal), `selfcheck`, `notify` | constructs, checks and finally drops the backend; hands over to the lifecycle |
| git-credential codec (`git_credential.rs`) | none between calls | `Request::parse`, `Response::new`, `encode` | handler and helper |
| Admin protocol and CLI | none | JSON framing, read-only operations | roster, provider |
| Names, notes, keys | none | validation of single values | admin protocol, startup, helper |
| Helper binary | one session | get, capability, store, erase | git, initiator, codec |
| JWT and TPM wire formats | none | encode, decode | signer |
| Logging, identifiers, events | none | formatting | everything |

What is hard about each of the stateful ones, and what makes it correct:

* **Roster.** An operation is two file writes and two in-memory changes, with an
  await at every write. A write may fail before or after its rename, the handler
  may be dropped by its 10 s timeout, the process may die, the power may fail
  after a rename that no directory fsync has followed. Correct means: what was
  acknowledged is what a restart brings back; a revoked key is gone; operations
  do not disturb clients they are not about; the lock is not left behind.
* **Repository-id cache.** Callers wait for each other. A resolver may fail, be
  dropped, or have its marker removed by another caller's `invalidate`. Correct
  means: no marker without a resolver, no waiter without somebody to wake it, one
  resolve per path, no answer for another path.
* **Provider.** Answers arrive after the world has changed (a repository deleted
  and re-created), and the connection timeout (5 s) is shorter than the request
  timeout (10 s by default). Correct means: a token handed out for a path is scoped
  to a repository that had this path, and the metadata token is revoked.
* **Token cache.** Tombstones in the heap, and a wall clock that may go back.
  Correct means: never an expired token, and nothing evicted before its time.
* **Log limiter.** Boundaries of the arithmetic. Correct means: bounded rate,
  no needless suppression, an honest count.
* **Session, handler.** Frames may be replayed on another connection, corrupted or
  cut, and the roster changes between accept and handshake. Correct means: the
  drivers never call a method out of order, a mint is made only for the helper run
  that asked for it on this connection, with a key that was listed, a helper
  prints only the answer to its own request, and a session with a substitute key gets
  nothing through.
* **Lifecycle.** A signal between any two instructions of the watcher, the last
  handler racing the drain, accept errors, the error path of `main`. Correct means:
  no signal and no handler's end is missed, the drain's report is honest, and a
  signal ends the process.
* **Signing.** Requests and responses are paired by nothing but their order, callers
  are dropped with their jobs in the queue, the thread or the agent dies with jobs
  behind it, and three parties wait for each other at the end: the main thread for
  the actor thread, that one for the agent, the agent for an end of file. Correct
  means: an answer goes to the call it is for, no caller waits on a dead backend, no
  signature without its audit line, and neither daemon nor agent outlives the other.
* **Startup.** Every step is on one side of the sandbox gate, a mistake shows only on
  hosts that enforce it, and a signal or a fault may come between any two steps.
  Correct means: `READY=1` is earned, and startup fails only for a reason outside
  the daemon.
* **Codec.** The order, repetition and reset of lines decide what is minted for.
  Correct means: exactly the well-formed requests are accepted and read as git wrote
  them, and git reads back the token that was minted, or nothing.

`PROJECT.json` lists these under `hazards`, each at its line, with the properties
that cover it or the reason why none does.

## Modules

| Module | Models | Kind |
|---|---|---|
| `Roster` | what the roster promises, without files or locks | abstract specification |
| `Enrollment` | the roster, its files, the lock, its failures | component |
| `Tables` | the roster's two tables in memory, as the wire path sees them change | abstract specification |
| `EnrollmentProofs` | | proofs |
| `Mint` | the singleflight cache, `mint`, the provider's answers | two components composed |
| `MintProofs` | | proofs |
| `ExpiringMap` | a map that forgets exactly the expired entries | abstract specification |
| `TtlCache` | the map, the heap, the clock | component |
| `TtlCacheProofs` | | proofs |
| `TokenBucket` | the limiter | component |
| `TokenBucketProofs` | | proofs |
| `Session` | `Responder` in `handle_connection`, `Initiator` in the helper, the network, the roster they read | four components composed |
| `SessionProofs` | | proofs |
| `Lifecycle` | accept loops, trackers, signal watcher, `run` and `main` | four components composed |
| `LifecycleProofs` | | proofs |
| `Signing` | a signing backend: callers, actor thread, agent process or TPM | component, without a next-state relation of its own |
| `Startup` | `run_daemon` and `prepare` around `Signing` | two components composed |
| `StartupProofs` | | proofs |
| `Credential` | one invocation of the helper, from the lines git writes to the block it reads | three components composed: helper, codec, dispatch |
| `CredentialProofs` | | proofs |
| `MCEnrollment`, `MCMint`, `MCTtlCache`, `MCSession`, `MCLifecycle`, `MCStartup`, `MCCredential` | finite sets for TLC | model-checking |

Operators whose comment begins with "Faulty variant" are not part of any
specification. Each is a plausible mistake in the definition that follows it; the
properties are validated by putting the variant in that definition's place and
seeing TLC report the violation (`mutants` in `PROJECT.json`).

### Enrollment

State: `clients` and `psks` are the two in-memory tables, `lock` is
`mutation_lock`, `pc` and `job` say where each admin handler is and what it was
asked, `pskBuf` and `clientsBuf` are the rendered contents it is writing. A file
has two contents: `seen`, which a read returns, and `synced`, which survives a
power failure. The remaining variables are history.

Actions: `SubmitEnroll` and `SubmitRevoke` are the arrival of a request.
`Refuse`, `EnrollBegin` and `RevokeBegin` are the code from the lock to the first
await. `RenamePsks`, `SyncPsks`, `RenameClients` and `SyncClients` are the two
halves of `atomic_write` together with what the caller does when it returns:
`enroll_client` writes psks then clients, `revoke_client` clients then psks, and
the last one changes memory and answers. `WriteFails` is an `Err` from
`atomic_write` at either half, `Timeout` is the drop of the handler's future; both
run the `Rollback` guard, which only enroll has. `Crash`, `PowerLoss` and `Start`
lose memory, lose unsynced renames (in each file independently) and read both
files back. `Authorised` is the wire path's rule: a key *and* metadata.

Abstractions. Client metadata (providers, note, time) decides nothing and is left
out; in particular the refusal of an unknown provider happens before the lock is
taken. A key is any member of `Keys`: the CLI draws one or is given one (`--psk`), and
the daemon takes what it is sent, so a key may be used again after a revoke and two
clients may have the same one. The psks file is a set of lines: `Render` and `Parse` convert, they are not the
identity. A temporary file that was never renamed is invisible. Creating the
temporary file, writing and syncing it are one step with the rename, since nobody
else looks at it.

Assumption. A rename submitted to the kernel when its handler is dropped takes
effect at that moment or never. If the runtime lets it complete later, after the
lock has passed on, it could overwrite a newer file; that is a property of the
runtime, not of this code.

### Mint

State: `store` is `SingleflightCache` (nothing, a memo or an in-flight marker per
path), `tokens` is the token cache, `pc` is what each connection awaits, `ev` is
the event a waiter listens to, `scratch` is who holds a metadata token, `repo` is
the provider's own table, and `reply` its decision on a call before the daemon has
seen it. That last one lets a repository vanish between decision and return.

Actions: `Start` looks in the token cache and claims, `Reclaim` is a woken waiter
going round `with`'s loop, `MetadataDone`/`MetadataFails`, `LookupDone`,
`CleanupDone`, `MintDone`, `MintNotFound` and `MintFails` are the returns of the
four HTTPS calls with everything the code does up to its next await, `Drop` is the
connection timeout at any of them, and `Answer`, `Delete`, `Create` are the
provider (external). `Expire` is an entry's end in the token cache, whose
mechanism is `TtlCache`.

Abstractions. A token is the repository id it is scoped to. A caller owns one
completion event at a time, so its name names the event. JWT signing is part of
each call, which may fail for any reason, signing included. The path is the
lower-cased key the code uses, so two spellings of a repository are one key.

### TtlCache and ExpiringMap

Each public operation is an action and begins with `sweep`, except `invalidate`,
which the code does not sweep in. The heap is a set: `sweep` pops equal deadlines
together and a duplicate adds nothing. `SetClock` moves the clock in either
direction because the provider passes `SystemTime::now`.

### TokenBucket

`Accept` and `Suppress` are the two results of `try_acquire`, `Tick` is the clock.
The tolerance is computed from the burst, as `daemon.rs` does. Saturation of the
suppressed counter at 2^64 - 1 is ignored.

### Session

State: `conn` and `helper` are the `Responder` of each connection and the
`Initiator` of each helper run, `name` is `handle_connection`'s `client_name`,
`psks` and `clients` are the roster's tables, `sent` is every frame that was ever
written. `listed` is history: the pairs of client and key that were authorised at
some moment between a connection's accept and its handshake.

The two machines' methods are operators from state to state (`RStep`, `RRecv`,
`RSetPsk`, `RWrote`, `RSetResponse`; `IStep`, `IRecv`, `IWrote`), each with the state
it expects; any other yields `"WrongState"`, which `TypeOK` excludes. An action is
what a driver does from one await to the next: `RecvMsg1` is a frame's arrival with
the roster lookup, the substitute key and `set_psk`; `RecvRequest` the decryption
and every early return before `provider.mint`; `MintReturns` its two outcomes;
`Wrote` the end of a write; `Drop` an end of stream, an error or the timeout.
`HelperWrote`, `HelperReads` and `HelperFails` are `drive`.

Abstractions. Cryptography is symbolic: a handshake is the two ephemerals, the
identity in message 1 and the key mixed into message 2, and a frame decrypts exactly
for who has the same handshake. An ephemeral is named after the connection or run
that draws it. `Decoy` is a key no helper holds; two substitute keys need
not be told apart since ephemerals already do. The network delivers any frame ever
sent, or junk, to anybody, any number of times, so it contains a network that
replays, reorders, crosses connections, corrupts or stays silent. A frame's length
and body are read by one action. Rejections of `parse_identity_tlv` are `Junk`;
a request that is over the cap, unparsable or for an unknown host is `Malformed`.

`Enroll`, `RemoveKey` and `RemoveClient` are the actions of `Tables`, in any order.
That `Enrollment`, with its files, locks and failures, changes the tables in no other
way while the daemon is up is a theorem (`EnrollmentProofs!RefinesTables`), so what is
shown of `Session` holds for the roster's actual behaviour. The tables start in any
state, because an earlier failure may have left a key without metadata or the reverse.
A restart ends every connection and is the beginning of another `Session`.

`MintsAgree` also says that no two connections mint for one helper run: a replayed
or crossed request never becomes a second mint.

### Lifecycle

State: `main` is where `run_daemon` is, `loop` where each accept loop is, `active`
is each tracker's counter next to `running`, the handlers there really are. `heard`
is the listener of `drain`, `complete` its result, `shutdown` the cancel token.
`pending`, `set` and `waker` are the atomics of `signals.rs`, `woken` says that the
runtime will poll the watcher, `watcher` and `handling` are where the watcher and
each signal's handler are.

Tasks share a thread, so an action is what a task does between two awaits. Only a
signal may be handled between any two instructions, so the watcher's loop,
`Notified::poll` and the signal handlers are cut at each atomic operation. `Break`
and `Resume` run a round of `drain`'s loop; `Resume` may find the deadline passed,
`DrainDeadline` is the timeout around the listener. `HandlerEnds` is a handler's
return, panic or timeout, which drop its token. When `run` fails it drops the admin
loop's `JoinHandle`; whether that cancels the loop is the runtime's business and both
are allowed.

`Service::prepare` and `selfcheck` are one step that succeeds or fails; `Startup` has
their steps. What a
handler does is in `Session` and `Enrollment`. The numbers in the shutdown log are
left out, except `drain_complete`.

### Signing

State: `queue` is the channel's jobs, `tx` says that the backend's sender exists,
`thread` and `job` where the actor thread is, `sock`, `toPeer` and `fromPeer` the
descriptor and the datagrams in it, `peer`, `rung` and `handling` the far end,
`audit` the agent's log. `call` and `got` are the one-shot of each call and what
was sent through it. A datagram names the call it belongs to, which the code's do
not: that is what `OwnAnswer` compares.

Actions: `Spawn` and `Start` are the two halves of construction, before and after
the gate. `Submit` is `round_trip` up to its await, `CallerGone` the drop of the
caller's future there. `ThreadSends`, `ThreadReceives` and their failures are the
thread's loop, `ThreadChannelClosed` its end when the sender is gone,
`ThreadEnds` `child.wait` and the drop of the receiver, which drops the one-shots of
the jobs still queued. `AgentRung` is one step of `lock_down`, `AgentTakes` and
`AgentReplies` are `serve_loop`, `AgentSeesClosed` its end. `DropBackend` is
`drop` up to its join, `ProcessEnds` what the kernel does when the daemon is gone.

The TPM is the same far end without a process: it serves from the start, may answer
with an error also to the self-check, logs nothing, and is never waited for. The
four commands' bytes, the claims and the error texts are left out. A socket buffer
is never full, as at most one datagram is in it.

### Startup

State: `setup` is what `config.toml` says together with the host it says it to,
`phase` and `code` where the main thread is and how it will end, `gate`, `granted`
and `confined` what Landlock enforces for the main thread, which directories it may
write to, and what the actor thread inherited. `shutdown` is the cancel token
together with the signal on its way to it (the way is `Lifecycle`). `fault` is
history: the environment has failed the daemon, or sent a signal.

There is one action per step of `run_daemon` and of `prepare`'s three phases.
`StepFails` is a step's failure for a reason the model does not have (a file that
cannot be read, a system call); `CancelPrepare` is the shutdown arm of
`prepare_with_listeners`, which wins at the awaits of `prepare_inner`; `Leave` is every
return of `run_daemon`, which drops the backend and joins its thread. Handlers' calls
of the backend are `Sign`; the rest of `run` is `Lifecycle`. Which read-only paths the
ruleset has is abstracted to the one that may be missing on a sound host, the psks
file; the name-service files and certificate directories are skipped when absent.

### Credential

State: `wrote` and `ending` are what git has written, line by line, `input` the same as
one block, `rest`, `slots` and `authtype` are the parser's local variables, `minted` the
`Response`, `stdout` and `exit` what git gets. Text is a sequence of tokens, one for
each byte or word that the code distinguishes (`=`, `/`, the line feed, carriage return,
NUL, bytes that are no UTF-8, `.git`) and ordinary words for the rest; lengths count
tokens.

Actions: `GitWrites` and `GitEnds` are git. `Main`, `Delivered` and `Fails` are the
helper; `Frame`, `ParseLine` and `ParseFields` are `Request::parse` before, in and after
its loop; `Dispatch` is the rest of `Step::Request`, with the provider's outcome;
`Responds` is `encode` and the way back. `WellFormed`, `Meant`, `Asked` and `Read` are the
reference the code is compared with: they are stated on the lines git wrote and on what
git's reader would see, not on the parser's state.

## Runs

| Run | Instance | Shows |
|---|---|---|
| `enrollment` | 2 clients, 2 keys, 2 handlers | `SettledDurable`, `RevokedKeysGone`, `ImplementsRoster`, `ImplementsTables` |
| `enrollment_resurrection` | same | **violation** of `NoResurrection` |
| `mint` | 3 callers, 2 paths, 2 ids | `NoOrphanMarker`, `WaitersCovered`, `SingleUntilRefused`, `TokensInScope` |
| `mint_waiters` | 3 callers, 1 path, 2 ids | `WaitersWoken` |
| `ttl_cache` | 2 keys, 2 values, instants 0..3 | `EveryEntryHasDeadline`, `NeverServesExpired`, `ImplementsMap` |
| `session` | 1 client, 2 keys, 2 connections, 2 helper runs, 2 repositories and a malformed request | `MintsAgree`, `AnswersAgree`, `DecoyUndecryptable`, `MintsListed` |
| `lifecycle` | 2 handlers per loop, both signals | `DrainHonest`, `DrainNotForgotten`, `SignalSeen`, `SignalEndsProcess` |
| `lifecycle_run_failed` | same | **violation** of `RunFailureReported` |
| `startup` | 2 calls of sign and the self-check; 44 combinations of configuration and host | `OwnAnswer`, `SignaturesAudited`, `NoForgottenCall`, `NoWaitCycle`, `ReadyEarned`, `FailsOnlyForCause`, `CallsEnd`, `AgentEnds`, `SignalEnds` |
| `startup_stalled` | same, with an agent on one host | **violation** of `SignalEnds` when the far end may hang |
| `credential` | 20 lines, requests of at most 5 of them, at most 1 odd; 4 endings, 4 tokens, 3 expiries | `ParsedAsWritten`, `ResponseAsMeant` |
| `token_bucket` | interval 2, burst 2, clock to 9, 8 events | `RateBounded`, `NoNeedlessSuppression`, `SuppressedAccounted` |

### The three disagreements with a run

Each of these runs states what a comment or a document says; TLC's trace shows the
code doing otherwise. `PROJECT.json` quotes the lines under `findings`.

1. *Resurrection.* `revoke_client` writes `clients.json` without the client and
   then fails on the psks file. The comment calls the remaining key harmless,
   because `clients.json` no longer has the identity. But the client is still in
   memory, so the next revoke of another client writes it back to `clients.json`, and a
   restart before that revoke has rewritten the psks file loads both halves. (An
   enroll writes the psks file first, and once that is done the key is gone.) The
   theorem `EnrollmentProofs!AckedRevokeHolds` marks where this ends: a revoke that
   answered `ok` is never undone, whatever fails later.
2. *A failed run is not reported.* `PROTOCOLS.md` has `main` emit `run_failed` when
   `Service::run` returns an error. `main` first awaits the signal watcher, so
   after an accept error it logs nothing and stays, without a wire listener, until
   somebody sends a signal.
3. *A SIGTERM during a hung key read.* `prepare_with_listeners` races preparation
   against shutdown for this very case. But the key is read by the agent, and the
   daemon waits for its Pong; the shutdown arm drops the backend, whose `drop` joins
   the thread that waits for the agent. The daemon ends only with the agent. With a
   far end that makes progress `SignalEnds` holds (`startup`).

### Other disagreements between code and text

These were met while modelling and need no state space to see.

* `daemon.rs:339` orders enroll's writes so that no known client is without a key. A
  failure after the rename of `clients.json`, followed by an operation on another
  client and a crash, produces one; so does a revoke that fails on its second write.
* `singleflight_cache.rs:95` says that `invalidate` does not touch singleflight state.
  It removes whatever the key has, an in-flight marker included. No waiter is lost by
  it (`WaitersCovered`), work is merely doubled, and it takes a 404
  (`SingleUntilRefused`).
* `github.rs:481` promises the revocation of the metadata token whatever happens to
  `work`. The revoke is a statement after an await; a connection dropped there, after
  5 s with a request timeout of 10 s, never makes the call.
* `daemon.rs:216` calls the psks file "ENOENT-tolerant: a fresh deployment starts with
  an empty roster". `apply_sandbox` lists it among the files it opens without regard
  to ENOENT (`daemon.rs:809`, `sandbox.rs:212`), so with the sandbox on a fresh
  deployment does not start. `FailsOnlyForCause` has it as a cause of its own.
* `config.rs:174` says the daemon "errors at startup if no provider is configured at
  all". `build_providers` returns an empty table and the daemon starts.
* `agent.rs:38` says that after an agent's error the daemon "exits non-zero in turn".
  That is so during the self-check only; later each call fails and the daemon stays.
* `tpm_backend.rs:122` says an error of the device is surfaced as `BackendDead`; it is
  `Io`, and only an empty read is `BackendDead`.
* The helper's comment on `capability` (`git_credential_symbolon.rs:76`) promises
  the `authtype=Bearer` shape; `Response::encode` never emits it, and says why.

### Bounds

*Enrollment.* Two handlers are what it takes to interleave; two clients are what it
takes for an operation on one to disturb the other; with two keys a client is
enrolled, revoked and enrolled again with a new key, with the old one, or with the
other client's. The instance is finite without other bounds: operations, crashes and
restarts are unlimited in number.

*Mint.* Three callers are a resolver, one that overtakes it and one that waits;
two ids let a repository be deleted and re-created once; two paths are what it
takes to mix them up. The liveness run has one path, since callers of different
paths do not wait for each other.

*TtlCache.* Four instants give an expiry before, at and after the clock and one
more to replace it with. The state space is finite without other bounds.

*TokenBucket.* Interval 2 makes the clock finer than the refill, burst 2 is the
smallest that is not a plain spacing, and the clock (`MaxTime`) lasts several
bursts.

*Session.* Two connections and two helper runs are what it takes to replay one
run's frames on another connection, or to cross two runs; two keys make a client
enrolled anew with another key while a connection is open; two repositories let an
answer be the wrong one. A second client is beyond TLC with the rest at two; the
identity travels inside the handshake like the key, and the proofs have
any number of clients.

*Lifecycle.* With two handlers a counter goes up and down without reaching zero.
Connections and signals are unlimited in number.

*Startup.* With two calls of `sign` one is in its round trip and one queued behind it,
while the self-check has been before both. The hosts are every combination
of backend, sandbox policy, what the kernel can enforce and whether the psks
file exists; the mlock policy follows the sandbox policy and the TPM's setups have no
pidfile, as neither choice meets the others. Contradictory configurations are
represented by those with both backends' keys.

*Credential.* Three lines make a request; a fourth and a fifth are what it takes to
repeat a field, to take a capability back and to grant it again. One odd line
(`MaxOdd`) at every place among the good ones covers each rejection alone; two
rejections in one request show nothing new, since the first ends the parse. Values
(`MaxValueBytes`) and blocks (`WireReadBudget`) are met exactly and exceeded by one.

Deadlock checking is off where the system really stops: in `token_bucket` the clock
and the events run out (`MaxTime`), in `session` connections and helper runs serve
one request each, in `credential` there is one invocation, and in `lifecycle`,
`startup` and `startup_stalled` the process exits.

Symmetry is used by `session`, over keys, connections, helper runs and
repositories, and by `enrollment`, over clients, keys and handlers. Nothing tells their
members apart, and the runs check invariants and safety refinements only. (`Parse`
has a `CHOOSE`, but a rendered table has one line for a client and so nothing to choose
from.)

### Fairness

* `Mint!FairSpec`: weak fairness of `Progress(c)`, the return of the provider call
  that a caller awaits, since `run_call` puts a timeout around every call. Nothing is
  assumed of the connection timeout, so `WaitersWoken` says that a waiter is woken
  and not merely dropped, and nothing of the provider's answers.
* `Lifecycle!FairSpec`: weak fairness of startup, given that files can be read and the
  signing backend answers (what happens otherwise is `Startup`'s subject),
  of the tasks that are ready to run, of the signal handlers once entered, and of
  each handler's end, which its timer enforces. Nothing is assumed of
  signals, of connections, or of the drain's deadline: `SignalEndsProcess` holds
  because the drain hears the last handler, not because it gives up.
* `Startup!FairSpec`: weak fairness of the main thread, of the actor thread's steps that
  need no error, and of the far end. Reads of files are exempt (they may hang), but
  not the shutdown arm that cancels them. The write of the pidfile (`ready.rs:27`) is
  assumed to end: it comes after preparation and is not raced with shutdown, so on a
  disk that hangs there a signal would not end the daemon. Nothing is assumed of callers, of signals or
  of their timeouts. `StalledSpec` leaves out the far end, because no line of the daemon
  bounds how long an agent reads its key or a TPM takes; it is the specification of
  `startup_stalled`.

## Proofs

All constants are arbitrary. The assumptions are the named ones of the modules:
the "no value" constants are not values, `Interval` and `Burst` are positive
naturals, `Times` are integers, `Decoy` is not in `Keys`, the self-check is not a
call of `sign`, `Setups` are setups, the codec's limits are naturals and the daemon's
budget is not above the parser's, a line is at least one token and no line feed, a
token is text, an expiry is a number whose digits hold no line feed. Finiteness of a
constant is never needed; that a tracker's running handlers are finitely many is
part of the invariant.

| Theorem | States |
|---|---|
| `EnrollmentProofs!TypeCorrect` | `Spec => []TypeOK`, which includes that the lock is held exactly by the writing handler |
| `EnrollmentProofs!AcknowledgedIsDurable` | `Spec => []SettledDurable` |
| `EnrollmentProofs!RevokeIsFinal` | `Spec => []RevokedKeysGone` |
| `EnrollmentProofs!RefinesRoster` | `Spec => ImplementsRoster` |
| `EnrollmentProofs!RefinesTables` | `Spec => ImplementsTables` |
| `EnrollmentProofs!AckedRevokeHolds` | `Spec => []NoResurrectionOnceAcked` |
| `MintProofs!MintTypeCorrect` | `Spec => []TypeOK`, which includes who holds a metadata token |
| `MintProofs!MarkerNeverLeaks` | `Spec => []NoOrphanMarker` |
| `MintProofs!NoLostWaiter` | `Spec => []WaitersCovered` |
| `MintProofs!SingleFlight` | `Spec => []SingleUntilRefused` |
| `MintProofs!TokensStayInScope` | `Spec => []TokensInScope` |
| `TtlCacheProofs!EntriesExpire` | `Spec => []EveryEntryHasDeadline` |
| `TtlCacheProofs!NoExpiredToken` | `Spec => []NeverServesExpired` |
| `TtlCacheProofs!CacheImplementsMap` | `Spec => ImplementsMap` |
| `SessionProofs!SessionTypeCorrect` | `Spec => []TypeOK`, which includes that no method is called in the wrong state |
| `SessionProofs!MintsOnlyForItsHelper` | `Spec => []MintsAgree` |
| `SessionProofs!AnswersAreOwn` | `Spec => []AnswersAgree` |
| `SessionProofs!SubstituteNeverOpens` | `Spec => []DecoyUndecryptable` |
| `SessionProofs!MintsOnlyWhileListed` | `Spec => []MintsListed` |
| `LifecycleProofs!LifecycleTypeCorrect` | `Spec => []TypeOK`, which includes that no counter goes below zero |
| `LifecycleProofs!DrainCutsNobodyOff` | `Spec => []DrainHonest` |
| `LifecycleProofs!DrainHearsTheLast` | `Spec => []DrainNotForgotten` |
| `LifecycleProofs!NoSignalLost` | `Spec => []SignalSeen` |
| `StartupProofs!TypeCorrect` | `Spec => []TypeOK`, which includes that an agent that serves is locked down |
| `StartupProofs!AnswersAreOwn` | `Spec => []OwnAnswer` |
| `StartupProofs!Audited` | `Spec => []SignaturesAudited` |
| `StartupProofs!NoneForgotten` | `Spec => []NoForgottenCall` |
| `StartupProofs!Earned` | `Spec => []ReadyEarned` |
| `StartupProofs!FailuresHaveCauses` | `Spec => []FailsOnlyForCause` |
| `StartupProofs!NobodyWaitsInVain` | `Spec => []NoWaitCycle` |
| `CredentialProofs!RequestsParsedExactly` | `Spec => []ParsedAsWritten` |
| `CredentialProofs!AnswersAsMeant` | `Spec => []ResponseAsMeant` |
| `TokenBucketProofs!TokenBucketTypeCorrect` | `Spec => []TypeOK` |
| `TokenBucketProofs!LogRateBounded` | `Spec => []RateBounded` |
| `TokenBucketProofs!LogNotStarved` | `Spec => NoNeedlessSuppression` |
| `TokenBucketProofs!LogStaysHonest` | `Spec => []SuppressedAccounted` |

The argument of each module is an inductive invariant (`IInv`; `CInv` in
`CredentialProofs`), one lemma per action that it is preserved, and a corollary per
property.

* **Enrollment.** `SettledDurable` is not inductive: the next write copies memory
  or a buffer to a file. The strengthening says that a request in progress has a job
  (`Pending`), what the handler that holds the lock has in its buffers and that its
  client is unsettled (`Holder`), and that a stopped daemon has empty memory (`Down`).
  `RevokedKeysGone` rests on the same: what a handler writes to the psks file is the
  key table of that moment, so no step but an enroll's first adds a key anywhere
  (`NoKeyAdded`), and a restart reads back only lines that are there.
  The refinement maps a client to its key if it has metadata and a key, and uses
  `SettledDurable` for exactly one step: `Start` brings settled clients back.
  `ImplementsTables` follows from what each step does to the two tables.
  `NoResurrectionOnceAcked` needs `DroppedOK`: a client that a revoke took out of
  `clients.json` is either acknowledged as gone or still unsettled, and is not being
  enrolled; with `SettledDurable` that excludes it from memory and from what a restart
  reads.
* **Mint.** `WaitersCovered` needs that a marker belongs to a resolver
  (`NoOrphanMarker`), and both need what the local variables of a caller are in
  each phase (`Locals`). `SingleUntilRefused` needs that until a 404 a resolver's
  marker is still in the store (`OwnMarker`). `TokensInScope` needs that ids in
  memos, locals and replies are known for their path (`KnownIds`).
* **TtlCache.** `EveryEntryHasDeadline` is what makes the sweep of the heap equal
  to the forgetting of expired entries; the refinement follows from it.
* **Session.** `FramesOK` accounts for every frame in the network by who wrote it and
  in which state. With it, a connection that reads a request under its own handshake
  knows the helper that wrote it (`ConnRequest`), and a helper that reads an
  answer the connection (`HelperOK`); nobody can write a request under `Decoy`.
  `MintsListed` needs `ConnListed`: until its handshake, all that is authorised now is
  listed for the connection. That old frames stay accounted for is one lemma
  (`OldFrames`) from `Stable`: a handshake, a request or a task never changes once
  it is set.
* **Lifecycle.** `Counted` says that a counter is the number of running handlers, and
  `Draining` that a loop which drains accepts no more and has heard of a zero. The
  signal half says where the news of a signal can be: `Noticed` (with its handler, in
  the flag, or ahead of the watcher), `Alarmed` (a flag comes with a wake) and `Armed`
  (a watcher that sleeps has its waker in place).
* **TokenBucket.** `RateBounded` follows from `Spaced` (each accepted event pushed
  `tat` at least one interval on) and the cap on `tat`; `NoNeedlessSuppression`
  from `BusySince`: `tat` was built up, without a gap, from some accepted event.
* **Startup.** The backend's invariant `SigInv` speaks of the backend alone and is kept by
  every step of it, whoever takes it (`SigNext`); that each step of `Next` is one of
  these is `NextIsSig`. `OwnAnswer` needs `Lockstep`: while the thread reads, at most
  one message is between it and the far end, and it belongs to the thread's job.
  Once a round trip has failed that is no longer so, and the thread no longer reads.
  `SignaturesAudited` needs `Logged`: the far end has logged what it works on. The
  start's invariant `StInv` says what the main thread knows in each phase (`Order`,
  `Passed`, `Hard`) and that without a fault neither thread nor agent has
  died (`Healthy`), which is why a failing self-check without a fault is an answer.
  `NoWaitCycle` is the part of `CallsEnd`, `AgentEnds` and `SignalEnds` that is an
  invariant: no join with an open channel, no `recv` that nobody owes an answer to, no
  `child.wait` with the socket still open. `Owed` is that for the backend, kept by every
  `SigNext`; `MainStep` is what a step of `Next` means to the main thread.
* **Credential.** The parser sees one run of tokens, the properties speak of lines.
  `Laid` ties them together: a function gives the end of every line in the text.
  Git's writing extends it line by line, so a fact about all lines is an
  induction over steps and not over the text. `Written` says that the block is laid out
  by the lines git wrote, `Halfway` that what the parser has left is the text of the
  lines from some `m` on, and `Taken` that its fields and its flag are what the lines
  before `m` say. A refusal then has a line that is at fault (`RefusedForCause`), and a
  parse that gets through has seen all of them (`AcceptedIsMeant`). For the way back
  the same function describes the block that `encode` writes field by field (`Shows`),
  and `EncodeIsRead` says what git reads in it, whatever the token is that
  `Response::new` has let pass.

Only model-checked: `WaitersWoken`, `SignalEndsProcess`, `CallsEnd`,
`AgentEnds` and `SignalEnds`, because liveness under fairness is outside the proof
system's reach, and the three violations. Every invariant and every action property
that a run checks is also a theorem. One theorem states what no run checks:
`NoResurrectionOnceAcked`, which holds when added to `Enrollment.cfg`. That a disk which
hangs under one admin request does not keep the others from the roster is not stated as
a liveness property: the timer drops the hung handler and, by `TypeOK`, a lock is only
held by a handler that is still there.

## Plan

Done: the roster, the mint path with its caches, the limiter, sessions, the lifecycle,
signing and startup, the codec; every invariant proved; the tables that sessions read
shown to be the roster's. What is left, in order:

1. What a revoke does to sessions under way, stated across `Session` and `Enrollment`:
   no handshake that begins after the acknowledgement leads to a mint.
2. Composition of `Startup` with `Lifecycle` at the one step where they meet
   (`Prepared` and `PrepareFails` as what `Startup` does up to `run`).
3. More of the provider: shutdown's cancellation of calls, and `selfcheck`'s.

## Not modelled

The admin protocol's JSON framing and its read-only operations (`status`, `list`,
`pubkey`, `selfcheck`), the validation of single names, notes and keys, JWT and TPM
byte layouts, identifiers and logging. They keep no state that outlives a call, and
their unit tests and vectors say more than a model would. Cryptography, the kernel,
the async runtime and GitHub are environment, represented only by what the code
can see of them.
