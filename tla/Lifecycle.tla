----------------------------- MODULE Lifecycle -----------------------------
(***************************************************************************)
(* From start to exit: the signal watcher of signals.rs, the wire and      *)
(* admin accept loops with their ConnectionTrackers, and main's run_daemon *)
(* around them.                                                            *)
(*                                                                         *)
(* The daemon's tasks share a thread and an action is what one of them     *)
(* does between two awaits; but a signal may be handled between any two    *)
(* instructions, or on the signing thread, so the watcher's poll and the   *)
(* signal handler are cut at every atomic operation.                       *)
(***************************************************************************)
EXTENDS Integers, FiniteSets

CONSTANT Handlers     \* names for the handlers of a tracker that run at once

Loops == {"wire", "admin"}
Signals == {"SIGTERM", "SIGINT"}

VARIABLES
    main,        \* where run_daemon is
    loop,        \* where each accept loop is
    active,      \* each tracker's counter
    running,     \* the handlers it has spawned and that have not ended
    heard,       \* drain's listener has been notified
    complete,    \* DrainStats.drain_complete
    shutdown,    \* the CancelToken
    pending,     \* term_pending and int_pending
    set, waker,  \* SignalNotifier: its flag, and whether its waker is registered
    woken,       \* the watcher's task is scheduled
    watcher,     \* where the watcher is
    handling     \* where the OS handler of each signal is

trackers == <<active, running, heard, complete>>
notifier == <<pending, set, waker, woken, watcher, handling>>
vars == <<main, loop, trackers, shutdown, notifier>>

Exited == main \in {"exit 0", "exit 1"}

Init ==
    /\ main = "prepare"
    /\ loop = [l \in Loops |-> "off"]
    /\ active = [l \in Loops |-> 0]
    /\ running = [l \in Loops |-> {}]
    /\ heard = [l \in Loops |-> FALSE]
    /\ complete = [l \in Loops |-> FALSE]
    /\ shutdown = FALSE
    /\ pending = [k \in Signals |-> FALSE]
    /\ set = FALSE /\ waker = FALSE /\ woken = FALSE
    /\ watcher = "term"
    /\ handling = [k \in Signals |-> "idle"]

-----------------------------------------------------------------------------
(* run_daemon and Service::run.                                              *)

\* Service::prepare, selfcheck and ready_notify are done; run spawns the admin loop
\* and enters its own.
Prepared ==
    /\ main = "prepare"
    /\ main' = "run"
    /\ loop' = [l \in Loops |-> "serving"]
    /\ UNCHANGED <<trackers, shutdown, notifier>>

PrepareFails ==
    /\ main = "prepare"
    /\ main' = "exit 1"
    /\ UNCHANGED <<loop, trackers, shutdown, notifier>>

\* Faulty variant: it waits for the admin loop to drain, which one that failed on
\* accept never does.
RunReturnsAfterDrains ==
    /\ main = "run"
    /\ \A l \in Loops : loop[l] = "drained"
    /\ main' = "ok"
    /\ UNCHANGED <<loop, trackers, shutdown, notifier>>

\* run has drained its own tracker and joined the admin loop, however that ended.
RunReturns ==
    /\ main = "run"
    /\ loop["wire"] = "drained"
    /\ loop["admin"] \in {"drained", "failed"}
    /\ main' = "ok"
    /\ UNCHANGED <<loop, trackers, shutdown, notifier>>

\* run_daemon awaits the watcher, whatever run returned, then logs and exits.
Exit ==
    /\ main \in {"ok", "err"}
    /\ watcher = "returned"
    /\ main' = IF main = "ok" THEN "exit 0" ELSE "exit 1"
    /\ UNCHANGED <<loop, trackers, shutdown, notifier>>

-----------------------------------------------------------------------------
(* The accept loops: the shutdown arm of select_biased comes first.          *)

\* Faulty variant: spawn does not count the connection; its token's drop still does.
AcceptUncounted(l, h) ==
    /\ loop[l] = "serving" /\ ~shutdown
    /\ h \notin running[l]
    /\ running' = [running EXCEPT ![l] = @ \cup {h}]
    /\ UNCHANGED <<main, loop, active, heard, complete, shutdown, notifier>>

Accept(l, h) ==
    /\ loop[l] = "serving" /\ ~shutdown
    /\ h \notin running[l]
    /\ running' = [running EXCEPT ![l] = @ \cup {h}]
    /\ active' = [active EXCEPT ![l] = @ + 1]
    /\ UNCHANGED <<main, loop, heard, complete, shutdown, notifier>>

\* The admin loop logs the error and ends.
AdminAcceptFails ==
    /\ loop["admin"] = "serving" /\ ~shutdown
    /\ loop' = [loop EXCEPT !["admin"] = "failed"]
    /\ UNCHANGED <<main, trackers, shutdown, notifier>>

\* run returns the error.  That drops the admin loop's JoinHandle, which the runtime
\* may or may not take for a cancellation of the loop.
WireAcceptFails ==
    /\ loop["wire"] = "serving" /\ ~shutdown
    /\ main' = "err"
    /\ \/ loop' = [loop EXCEPT !["wire"] = "failed"]
       \/ loop' = [loop EXCEPT !["wire"] = "failed", !["admin"] = "failed"]
    /\ UNCHANGED <<trackers, shutdown, notifier>>

-----------------------------------------------------------------------------
(* ConnectionTracker.                                                        *)

\* One round of drain's loop: listen, look at the counter, give up or wait.
DrainRound(l, late) ==
    IF active[l] = 0 \/ late
    THEN /\ loop' = [loop EXCEPT ![l] = "drained"]
         /\ complete' = [complete EXCEPT ![l] = active[l] = 0]
         /\ UNCHANGED heard
    ELSE /\ loop' = [loop EXCEPT ![l] = "waiting"]
         /\ heard' = [heard EXCEPT ![l] = FALSE]
         /\ UNCHANGED complete

\* The shutdown arm: the loop breaks and drain begins.
Break(l) ==
    /\ loop[l] = "serving" /\ shutdown
    /\ DrainRound(l, FALSE)
    /\ UNCHANGED <<main, active, running, shutdown, notifier>>

\* drain's listener returns, perhaps with the deadline passed meanwhile.
Resume(l) ==
    /\ loop[l] = "waiting" /\ heard[l]
    /\ \E late \in BOOLEAN : DrainRound(l, late)
    /\ UNCHANGED <<main, active, running, shutdown, notifier>>

\* Faulty variant: a timeout is taken for the end of the drain.
DrainDeadlineCompletes(l) ==
    /\ loop[l] = "waiting"
    /\ loop' = [loop EXCEPT ![l] = "drained"]
    /\ complete' = [complete EXCEPT ![l] = TRUE]
    /\ UNCHANGED <<main, active, running, heard, shutdown, notifier>>

\* The timeout around the listener fires, also if the listener has just been told.
DrainDeadline(l) ==
    /\ loop[l] = "waiting"
    /\ loop' = [loop EXCEPT ![l] = "drained"]
    /\ complete' = [complete EXCEPT ![l] = FALSE]
    /\ UNCHANGED <<main, active, running, heard, shutdown, notifier>>

\* Faulty variant: the counter is compared before it is decremented.
HandlerEndsSilently(l, h) ==
    /\ h \in running[l]
    /\ running' = [running EXCEPT ![l] = @ \ {h}]
    /\ active' = [active EXCEPT ![l] = @ - 1]
    /\ heard' = [heard EXCEPT ![l] = @ \/ active[l] = 0]
    /\ UNCHANGED <<main, loop, complete, shutdown, notifier>>

\* A handler returns, panics or is stopped by its timeout, and drops its token.
HandlerEnds(l, h) ==
    /\ h \in running[l]
    /\ running' = [running EXCEPT ![l] = @ \ {h}]
    /\ active' = [active EXCEPT ![l] = @ - 1]
    /\ heard' = [heard EXCEPT ![l] = @ \/ active'[l] = 0]
    /\ UNCHANGED <<main, loop, complete, shutdown, notifier>>

-----------------------------------------------------------------------------
(* The OS handler of a signal: its flag, then SignalNotifier::notify.        *)

Deliver(k) ==
    /\ handling[k] = "idle"
    /\ pending' = [pending EXCEPT ![k] = TRUE]
    /\ handling' = [handling EXCEPT ![k] = "stored"]
    /\ UNCHANGED <<main, loop, trackers, shutdown, set, waker, woken, watcher>>

SetFlag(k) ==
    /\ handling[k] = "stored"
    /\ set' = TRUE
    /\ handling' = [handling EXCEPT ![k] = "set"]
    /\ UNCHANGED <<main, loop, trackers, shutdown, pending, waker, woken, watcher>>

\* AtomicWaker::wake takes the waker that is registered.
Wake(k) ==
    /\ handling[k] = "set"
    /\ woken' = (woken \/ waker)
    /\ waker' = FALSE
    /\ handling' = [handling EXCEPT ![k] = "idle"]
    /\ UNCHANGED <<main, loop, trackers, shutdown, pending, set, watcher>>

(* The watcher's loop and Notified::poll.                                    *)

\* The watcher looks at the flag of one signal, and goes on to next if it is clear.
Check(at, k, next) ==
    /\ watcher = at
    /\ pending' = [pending EXCEPT ![k] = FALSE]
    /\ shutdown' = (shutdown \/ pending[k])
    /\ watcher' = IF pending[k] THEN "returned" ELSE next
    /\ UNCHANGED <<main, loop, trackers, set, waker, woken, handling>>

CheckTerm == Check("term", "SIGTERM", "int")
CheckInt == Check("int", "SIGINT", "poll")

Swap(at, next) ==
    /\ watcher = at
    /\ set' = FALSE
    /\ watcher' = IF set THEN "term" ELSE next
    /\ UNCHANGED <<main, loop, trackers, shutdown, pending, waker, woken, handling>>

FirstSwap == Swap("poll", "register")

Register ==
    /\ watcher = "register"
    /\ waker' = TRUE
    /\ watcher' = "recheck"
    /\ UNCHANGED <<main, loop, trackers, shutdown, pending, set, woken, handling>>

\* Faulty variant: poll returns Pending as soon as the waker is registered.
NoSecondSwap ==
    /\ watcher = "recheck"
    /\ watcher' = "parked"
    /\ UNCHANGED <<main, loop, trackers, shutdown, pending, set, waker, woken, handling>>

SecondSwap == Swap("recheck", "parked")

\* The runtime polls a task that was woken.
Repoll ==
    /\ watcher = "parked" /\ woken
    /\ woken' = FALSE
    /\ watcher' = "poll"
    /\ UNCHANGED <<main, loop, trackers, shutdown, pending, set, waker, handling>>

WatcherStep == CheckTerm \/ CheckInt \/ FirstSwap \/ Register \/ SecondSwap \/ Repoll

-----------------------------------------------------------------------------
Next ==
    /\ ~Exited
    /\ \/ Prepared \/ PrepareFails \/ RunReturns \/ Exit
       \/ AdminAcceptFails \/ WireAcceptFails
       \/ \E l \in Loops, h \in Handlers : Accept(l, h) \/ HandlerEnds(l, h)
       \/ \E l \in Loops : Break(l) \/ Resume(l) \/ DrainDeadline(l)
       \/ \E k \in Signals : Deliver(k) \/ SetFlag(k) \/ Wake(k)
       \/ WatcherStep

Spec == Init /\ [][Next]_vars

\* The process runs its tasks and its signal handlers, and a handler's timeout is
\* armed.  Preparation ends, which Startup shows if the signing backend answers.
\* Nothing is assumed of signals, connections or the drain's deadline.
FairSpec ==
    /\ Spec
    /\ WF_vars(~Exited /\ (Prepared \/ PrepareFails))
    /\ WF_vars(~Exited /\ (RunReturns \/ Exit))
    /\ WF_vars(~Exited /\ WatcherStep)
    /\ \A l \in Loops : WF_vars(~Exited /\ (Break(l) \/ Resume(l)))
    /\ \A l \in Loops, h \in Handlers : WF_vars(~Exited /\ HandlerEnds(l, h))
    /\ \A k \in Signals : WF_vars(~Exited /\ (SetFlag(k) \/ Wake(k)))

(***************************************************************************)
(* Properties                                                              *)
(***************************************************************************)

TypeOK ==
    /\ main \in {"prepare", "run", "ok", "err", "exit 0", "exit 1"}
    /\ loop \in [Loops -> {"off", "serving", "waiting", "drained", "failed"}]
    /\ active \in [Loops -> Nat]
    /\ running \in [Loops -> SUBSET Handlers]
    /\ heard \in [Loops -> BOOLEAN]
    /\ complete \in [Loops -> BOOLEAN]
    /\ shutdown \in BOOLEAN
    /\ pending \in [Signals -> BOOLEAN]
    /\ set \in BOOLEAN /\ waker \in BOOLEAN /\ woken \in BOOLEAN
    /\ watcher \in {"term", "int", "poll", "register", "recheck", "parked", "returned"}
    /\ handling \in [Signals -> {"idle", "stored", "set"}]

\* drain_complete=true in the shutdown log means that no handler was cut off: none
\* runs from then on.
DrainHonest == \A l \in Loops : complete[l] => running[l] = {}

\* drain never waits for handlers that have all ended without having been told.
DrainNotForgotten ==
    \A l \in Loops : loop[l] = "waiting" /\ running[l] = {} => heard[l]

\* When no signal handler is running, a watcher that sleeps has seen every signal
\* there was: none is lost between its two swaps and the waker's registration.
SignalSeen ==
    watcher = "parked" /\ ~woken /\ (\A k \in Signals : handling[k] = "idle") =>
        \A k \in Signals : ~pending[k]

\* PROTOCOLS.md, "Shutdown": on SIGTERM or SIGINT the daemon drains and exits, at
\* whatever point it was, and also if the drain's deadline never fires.
SignalEndsProcess == \A k \in Signals : pending[k] ~> Exited

\* PROTOCOLS.md: run_failed is "emitted at error lvl by main when Service::run
\* returns Err".
RunFailureReported == main = "err" ~> main = "exit 1"
=============================================================================
