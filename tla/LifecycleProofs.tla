-------------------------- MODULE LifecycleProofs --------------------------
(***************************************************************************)
(* The trackers and the signal watcher, for any number of handlers.        *)
(*                                                                         *)
(* Two small protocols share the module.  A tracker's counter is the       *)
(* number of its handlers (Counted) and its loop stops counting up before  *)
(* it drains (Draining).  The news of a signal is always in one of a few   *)
(* places (Noticed, Alarmed, Armed).                                       *)
(***************************************************************************)
EXTENDS Lifecycle, FiniteSetTheorems, TLAPS

Counted(l) == IsFiniteSet(running[l]) /\ active[l] = Cardinality(running[l])

Draining(l) ==
    /\ main = "prepare" => loop[l] = "off"
    /\ loop[l] \in {"waiting", "drained"} => shutdown
    /\ loop[l] = "waiting" /\ active[l] = 0 => heard[l]
    /\ complete[l] => loop[l] = "drained" /\ active[l] = 0

\* A signal that is pending is one its handler has yet to flag, or the flag says so,
\* or the watcher has yet to look at it.
Noticed(k) ==
    pending[k] => \/ handling[k] = "stored"
                  \/ set
                  \/ watcher = "term"
                  \/ watcher = "int" /\ k = "SIGINT"
                  \/ watcher = "returned"

\* A flag set while the watcher sleeps comes with a wake, made or about to be made.
Alarmed == watcher = "parked" /\ set => woken \/ \E k \in Signals : handling[k] = "set"

\* A watcher that sleeps can be woken.
Armed == watcher \in {"recheck", "parked"} => waker \/ woken

TrackersOK == \A l \in Loops : Counted(l) /\ Draining(l)
NotifierOK == (\A k \in Signals : Noticed(k)) /\ Alarmed /\ Armed

IInv == TypeOK /\ TrackersOK /\ NotifierOK

-----------------------------------------------------------------------------
LEMMA InvInit == Init => IInv
<1> SUFFICES ASSUME Init PROVE IInv
  OBVIOUS
<1>1. TypeOK
  BY DEF Init, TypeOK
<1>2. TrackersOK
  BY FS_EmptySet DEF Init, TrackersOK, Counted, Draining
<1>3. NotifierOK
  BY DEF Init, NotifierOK, Noticed, Alarmed, Armed, Signals
<1> QED BY <1>1, <1>2, <1>3 DEF IInv

\* A step that leaves the trackers and the notifier alone.
LEMMA TrackersKept ==
    ASSUME TrackersOK, UNCHANGED <<loop, trackers>>, shutdown => shutdown',
           main' = "prepare" => main = "prepare"
    PROVE  TrackersOK'
BY DEF TrackersOK, Counted, Draining, trackers

LEMMA NotifierKept ==
    ASSUME NotifierOK, UNCHANGED notifier
    PROVE  NotifierOK'
BY DEF NotifierOK, Noticed, Alarmed, Armed, notifier

LEMMA InvMain ==
    ASSUME IInv, Prepared \/ PrepareFails \/ RunReturns \/ Exit
    PROVE  IInv'
<1>1. NotifierOK'
  BY NotifierKept DEF IInv, Prepared, PrepareFails, RunReturns, Exit
<1>2. CASE Prepared
  <2>1. TypeOK'
    BY <1>2 DEF IInv, TypeOK, Prepared, trackers, notifier
  <2>2. ASSUME NEW l \in Loops PROVE (Counted(l) /\ Draining(l))'
    <3>1. /\ loop'[l] = "serving" /\ main = "prepare" /\ main' = "run"
          /\ Counted(l) /\ Draining(l)
          /\ UNCHANGED <<trackers, shutdown>>
      BY <1>2 DEF IInv, TrackersOK, Prepared
    <3> QED BY <3>1 DEF Counted, Draining, trackers
  <2> QED BY <1>1, <2>1, <2>2 DEF IInv, TrackersOK
<1>3. CASE PrepareFails \/ RunReturns \/ Exit
  <2>1. TypeOK'
    BY <1>3 DEF IInv, TypeOK, PrepareFails, RunReturns, Exit, trackers, notifier
  <2>2. TrackersOK'
    <3>1. UNCHANGED <<loop, trackers, shutdown>> /\ main' # "prepare"
      BY <1>3 DEF PrepareFails, RunReturns, Exit
    <3> QED BY <3>1, TrackersKept DEF IInv
  <2> QED BY <1>1, <2>1, <2>2 DEF IInv
<1> QED BY <1>2, <1>3

\* A step of one tracker.
LEMMA TrackerStep ==
    ASSUME IInv, TypeOK', UNCHANGED <<main, shutdown, notifier>>, NEW l \in Loops,
           \A m \in Loops \ {l} : /\ loop'[m] = loop[m] /\ active'[m] = active[m]
                                  /\ running'[m] = running[m] /\ heard'[m] = heard[m]
                                  /\ complete'[m] = complete[m],
           Counted(l)', Draining(l)'
    PROVE  IInv'
<1>1. TrackersOK'
  BY DEF IInv, TrackersOK, Counted, Draining
<1>2. NotifierOK'
  BY NotifierKept DEF IInv
<1> QED BY <1>1, <1>2 DEF IInv

LEMMA InvAccept ==
    ASSUME IInv, NEW l \in Loops, NEW h \in Handlers, Accept(l, h)
    PROVE  IInv'
<1>1. TypeOK /\ Counted(l) /\ Draining(l)
  BY DEF IInv, TrackersOK
<1>2. TypeOK'
  <2>1. active \in [Loops -> Nat] /\ active' = [active EXCEPT ![l] = active[l] + 1]
    BY <1>1 DEF TypeOK, Accept
  <2>2. active' \in [Loops -> Nat]
    BY <2>1
  <2>3. running' \in [Loops -> SUBSET Handlers]
    BY <1>1 DEF TypeOK, Accept
  <2> QED BY <1>1, <2>2, <2>3 DEF TypeOK, Accept, notifier
<1>3. /\ running'[l] = running[l] \cup {h} /\ active'[l] = active[l] + 1
      /\ h \notin running[l] /\ loop'[l] = "serving" /\ heard' = heard
      /\ complete' = complete /\ loop[l] = "serving"
      /\ \A m \in Loops \ {l} : running'[m] = running[m] /\ active'[m] = active[m]
  BY <1>1 DEF TypeOK, Accept
<1>4. Counted(l)'
  <2>1. /\ IsFiniteSet(running[l] \cup {h})
        /\ Cardinality(running[l] \cup {h}) = Cardinality(running[l]) + 1
    <3>1. IsFiniteSet(running[l]) /\ h \notin running[l]
      BY <1>1, <1>3 DEF Counted
    <3> QED BY ONLY <3>1, FS_AddElement
  <2> QED BY <1>1, <1>3, <2>1 DEF Counted
<1>5. Draining(l)'
  BY <1>1, <1>3 DEF Draining, Accept
<1>6. UNCHANGED <<main, loop, shutdown, notifier>>
  BY DEF Accept
<1> QED BY <1>2, <1>3, <1>4, <1>5, <1>6, TrackerStep

LEMMA InvHandlerEnds ==
    ASSUME IInv, NEW l \in Loops, NEW h \in Handlers, HandlerEnds(l, h)
    PROVE  IInv'
<1>1. TypeOK /\ Counted(l) /\ Draining(l)
  BY DEF IInv, TrackersOK
<1>2. /\ running'[l] = running[l] \ {h} /\ active'[l] = active[l] - 1 /\ h \in running[l]
      /\ heard'[l] = (heard[l] \/ active'[l] = 0)
      /\ loop' = loop /\ complete' = complete /\ UNCHANGED <<main, shutdown, notifier>>
      /\ \A m \in Loops \ {l} : /\ running'[m] = running[m] /\ active'[m] = active[m]
                                /\ heard'[m] = heard[m]
  BY <1>1 DEF TypeOK, HandlerEnds
<1>3. Counted(l)' /\ active'[l] \in Nat /\ active[l] # 0
  <2>1. IsFiniteSet(running'[l]) /\ Cardinality(running'[l]) = Cardinality(running[l]) - 1
    BY <1>1, <1>2, FS_RemoveElement DEF Counted
  <2>2. Cardinality(running'[l]) \in Nat
    BY <2>1, FS_CardinalityType
  <2> QED BY <1>1, <1>2, <2>1, <2>2 DEF Counted
<1>4. TypeOK'
  <2>1. active' \in [Loops -> Nat]
    BY <1>1, <1>3 DEF TypeOK, HandlerEnds
  <2> QED BY <1>1, <2>1 DEF TypeOK, HandlerEnds, notifier
<1>5. Draining(l)'
  BY <1>1, <1>2, <1>3 DEF Draining
<1> QED BY <1>2, <1>3, <1>4, <1>5, TrackerStep

LEMMA InvDrain ==
    ASSUME IInv, NEW l \in Loops, Break(l) \/ Resume(l) \/ DrainDeadline(l)
    PROVE  IInv'
<1>1. TypeOK /\ Counted(l) /\ Draining(l)
  BY DEF IInv, TrackersOK
<1>2. /\ shutdown /\ main # "prepare"
      /\ UNCHANGED <<main, active, running, shutdown, notifier>>
  BY <1>1 DEF Break, Resume, DrainDeadline, Draining
<1>3. CASE \E late \in BOOLEAN : DrainRound(l, late)
  <2>1. TypeOK'
    BY <1>1, <1>2, <1>3 DEF TypeOK, DrainRound, notifier
  <2>2. Draining(l)'
    <3>1. \/ /\ loop'[l] = "drained" /\ complete'[l] = (active[l] = 0)
          \/ /\ loop'[l] = "waiting" /\ active[l] # 0 /\ complete'[l] = complete[l]
      BY <1>1, <1>3 DEF TypeOK, DrainRound
    <3> QED BY <1>1, <1>2, <3>1 DEF Draining
  <2>3. \A m \in Loops \ {l} : /\ loop'[m] = loop[m] /\ heard'[m] = heard[m]
                               /\ complete'[m] = complete[m]
    BY <1>1, <1>3 DEF TypeOK, DrainRound
  <2> QED BY <1>1, <1>2, <2>1, <2>2, <2>3, TrackerStep DEF Counted
<1>4. CASE DrainDeadline(l)
  <2>1. TypeOK'
    BY <1>1, <1>2, <1>4 DEF TypeOK, DrainDeadline, notifier
  <2>2. Draining(l)'
    <3>1. loop'[l] = "drained" /\ complete'[l] = FALSE
      BY <1>1, <1>4 DEF TypeOK, DrainDeadline
    <3> QED BY <1>2, <3>1 DEF Draining
  <2>3. \A m \in Loops \ {l} : /\ loop'[m] = loop[m] /\ heard'[m] = heard[m]
                               /\ complete'[m] = complete[m]
    BY <1>1, <1>4 DEF TypeOK, DrainDeadline
  <2> QED BY <1>1, <1>2, <2>1, <2>2, <2>3, TrackerStep DEF Counted
<1> QED BY <1>3, <1>4 DEF Break, Resume

LEMMA InvAcceptFails ==
    ASSUME IInv, AdminAcceptFails \/ WireAcceptFails
    PROVE  IInv'
<1>1. TypeOK /\ NotifierOK /\ ~shutdown /\ UNCHANGED <<trackers, shutdown, notifier>>
  BY DEF IInv, AdminAcceptFails, WireAcceptFails
<1>2. TypeOK'
  BY <1>1 DEF TypeOK, AdminAcceptFails, WireAcceptFails, trackers, notifier, Loops
<1>3. ASSUME NEW l \in Loops PROVE (Counted(l) /\ Draining(l))'
  <2>1. Counted(l) /\ Draining(l)
    BY DEF IInv, TrackersOK
  <2>2. loop'[l] = loop[l] \/ loop'[l] = "failed"
    BY <1>1 DEF TypeOK, AdminAcceptFails, WireAcceptFails
  <2>3. main # "prepare" /\ main' # "prepare"
    <3>1. Draining("wire") /\ Draining("admin")
      BY DEF IInv, TrackersOK, Loops
    <3> QED BY <3>1 DEF Draining, AdminAcceptFails, WireAcceptFails
  <2> QED BY <1>1, <2>1, <2>2, <2>3 DEF Counted, Draining, trackers
<1>4. NotifierOK'
  BY <1>1, NotifierKept
<1> QED BY <1>2, <1>3, <1>4 DEF IInv, TrackersOK

-----------------------------------------------------------------------------
(* The signal handler and the watcher.                                       *)

LEMMA InvHandling ==
    ASSUME IInv, NEW k \in Signals, Deliver(k) \/ SetFlag(k) \/ Wake(k)
    PROVE  IInv'
<1>1. TypeOK /\ TrackersOK /\ NotifierOK
  BY DEF IInv
<1>2. TrackersOK'
  BY <1>1, TrackersKept DEF Deliver, SetFlag, Wake
<1>3. TypeOK'
  BY <1>1 DEF TypeOK, Deliver, SetFlag, Wake, trackers
<1>4. CASE Deliver(k)
  BY <1>1, <1>2, <1>3, <1>4 DEF IInv, TypeOK, NotifierOK, Noticed, Alarmed, Armed, Deliver
<1>5. CASE SetFlag(k)
  BY <1>1, <1>2, <1>3, <1>5 DEF IInv, TypeOK, NotifierOK, Noticed, Alarmed, Armed, SetFlag
<1>6. CASE Wake(k)
  BY <1>1, <1>2, <1>3, <1>6 DEF IInv, TypeOK, NotifierOK, Noticed, Alarmed, Armed, Wake
<1> QED BY <1>4, <1>5, <1>6

LEMMA InvWatcher ==
    ASSUME IInv, WatcherStep
    PROVE  IInv'
<1>1. TypeOK /\ TrackersOK /\ NotifierOK
  BY DEF IInv
<1>2. TrackersOK'
  BY <1>1, TrackersKept
     DEF TypeOK, WatcherStep, CheckTerm, CheckInt, Check, FirstSwap, SecondSwap, Swap,
         Register, Repoll
<1>3. CASE CheckTerm \/ CheckInt
  <2>1. TypeOK'
    BY <1>1, <1>3 DEF TypeOK, CheckTerm, CheckInt, Check, trackers, Signals
  <2>2. NotifierOK'
    BY <1>1, <1>3 DEF TypeOK, NotifierOK, Noticed, Alarmed, Armed, CheckTerm, CheckInt, Check,
                      Signals
  <2> QED BY <1>2, <2>1, <2>2 DEF IInv
<1>4. CASE FirstSwap \/ SecondSwap
  <2>1. TypeOK'
    BY <1>1, <1>4 DEF TypeOK, FirstSwap, SecondSwap, Swap, trackers
  <2>2. NotifierOK'
    BY <1>1, <1>4 DEF TypeOK, NotifierOK, Noticed, Alarmed, Armed, FirstSwap, SecondSwap, Swap
  <2> QED BY <1>2, <2>1, <2>2 DEF IInv
<1>5. CASE Register \/ Repoll
  <2>1. TypeOK'
    BY <1>1, <1>5 DEF TypeOK, Register, Repoll, trackers
  <2>2. NotifierOK'
    BY <1>1, <1>5 DEF TypeOK, NotifierOK, Noticed, Alarmed, Armed, Register, Repoll
  <2> QED BY <1>2, <2>1, <2>2 DEF IInv
<1> QED BY <1>3, <1>4, <1>5 DEF WatcherStep

LEMMA InvNext == IInv /\ [Next]_vars => IInv'
<1> SUFFICES ASSUME IInv, [Next]_vars PROVE IInv'
  OBVIOUS
<1>1. CASE UNCHANGED vars
  <2>1. TypeOK'
    BY <1>1 DEF IInv, TypeOK, vars, trackers, notifier
  <2> QED BY <1>1, <2>1, TrackersKept, NotifierKept DEF IInv, vars
<1>2. CASE Next
  BY <1>2, InvMain, InvAccept, InvHandlerEnds, InvDrain, InvAcceptFails, InvHandling, InvWatcher
     DEF Next
<1> QED BY <1>1, <1>2

LEMMA Invariant == Spec => []IInv
BY InvInit, InvNext, PTL DEF Spec

-----------------------------------------------------------------------------
\* Every variable keeps its type; a tracker's counter never drops below zero.
THEOREM LifecycleTypeCorrect == Spec => []TypeOK
<1>1. IInv => TypeOK
  BY DEF IInv
<1> QED BY <1>1, Invariant, PTL

\* A drain that reports completion has cut no handler off.
THEOREM DrainCutsNobodyOff == Spec => []DrainHonest
<1>1. IInv => DrainHonest
  <2> SUFFICES ASSUME IInv, NEW l \in Loops, complete[l] PROVE running[l] = {}
    BY DEF DrainHonest
  <2>1. IsFiniteSet(running[l]) /\ Cardinality(running[l]) = 0
    BY DEF IInv, TrackersOK, Counted, Draining
  <2> QED BY <2>1, FS_EmptySet
<1> QED BY <1>1, Invariant, PTL

\* The end of the last handler is never missed by a drain that waits for it.
THEOREM DrainHearsTheLast == Spec => []DrainNotForgotten
<1>1. IInv => DrainNotForgotten
  <2> SUFFICES ASSUME IInv, NEW l \in Loops, loop[l] = "waiting", running[l] = {}
               PROVE  heard[l]
    BY DEF DrainNotForgotten
  <2>1. active[l] = 0
    BY FS_EmptySet DEF IInv, TrackersOK, Counted
  <2> QED BY <2>1 DEF IInv, TrackersOK, Draining
<1> QED BY <1>1, Invariant, PTL

\* No signal is lost between the watcher's looks and its sleep.
THEOREM NoSignalLost == Spec => []SignalSeen
<1>1. IInv => SignalSeen
  BY DEF IInv, NotifierOK, Noticed, Alarmed, SignalSeen
<1> QED BY <1>1, Invariant, PTL
=============================================================================
