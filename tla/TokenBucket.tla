---------------------------- MODULE TokenBucket ----------------------------
(***************************************************************************)
(* TokenBucket, the limiter on identity_unknown warnings.  It keeps no     *)
(* token count: only tat, the theoretical arrival time of the next         *)
(* conforming event, and the number of events suppressed since the last    *)
(* accepted one.                                                           *)
(***************************************************************************)
EXTENDS Integers, Sequences

CONSTANTS Interval,   \* refill_interval
          Burst,      \* events admitted at once; burst_tolerance is derived from it
          MaxTime,    \* bound on the clock
          MaxEvents   \* bound on the number of events, accepted and suppressed

ASSUME IntervalAssumption == Interval \in Nat \ {0}
ASSUME BurstAssumption == Burst \in Nat \ {0}
ASSUME BoundsAssumption == MaxTime \in Nat /\ MaxEvents \in Nat

\* The length of n refill intervals.
Times(n) == n * Interval

\* daemon.rs computes it from the burst: (N - 1) * refill_interval.
BurstTolerance == Times(Burst - 1)

VARIABLES now,         \* what the monotonic clock shows
          tat,
          suppressed,
          \* history, read by properties only
          accepted,    \* when the accepted events happened
          rejected,    \* how many events were suppressed in all
          reported     \* how many suppressed events accepted ones have reported

vars == <<now, tat, suppressed, accepted, rejected, reported>>

Maximum(x, y) == IF x >= y THEN x ELSE y

-----------------------------------------------------------------------------
\* TokenBucket::new: the bucket starts full.
Init ==
    /\ now = 0
    /\ tat = 0
    /\ suppressed = 0
    /\ accepted = <<>>
    /\ rejected = 0
    /\ reported = 0

Tick ==
    /\ now < MaxTime
    /\ now' = now + 1
    /\ UNCHANGED <<tat, suppressed, accepted, rejected, reported>>

\* Faulty variant: unused capacity is not capped, tat keeps lagging behind.
AcceptWithoutCap ==
    /\ tat <= now + BurstTolerance
    /\ Len(accepted) + rejected < MaxEvents
    /\ tat' = tat + Interval
    /\ suppressed' = 0
    /\ reported' = reported + suppressed
    /\ accepted' = Append(accepted, now)
    /\ UNCHANGED <<now, rejected>>

\* Faulty variant: every event is let through.
AcceptUnchecked ==
    /\ Len(accepted) + rejected < MaxEvents
    /\ tat' = Maximum(tat, now) + Interval
    /\ suppressed' = 0
    /\ reported' = reported + suppressed
    /\ accepted' = Append(accepted, now)
    /\ UNCHANGED <<now, rejected>>

\* Faulty variant: the suppressed count is not reset when it is reported.
AcceptKeepsCount ==
    /\ tat <= now + BurstTolerance
    /\ Len(accepted) + rejected < MaxEvents
    /\ tat' = Maximum(tat, now) + Interval
    /\ reported' = reported + suppressed
    /\ accepted' = Append(accepted, now)
    /\ UNCHANGED <<now, suppressed, rejected>>

\* try_acquire returning Some(suppressed).
Accept ==
    /\ tat <= now + BurstTolerance
    /\ Len(accepted) + rejected < MaxEvents
    /\ tat' = Maximum(tat, now) + Interval
    /\ suppressed' = 0
    /\ reported' = reported + suppressed
    /\ accepted' = Append(accepted, now)
    /\ UNCHANGED <<now, rejected>>

\* Faulty variant: an event at exactly the tolerance is suppressed.
SuppressAtLimit ==
    /\ tat >= now + BurstTolerance
    /\ Len(accepted) + rejected < MaxEvents
    /\ suppressed' = suppressed + 1
    /\ rejected' = rejected + 1
    /\ UNCHANGED <<now, tat, accepted, reported>>

\* try_acquire returning None.  The counter saturates at 2^64 - 1, far beyond any
\* number of events a run of the daemon sees.
Suppress ==
    /\ tat > now + BurstTolerance
    /\ Len(accepted) + rejected < MaxEvents
    /\ suppressed' = suppressed + 1
    /\ rejected' = rejected + 1
    /\ UNCHANGED <<now, tat, accepted, reported>>

Next == Tick \/ Accept \/ Suppress

Spec == Init /\ [][Next]_vars

(***************************************************************************)
(* Properties                                                              *)
(***************************************************************************)

\* Every variable has its type, and tat is never more than one burst ahead.
TypeOK ==
    /\ now \in Nat
    /\ tat \in Nat
    /\ tat <= now + BurstTolerance + Interval
    /\ suppressed \in Nat
    /\ accepted \in Seq(Nat)
    /\ rejected \in Nat
    /\ reported \in Nat

\* In every window, however the events fall into it, at most Burst events are
\* accepted plus one for every whole interval the window lasts.
RateBounded ==
    \A i, j \in DOMAIN accepted :
        i <= j => Times(j - i) <= BurstTolerance + (accepted[j] - accepted[i])

\* An event is suppressed only when accepting it would break that bound: counting
\* back from now, some window has used up its burst and its refill.
NoNeedlessSuppression ==
    [][rejected' # rejected =>
           \E i \in DOMAIN accepted :
               Times(Len(accepted) - i + 1) > BurstTolerance + (now - accepted[i])]_vars

\* The log stays honest: every suppressed event is either reported by an
\* accepted one or still counted, once.
SuppressedAccounted == rejected = reported + suppressed
=============================================================================
