------------------------- MODULE TokenBucketProofs -------------------------
(***************************************************************************)
(* Proofs about TokenBucket, for every interval, burst and number of       *)
(* events.                                                                 *)
(***************************************************************************)
EXTENDS TokenBucket, TLAPS

\* tat lies at least one interval per event after every accepted event.
Spaced ==
    \A i \in DOMAIN accepted :
        /\ accepted[i] <= now
        /\ accepted[i] + Times(Len(accepted) - i + 1) <= tat

\* And exactly that much after the event that began the current busy period.
BusySince ==
    \/ accepted = <<>> /\ tat = 0
    \/ \E i \in DOMAIN accepted : tat = accepted[i] + Times(Len(accepted) - i + 1)

\* The inductive invariant.
IInv ==
    /\ TypeOK
    /\ Spaced
    /\ BusySince
    /\ RateBounded
    /\ SuppressedAccounted

\* All that the proofs use of multiplication.
LEMMA TimesFacts ==
    /\ Times(0) = 0 /\ Times(1) = Interval
    /\ \A n \in Int : Times(n) \in Int /\ Times(n + 1) = Times(n) + Interval
    /\ BurstTolerance \in Nat
<1>1. ASSUME NEW n \in Int PROVE Times(n) \in Int /\ Times(n + 1) = Times(n) + Interval
  BY IntervalAssumption DEF Times
<1>2. BurstTolerance \in Nat
  BY IntervalAssumption, BurstAssumption DEF BurstTolerance, Times
<1>3. QED
  BY <1>1, <1>2, IntervalAssumption DEF Times

-----------------------------------------------------------------------------
LEMMA InitIInv == Init => IInv
  BY TimesFacts, IntervalAssumption
  DEF Init, IInv, TypeOK, Spaced, BusySince, RateBounded, SuppressedAccounted

LEMMA TickStep == ASSUME IInv, Tick PROVE IInv'
<1>1. /\ now \in Nat /\ now' = now + 1 /\ tat \in Nat /\ BurstTolerance \in Nat
      /\ UNCHANGED <<tat, suppressed, accepted, rejected, reported>>
  BY TimesFacts DEF Tick, IInv, TypeOK
<1>2. TypeOK'
  BY <1>1, IntervalAssumption DEF IInv, TypeOK
<1>3. Spaced'
  <2> SUFFICES ASSUME NEW i \in DOMAIN accepted PROVE accepted[i] <= now'
    BY <1>1 DEF IInv, Spaced
  <2>1. accepted[i] \in Nat /\ accepted[i] <= now
    BY DEF IInv, TypeOK, Spaced
  <2>2. QED
    BY <1>1, <2>1
<1>4. BusySince' /\ RateBounded' /\ SuppressedAccounted'
  BY <1>1 DEF IInv, BusySince, RateBounded, SuppressedAccounted
<1>5. QED
  BY <1>2, <1>3, <1>4 DEF IInv

LEMMA SuppressStep == ASSUME IInv, Suppress PROVE IInv'
  BY TimesFacts, IntervalAssumption
  DEF Suppress, IInv, TypeOK, Spaced, BusySince, RateBounded, SuppressedAccounted

LEMMA AcceptStep == ASSUME IInv, Accept PROVE IInv'
<1> DEFINE n == Len(accepted)
<1>1. /\ n \in Nat /\ DOMAIN accepted = 1 .. n
      /\ Len(accepted') = n + 1 /\ DOMAIN accepted' = 1 .. (n + 1)
      /\ accepted'[n + 1] = now
      /\ \A i \in 1 .. n : accepted'[i] = accepted[i] /\ accepted[i] \in Nat
  BY DEF IInv, TypeOK, Accept
<1>2. /\ now \in Nat /\ tat \in Nat /\ Interval \in Nat /\ BurstTolerance \in Nat
      /\ now' = now /\ tat' \in Nat
      /\ tat' >= tat + Interval /\ tat' >= now + Interval
      /\ tat' = tat + Interval \/ tat' = now + Interval
      /\ tat <= now + BurstTolerance
  <2>1. now \in Nat /\ tat \in Nat /\ Interval \in Nat /\ BurstTolerance \in Nat
    BY TimesFacts, IntervalAssumption DEF IInv, TypeOK
  <2>2. /\ now' = now /\ tat <= now + BurstTolerance
        /\ tat' = (IF tat >= now THEN tat ELSE now) + Interval
    BY DEF Accept, Maximum
  <2>3. QED
    BY <2>1, <2>2
<1>3. TypeOK'
  <2>1. accepted' \in Seq(Nat)
    BY <1>2 DEF IInv, TypeOK, Accept
  <2>2. tat' <= now + BurstTolerance + Interval
    BY <1>2
  <2>3. QED
    BY <1>2, <2>1, <2>2 DEF IInv, TypeOK, Accept
<1>4. ASSUME NEW i \in 1 .. n
      PROVE  /\ n - i + 1 \in Int
             /\ (n + 1) - i + 1 = (n - i + 1) + 1
             /\ Times((n + 1) - i + 1) = Times(n - i + 1) + Interval
             /\ Times(n - i + 1) \in Int
             /\ accepted[i] <= now
             /\ accepted[i] + Times(n - i + 1) <= tat
  <2>1. n - i + 1 \in Int /\ (n + 1) - i + 1 = (n - i + 1) + 1
    BY <1>1
  <2>2. /\ Times(n - i + 1) \in Int
        /\ Times((n - i + 1) + 1) = Times(n - i + 1) + Interval
    BY <2>1, TimesFacts
  <2>3. accepted[i] <= now /\ accepted[i] + Times(n - i + 1) <= tat
    BY <1>1 DEF IInv, Spaced
  <2>4. QED
    BY <2>1, <2>2, <2>3
<1>5. Times((n + 1) - (n + 1) + 1) = Interval
  BY <1>1, TimesFacts
<1>6. Spaced'
  BY <1>1, <1>2, <1>4, <1>5 DEF Spaced
<1>7. BusySince'
  <2>1. CASE tat' = now + Interval
    BY <1>1, <1>5, <2>1 DEF BusySince
  <2>2. CASE tat' = tat + Interval /\ accepted = <<>>
    BY <1>1, <1>2, <1>5, <2>2 DEF IInv, BusySince, Accept, Maximum
  <2>3. CASE tat' = tat + Interval /\ accepted # <<>>
    <3>1. PICK i \in 1 .. n : tat = accepted[i] + Times(n - i + 1)
      BY <1>1, <2>3 DEF IInv, BusySince
    <3>2. tat' = accepted'[i] + Times((n + 1) - i + 1)
      BY <1>1, <1>2, <1>4, <2>3, <3>1
    <3>3. QED
      BY <1>1, <3>2 DEF BusySince
  <2>4. QED
    BY <1>2, <2>1, <2>2, <2>3
<1>8. RateBounded'
  <2> SUFFICES ASSUME NEW i \in 1 .. (n + 1), NEW j \in 1 .. (n + 1), i <= j
               PROVE  Times(j - i) <= BurstTolerance + (accepted'[j] - accepted'[i])
    BY <1>1 DEF RateBounded
  <2>1. CASE j <= n
    <3>1. i \in 1 .. n /\ j \in 1 .. n
      BY <1>1, <2>1
    <3>2. Times(j - i) <= BurstTolerance + (accepted[j] - accepted[i])
      BY <1>1, <3>1 DEF IInv, RateBounded
    <3>3. QED
      BY <1>1, <3>1, <3>2
  <2>2. CASE j = n + 1 /\ i = n + 1
    BY <1>1, <1>2, <2>2, TimesFacts
  <2>3. CASE j = n + 1 /\ i <= n
    BY <1>1, <1>2, <1>4, <2>3
  <2>4. QED
    BY <1>1, <2>1, <2>2, <2>3
<1>9. SuppressedAccounted'
  BY DEF IInv, TypeOK, SuppressedAccounted, Accept
<1>10. QED
  BY <1>3, <1>6, <1>7, <1>8, <1>9 DEF IInv

LEMMA NextIInv == IInv /\ [Next]_vars => IInv'
<1>1. IInv /\ UNCHANGED vars => IInv'
  BY DEF vars, IInv, TypeOK, Spaced, BusySince, RateBounded, SuppressedAccounted
<1>2. QED
  BY <1>1, TickStep, AcceptStep, SuppressStep DEF Next

LEMMA Invariant == Spec => []IInv
  BY InitIInv, NextIInv, PTL DEF Spec

\* The bucket's theoretical arrival time never runs further ahead of the clock than
\* the burst and one interval.
THEOREM TokenBucketTypeCorrect == Spec => []TypeOK
<1>1. IInv => TypeOK
  BY DEF IInv
<1>2. QED
  BY <1>1, Invariant, PTL

-----------------------------------------------------------------------------
\* No burst of unknown identities, however timed, gets more warnings through than
\* the burst and the refill allow.
THEOREM LogRateBounded == Spec => []RateBounded
<1>1. IInv => RateBounded
  BY DEF IInv
<1>2. QED
  BY <1>1, Invariant, PTL

\* Every suppressed warning is accounted for exactly once.
THEOREM LogStaysHonest == Spec => []SuppressedAccounted
<1>1. IInv => SuppressedAccounted
  BY DEF IInv
<1>2. QED
  BY <1>1, Invariant, PTL

\* A warning is only ever suppressed when it would have broken the bound.
THEOREM LogNotStarved == Spec => NoNeedlessSuppression
<1> DEFINE Exhausted ==
        \E i \in DOMAIN accepted :
            Times(Len(accepted) - i + 1) > BurstTolerance + (now - accepted[i])
<1>1. ASSUME IInv, Suppress PROVE Exhausted
  <2>1. tat > now + BurstTolerance /\ now \in Nat /\ tat \in Nat /\ BurstTolerance \in Nat
    BY <1>1, TimesFacts DEF IInv, TypeOK, Suppress
  <2>2. PICK i \in DOMAIN accepted : tat = accepted[i] + Times(Len(accepted) - i + 1)
    BY <1>1, <2>1 DEF IInv, BusySince
  <2>3. accepted[i] \in Nat /\ Times(Len(accepted) - i + 1) \in Int
    <3>1. accepted[i] \in Nat /\ Len(accepted) \in Nat /\ i \in Nat
      BY <1>1 DEF IInv, TypeOK
    <3>2. QED
      BY <3>1, TimesFacts
  <2>4. Times(Len(accepted) - i + 1) > BurstTolerance + (now - accepted[i])
    BY <2>1, <2>2, <2>3
  <2>5. QED
    BY <2>4
<1>2. IInv /\ [Next]_vars => [rejected' # rejected => Exhausted]_vars
  BY <1>1 DEF Next, vars, Tick, Accept
<1>3. QED
  BY <1>2, Invariant, PTL DEF Spec, NoNeedlessSuppression
=============================================================================
