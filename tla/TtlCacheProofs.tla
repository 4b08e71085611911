--------------------------- MODULE TtlCacheProofs ---------------------------
(***************************************************************************)
(* Proofs about TtlCache, for every set of keys, values and instants.      *)
(***************************************************************************)
EXTENDS TtlCache, TLAPS

\* The inductive invariant.
IInv ==
    /\ TypeOK
    /\ EveryEntryHasDeadline
    /\ NeverServesExpired

\* As every entry's deadline is in the heap, popping the due deadlines evicts
\* exactly the entries that have expired.
LEMMA SweepIsForget ==
    ASSUME TypeOK, EveryEntryHasDeadline, NEW t \in Times
    PROVE  Swept(t) = Ideal!Forget(entries, t)
<1>1. ASSUME NEW k \in Keys, entries[k] # None
      PROVE  <<entries[k].expires_at, k>> \in Due(t) <=> entries[k].expires_at <= t
  BY <1>1 DEF EveryEntryHasDeadline, Due
<1>2. QED
  BY <1>1 DEF Swept, Ideal!Forget

\* What a sweep leaves: typed, unexpired entries that all keep their deadlines.
LEMMA SweepFacts ==
    ASSUME TypeOK, EveryEntryHasDeadline, NEW t \in Times
    PROVE  /\ Swept(t) \in [Keys -> Entries \cup {None}]
           /\ \A k \in Keys : Swept(t)[k] # None =>
                  /\ <<Swept(t)[k].expires_at, k>> \in expirations \ Due(t)
                  /\ Swept(t)[k].expires_at > t
<1>1. Swept(t) \in [Keys -> Entries \cup {None}]
  BY DEF Swept, TypeOK
<1>2. ASSUME NEW k \in Keys, Swept(t)[k] # None
      PROVE  /\ <<Swept(t)[k].expires_at, k>> \in expirations \ Due(t)
             /\ Swept(t)[k].expires_at > t
  <2>1. Swept(t)[k] = entries[k] /\ entries[k] # None
    BY <1>2 DEF Swept
  <2>2. <<entries[k].expires_at, k>> \in expirations \ Due(t)
    BY <1>2, <2>1 DEF Swept, EveryEntryHasDeadline
  <2>3. entries[k].expires_at \in Int /\ t \in Int
    BY <2>1, TimesAssumption DEF TypeOK, Entries
  <2>4. entries[k].expires_at > t
    BY <2>2, <2>3 DEF Due
  <2>5. QED
    BY <2>1, <2>2, <2>4
<1>3. QED
  BY <1>1, <1>2

-----------------------------------------------------------------------------
LEMMA InitIInv == Init => IInv
  BY DEF Init, IInv, TypeOK, EveryEntryHasDeadline, NeverServesExpired

LEMMA GetStep == ASSUME IInv, NEW k \in Keys, GetWithExpiry(k) PROVE IInv'
<1>1. now \in Times
  BY DEF IInv, TypeOK
<1>2. TypeOK'
  BY <1>1, SweepFacts DEF IInv, TypeOK, GetWithExpiry
<1>3. EveryEntryHasDeadline'
  BY <1>1, SweepFacts DEF IInv, EveryEntryHasDeadline, GetWithExpiry
<1>4. NeverServesExpired'
  BY <1>1, SweepFacts DEF IInv, NeverServesExpired, GetWithExpiry
<1>5. QED
  BY <1>2, <1>3, <1>4 DEF IInv

LEMMA InsertStep ==
    ASSUME IInv, NEW k \in Keys, NEW v \in Values, NEW t \in Times, Insert(k, v, t)
    PROVE  IInv'
<1>1. now \in Times
  BY DEF IInv, TypeOK
<1> DEFINE new == [value |-> v, expires_at |-> t]
<1>2. new \in Entries /\ new.expires_at = t
  BY DEF Entries
<1>3. TypeOK'
  BY <1>1, <1>2, SweepFacts DEF IInv, TypeOK, Insert, Deadlines
<1>4. EveryEntryHasDeadline'
  BY <1>1, <1>2, SweepFacts DEF IInv, EveryEntryHasDeadline, Insert
<1>5. NeverServesExpired'
  BY DEF NeverServesExpired, Insert
<1>6. QED
  BY <1>3, <1>4, <1>5 DEF IInv

LEMMA NextIInv == IInv /\ [Next]_vars => IInv'
<1> SUFFICES ASSUME IInv, [Next]_vars PROVE IInv'
  OBVIOUS
<1>1. ASSUME NEW k \in Keys, GetWithExpiry(k) PROVE IInv'
  BY <1>1, GetStep
<1>2. ASSUME NEW k \in Keys, Invalidate(k) PROVE IInv'
  BY <1>2 DEF IInv, TypeOK, EveryEntryHasDeadline, NeverServesExpired, Invalidate
<1>3. ASSUME NEW k \in Keys, NEW v \in Values, NEW t \in Times, Insert(k, v, t) PROVE IInv'
  BY <1>3, InsertStep
<1>4. ASSUME NEW t \in Times, SetClock(t) PROVE IInv'
  BY <1>4 DEF IInv, TypeOK, EveryEntryHasDeadline, NeverServesExpired, SetClock
<1>5. CASE UNCHANGED vars
  BY <1>5 DEF vars, IInv, TypeOK, EveryEntryHasDeadline, NeverServesExpired
<1>6. QED
  BY <1>1, <1>2, <1>3, <1>4, <1>5 DEF Next

LEMMA Invariant == Spec => []IInv
  BY InitIInv, NextIInv, PTL DEF Spec

\* No entry of TtlCache is ever without its own deadline in the heap.
THEOREM EntriesExpire == Spec => []EveryEntryHasDeadline
<1>1. IInv => EveryEntryHasDeadline
  BY DEF IInv
<1>2. QED
  BY <1>1, Invariant, PTL

-----------------------------------------------------------------------------
\* get_with_expiry never hands out an expired token, whatever the clock does.
THEOREM NoExpiredToken == Spec => []NeverServesExpired
<1>1. IInv => NeverServesExpired
  BY DEF IInv
<1>2. QED
  BY <1>1, Invariant, PTL

\* An operation of the cache is the same operation of the ideal map.
LEMMA StepImplements ==
    ASSUME IInv, [Next]_vars
    PROVE  [Ideal!Next]_<<entries, now, got>>
<1>1. now \in Times /\ Swept(now) = Ideal!Forget(entries, now)
  BY SweepIsForget DEF IInv, TypeOK
<1>2. ASSUME NEW k \in Keys, GetWithExpiry(k) PROVE Ideal!Get(k)
  BY <1>1, <1>2 DEF GetWithExpiry, Ideal!Get
<1>3. ASSUME NEW k \in Keys, Invalidate(k) PROVE Ideal!Invalidate(k)
  BY <1>3 DEF Invalidate, Ideal!Invalidate
<1>4. ASSUME NEW k \in Keys, NEW v \in Values, NEW t \in Times, Insert(k, v, t)
      PROVE  Ideal!Insert(k, v, t)
  BY <1>1, <1>4 DEF Insert, Ideal!Insert
<1>5. ASSUME NEW t \in Times, SetClock(t) PROVE Ideal!SetClock(t)
  BY <1>5 DEF SetClock, Ideal!SetClock
<1>6. QED
  BY <1>2, <1>3, <1>4, <1>5 DEF Next, Ideal!Next, vars

\* The heap of deadlines, with its tombstones, implements the map that forgets
\* exactly the expired entries.
THEOREM CacheImplementsMap == Spec => ImplementsMap
<1>1. Init => Ideal!Init
  BY DEF Init, Ideal!Init
<1>2. IInv /\ [Next]_vars => [Ideal!Next]_<<entries, now, got>>
  BY StepImplements
<1>3. QED
  BY <1>1, <1>2, Invariant, PTL DEF Spec, ImplementsMap, Ideal!Spec
=============================================================================
