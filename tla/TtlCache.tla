------------------------------ MODULE TtlCache ------------------------------
(***************************************************************************)
(* TtlCache: a hash map whose entries expire, and the min-heap of          *)
(* deadlines that tells which ones have.  Only the heap is looked at when  *)
(* entries expire, and it is not told when an entry is replaced or         *)
(* invalidated: such deadlines stay behind as tombstones.                  *)
(*                                                                         *)
(* The provider's clock is SystemTime::now, so it may be set back.  Equal  *)
(* deadlines leave the heap in one sweep, so the heap is a set here.       *)
(***************************************************************************)
EXTENDS Integers

CONSTANTS Keys, Values,
          Times,       \* instants the clock may show and entries may expire at
          None         \* no entry, no answer

ASSUME TimesAssumption == Times \subseteq Int
ASSUME NoneAssumption == None \notin [value : Values, expires_at : Times]

VARIABLES entries,      \* Inner::entries: key -> (value, expires_at), or None
          expirations,  \* Inner::expirations: the deadlines <<expires_at, key>>
          now,          \* what the clock shows
          got           \* what the last operation returned

vars == <<entries, expirations, now, got>>

Deadlines == Times \X Keys
Entries == [value : Values, expires_at : Times]

-----------------------------------------------------------------------------
Init ==
    /\ entries = [k \in Keys |-> None]
    /\ expirations = {}
    /\ now \in Times
    /\ got = None

\* sweep pops the heap while its top, the earliest deadline, is not after t.
Due(t) == {d \in expirations : d[1] <= t}

\* Faulty variant: a popped deadline evicts whatever its key holds now.
SweptByKey(t) ==
    [k \in Keys |-> IF \E d \in Due(t) : d[2] = k THEN None ELSE entries[k]]

\* A popped deadline evicts the entry only if it is still that entry's own.
Swept(t) ==
    [k \in Keys |->
        IF entries[k] # None /\ <<entries[k].expires_at, k>> \in Due(t)
        THEN None ELSE entries[k]]

\* Faulty variant: the answer is read before the sweep.
GetBeforeSweep(k) ==
    /\ entries' = Swept(now)
    /\ expirations' = expirations \ Due(now)
    /\ got' = entries[k]
    /\ UNCHANGED now

GetWithExpiry(k) ==
    /\ entries' = Swept(now)
    /\ expirations' = expirations \ Due(now)
    /\ got' = Swept(now)[k]
    /\ UNCHANGED now

\* Faulty variant: a replaced entry does not get a deadline of its own.
InsertReusesDeadline(k, v, t) ==
    /\ entries' = [Swept(now) EXCEPT ![k] = [value |-> v, expires_at |-> t]]
    /\ expirations' = (expirations \ Due(now))
                          \cup IF Swept(now)[k] = None THEN {<<t, k>>} ELSE {}
    /\ got' = None
    /\ UNCHANGED now

\* The deadline may already be past; the entry then lives until the next sweep.
Insert(k, v, t) ==
    /\ entries' = [Swept(now) EXCEPT ![k] = [value |-> v, expires_at |-> t]]
    /\ expirations' = (expirations \ Due(now)) \cup {<<t, k>>}
    /\ got' = None
    /\ UNCHANGED now

Invalidate(k) ==
    /\ entries' = [entries EXCEPT ![k] = None]
    /\ got' = None
    /\ UNCHANGED <<expirations, now>>

\* Time passes, or the wall clock is set.
SetClock(t) ==
    /\ now' = t
    /\ got' = None
    /\ UNCHANGED <<entries, expirations>>

Next ==
    \/ \E k \in Keys : GetWithExpiry(k) \/ Invalidate(k)
    \/ \E k \in Keys, v \in Values, t \in Times : Insert(k, v, t)
    \/ \E t \in Times : SetClock(t)

Spec == Init /\ [][Next]_vars

(***************************************************************************)
(* Properties                                                              *)
(***************************************************************************)

\* Every variable has its type.
TypeOK ==
    /\ entries \in [Keys -> Entries \cup {None}]
    /\ expirations \in SUBSET Deadlines
    /\ now \in Times
    /\ got \in Entries \cup {None}

\* Every entry's own deadline is in the heap, whatever tombstones surround it:
\* otherwise a token would outlive its expiry for good.
EveryEntryHasDeadline ==
    \A k \in Keys : entries[k] # None => <<entries[k].expires_at, k>> \in expirations

\* get_with_expiry never returns an entry that has expired, even one whose
\* deadline was inserted late, replaced, invalidated, or passed while the clock
\* was being set back and forth.
NeverServesExpired == got # None => got.expires_at > now

\* The heap with its tombstones is invisible: the cache is the map in which
\* every operation forgets exactly the expired entries.
Ideal == INSTANCE ExpiringMap WITH map <- entries
ImplementsMap == Ideal!Spec
=============================================================================
