---------------------------- MODULE ExpiringMap ----------------------------
(***************************************************************************)
(* What TtlCache promises, with nothing but a map: every operation that    *)
(* reads the clock first forgets every entry whose time has come.  The     *)
(* clock is the wall clock, which may also be set back.                    *)
(***************************************************************************)
EXTENDS Integers

CONSTANTS Keys, Values, Times, None

VARIABLES map,   \* key -> [value, expires_at], or None
          now,   \* what the clock shows
          got    \* what the last operation returned

Forget(m, t) ==
    [k \in Keys |-> IF m[k] # None /\ m[k].expires_at <= t THEN None ELSE m[k]]

Init ==
    /\ map = [k \in Keys |-> None]
    /\ now \in Times
    /\ got = None

Get(k) ==
    /\ map' = Forget(map, now)
    /\ got' = Forget(map, now)[k]
    /\ UNCHANGED now

Insert(k, v, t) ==
    /\ map' = [Forget(map, now) EXCEPT ![k] = [value |-> v, expires_at |-> t]]
    /\ got' = None
    /\ UNCHANGED now

Invalidate(k) ==
    /\ map' = [map EXCEPT ![k] = None]
    /\ got' = None
    /\ UNCHANGED now

SetClock(t) ==
    /\ now' = t
    /\ got' = None
    /\ UNCHANGED map

Next ==
    \/ \E k \in Keys : Get(k) \/ Invalidate(k)
    \/ \E k \in Keys, v \in Values, t \in Times : Insert(k, v, t)
    \/ \E t \in Times : SetClock(t)

Spec == Init /\ [][Next]_<<map, now, got>>
=============================================================================
