------------------------------- MODULE Roster -------------------------------
(***************************************************************************)
(* What the roster of enrolled clients promises to the operator and to the *)
(* wire path, with no files, locks or buffers: an operation on a client    *)
(* unsettles that client only, an acknowledgement settles it, and a        *)
(* restart brings every settled client back exactly as acknowledged.       *)
(* About an unsettled client it promises nothing.                          *)
(***************************************************************************)
CONSTANTS Clients, Keys, NoKey

VARIABLES up,         \* is the daemon serving?
          auth,       \* client -> the key it is authorised with, or NoKey
          acked,      \* client -> the state its last acknowledged operation left
          unsettled   \* clients whose last operation was not acknowledged

vars == <<up, auth, acked, unsettled>>

Tables == [Clients -> Keys \cup {NoKey}]
Nobody == [c \in Clients |-> NoKey]

Init ==
    /\ up = TRUE
    /\ auth = Nobody
    /\ acked = Nobody
    /\ unsettled = {}

OnlyChanges(c) ==
    /\ auth' \in Tables
    /\ \A d \in Clients \ {c} : auth'[d] = auth[d]

\* An operation on c starts, goes on, or fails.
Unsettle(c) ==
    /\ up /\ up'
    /\ unsettled' = unsettled \cup {c}
    /\ OnlyChanges(c)
    /\ UNCHANGED acked

\* The operation on c answers ok: c is now, and stays, what it is told to be.
Settle(c) ==
    /\ up /\ up'
    /\ c \in unsettled
    /\ unsettled' = unsettled \ {c}
    /\ OnlyChanges(c)
    /\ acked' = [acked EXCEPT ![c] = auth'[c]]

Stop ==
    /\ up' = FALSE
    /\ auth' = Nobody
    /\ UNCHANGED <<acked, unsettled>>

Start ==
    /\ ~up /\ up'
    /\ auth' \in Tables
    /\ \A c \in Clients \ unsettled : auth'[c] = acked[c]
    /\ UNCHANGED <<acked, unsettled>>

Next ==
    \/ \E c \in Clients : Unsettle(c) \/ Settle(c)
    \/ Stop
    \/ Start

Spec == Init /\ [][Next]_vars
=============================================================================
