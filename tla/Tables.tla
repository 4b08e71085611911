------------------------------- MODULE Tables -------------------------------
(***************************************************************************)
(* SharedState's two tables as the wire path sees them: how enroll_client  *)
(* and revoke_client change them while the daemon is up, with no files,    *)
(* locks or history.  Session reads tables that change like this, and      *)
(* Enrollment's do not change in any other way.                            *)
(***************************************************************************)
CONSTANTS Clients, Keys, NoKey

VARIABLES up,         \* is the daemon serving?
          clients,    \* the identities with metadata
          psks        \* identity -> key, or NoKey

vars == <<up, clients, psks>>

TypeOK == psks \in [Clients -> Keys \cup {NoKey}] /\ clients \in SUBSET Clients

\* An earlier failure may have left a key without metadata, or the reverse.
Init == TypeOK

\* enroll_client: both tables at once, for a client that has no metadata.
Enroll(c, k) ==
    /\ c \notin clients
    /\ psks' = [psks EXCEPT ![c] = k]
    /\ clients' = clients \cup {c}

\* revoke_client removes the key before its second write ...
RemoveKey(c) ==
    /\ c \in clients /\ psks[c] # NoKey
    /\ psks' = [psks EXCEPT ![c] = NoKey]
    /\ UNCHANGED clients

\* ... and the metadata after it; enroll_client's rollback removes both.
RemoveClient(c) ==
    /\ c \in clients
    /\ psks' = [psks EXCEPT ![c] = NoKey]
    /\ clients' = clients \ {c}

\* The daemon stops or starts.
Restart ==
    /\ up' # up
    /\ TypeOK'

Next ==
    \/ /\ up /\ up'
       /\ \/ \E c \in Clients, k \in Keys : Enroll(c, k)
          \/ \E c \in Clients : RemoveKey(c) \/ RemoveClient(c)
    \/ Restart

Spec == Init /\ [][Next]_vars
=============================================================================
