---------------------------- MODULE MCEnrollment ----------------------------
(* Small instances of Enrollment.                                            *)
EXTENDS Enrollment, TLC

CONSTANTS a, b,          \* two clients
          k1, k2,        \* two keys, for either of them or for both
          r1, r2         \* two admin connections

MCClients == {a, b}
MCKeys == {k1, k2}
MCRequests == {r1, r2}

\* Nothing tells the members of these sets apart: where Parse chooses a key there is
\* one to choose, since a rendered table has one line for a client.
MCSymmetry == Permutations(MCClients) \cup Permutations(MCKeys) \cup Permutations(MCRequests)
=============================================================================
