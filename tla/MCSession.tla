------------------------------ MODULE MCSession ------------------------------
(* Session with two keys, connections, helper runs and repositories.         *)
EXTENDS Session, TLC

CONSTANTS a, k1, k2, s1, s2, h1, h2, p, q

MCClients == {a}
MCKeys == {k1, k2}
MCConns == {s1, s2}
MCHelpers == {h1, h2}
MCPaths == {p, q}

\* Nothing distinguishes the members of these sets.
Symmetric == Permutations(MCKeys) \cup Permutations(MCConns)
                 \cup Permutations(MCHelpers) \cup Permutations(MCPaths)
=============================================================================
