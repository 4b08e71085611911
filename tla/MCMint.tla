------------------------------- MODULE MCMint -------------------------------
(* Small instances of Mint.                                                  *)
EXTENDS Mint

CONSTANTS c1, c2, c3,   \* connections: one resolves, one waits, one interferes
          p, q,         \* repository paths
          i1, i2        \* ids: for two paths, or for one path re-created

MCCallers == {c1, c2, c3}
MCOnePath == {p}
MCPaths == {p, q}
MCIds == {i1, i2}
=============================================================================
