------------------------------ MODULE MC_Between ------------------------------
(* Every first-parent map on four changesets, and every request of up to  *)
(* two pairs drawn from them, the null hash and an unknown hash.          *)
EXTENDS Between

CONSTANTS null, unknown

MCNodes == 1..4
MCRepos == {p \in [MCNodes -> MCNodes \cup {null}] :
              \A c \in MCNodes : p[c] = null \/ p[c] < c}
MCPair == (MCNodes \cup {null, unknown}) \X (MCNodes \cup {null, unknown})
MCQueries == {<<>>} \cup {<<x>> : x \in MCPair} \cup {<<x, y>> : x, y \in MCPair}
=============================================================================
