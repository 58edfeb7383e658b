------------------------- MODULE MC_SqlBlobStore -------------------------
(* Content-addressed use: one value per key, as the repository stores     *)
(* blobs under keys derived from their content.  One key is chunked in    *)
(* two chunks spread over both shards, one is inline; two writers race    *)
(* on puts that may fail, two readers run get and is_present.             *)
EXTENDS SqlBlobStore, TLC

CONSTANTS k1, k2, big, small, w1, w2, r1, r2

MCKeys == {k1, k2}
MCValues == {big, small}
MCValuesOf == [k \in MCKeys |-> IF k = k1 THEN {big} ELSE {small}]
MCNumChunks == [v \in MCValues |-> IF v = big THEN 2 ELSE 0]
MCDataShard == [k \in MCKeys |-> IF k = k1 THEN 1 ELSE 2]
\* chunk 0 of k1 shares the header's shard, chunk 1 lives on the other one
MCChunkShard == [k \in MCKeys |-> [c \in 0..1 |-> IF c = 0 THEN 1 ELSE 2]]
MCWriters == {w1, w2}
MCReaders == {r1, r2}

Symmetry == Permutations(MCWriters) \cup Permutations(MCReaders)
=============================================================================
