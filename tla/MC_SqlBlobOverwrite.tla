----------------------- MODULE MC_SqlBlobOverwrite -----------------------
(* Two writers put different chunked values under the same key, which the *)
(* store's contract allows ("first write wins").  Chunk rows and header    *)
(* row are separate INSERT OR IGNORE statements, so each row has its own  *)
(* first writer.                                                           *)
EXTENDS SqlBlobStore, TLC

CONSTANTS k1, va, vb, w1, w2, r1

MCKeys == {k1}
MCValues == {va, vb}
MCValuesOf == [k \in MCKeys |-> {va, vb}]
MCNumChunks == [v \in MCValues |-> 2]
MCDataShard == [k \in MCKeys |-> 1]
MCChunkShard == [k \in MCKeys |-> [c \in 0..1 |-> IF c = 0 THEN 1 ELSE 2]]
MCWriters == {w1, w2}
MCReaders == {r1}
=============================================================================
