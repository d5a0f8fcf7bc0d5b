--------------------------- MODULE MCChunkTransfer ---------------------------
(* ChunkTransfer on small instances: two peers, one asset, up to two versions. *)
EXTENDS ChunkTransfer, TLC

CONSTANTS p1, p2, s1, s2, v1, v2, a1

MCAssetOf == [b \in Blobs |-> a1]

\* Version v1 has two chunks, version v2 one, so that their buffers differ in size.
MCTotalOf == [b \in Blobs |-> IF b = v1 THEN 2 ELSE 1]

MCSymmetry == Permutations(Peers) \cup Permutations(Streams)
==============================================================================
