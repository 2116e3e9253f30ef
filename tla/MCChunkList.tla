---------------------------- MODULE MCChunkList ----------------------------
(* The list of chunks for TLC; the chunks are interchangeable. *)
EXTENDS ChunkList

Symmetry == Permutations(Chunks)
=============================================================================
