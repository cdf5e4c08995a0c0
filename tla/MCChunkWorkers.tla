--------------------------- MODULE MCChunkWorkers ---------------------------
(* ChunkWorkers on small instances. *)
EXTENDS ChunkWorkers, TLC

CONSTANTS w1, w2, ca, cb, cc

TwoWorkers == {w1, w2}
Chunks == {ca, cb, cc}

ThreeChunks == <<ca, cb, cc>>

NoChunks == {}
OnlyA == {ca}
OnlyB == {cb}
BothAB == {ca, cb}

Symmetry == Permutations(TwoWorkers)
=============================================================================
