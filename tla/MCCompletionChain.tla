---------------------------- MODULE MCCompletionChain ----------------------------
(* CompletionChain on small instances. *)
EXTENDS CompletionChain, TLC

CONSTANTS w1, w2, ca, cb

TwoWorkers == {w1, w2}
Chunks == {ca, cb}

\* one chunk has entities only, the other a summary only; the other service
\* found their checkpoints
HalfUnchanged == [s \in Upstream |-> IF s = "extraction" THEN {cb} ELSE {ca}]

OneEach == [s \in Upstream |-> [c \in Chunk |-> 1]]
=============================================================================
