------------------------- MODULE MCTwoStagePipeline -------------------------
(* TwoStagePipeline on small instances. *)
EXTENDS TwoStagePipeline, TLC

CONSTANTS f1, f2, e1, e2

MCFileWorkers == {f1, f2}
MCEmbedWorkers == {e1, e2}
=============================================================================
