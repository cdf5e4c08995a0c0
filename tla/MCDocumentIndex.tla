--------------------------- MODULE MCDocumentIndex ---------------------------
(* DocumentIndex on small instances. *)
EXTENDS DocumentIndex, TLC

CONSTANTS d1, d2, ta, tb, tw, r1, r2

OneDoc == {d1}
Texts == {ta, tb, tw}
White == {tw}
Rpcs == {r1, r2}
=============================================================================
