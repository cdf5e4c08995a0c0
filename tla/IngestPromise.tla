--------------------------- MODULE IngestPromise ---------------------------
(***************************************************************************)
(* What one ingestion of the code preprocessor promises: every changed     *)
(* file is handled once, every chunk is published at most once, no more    *)
(* chunks are reported than met their fate and were published, and the     *)
(* ingestion is reported complete only when every file is handled and      *)
(* every chunk has met its fate.  It does not promise to report all that   *)
(* were published.  An interrupted ingestion may publish a chunk twice,    *)
(* and is never reported complete.  TwoStagePipeline implements it.        *)
(***************************************************************************)
EXTENDS Integers, FiniteSets

CONSTANTS NFiles, MaxChunks

Chunks == (1..NFiles) \X (1..MaxChunks)

VARIABLES
    handled,    \* files finished or failed
    rows,       \* chunks that exist
    published,  \* times each chunk was published
    settled,    \* chunks nothing more will happen to
    counted,    \* chunks reported as produced
    state       \* "running", "interrupted" or "completed"

vars == <<handled, rows, published, settled, counted, state>>

Init ==
    /\ handled = 0 /\ counted = 0
    /\ rows = {} /\ settled = {}
    /\ published = [c \in Chunks |-> 0]
    /\ state = "running"

\* some file that is not handled yet is split into chunks
Split(S) ==
    /\ handled < NFiles
    /\ S \cap rows = {}
    /\ rows' = rows \cup S
    /\ UNCHANGED <<handled, published, settled, counted, state>>

Handle ==
    /\ handled < NFiles
    /\ handled' = handled + 1
    /\ UNCHANGED <<rows, published, settled, counted, state>>

Publish(c) ==
    /\ c \in rows \ settled
    /\ published[c] = 0 \/ (state = "interrupted" /\ published[c] = 1)
    /\ published' = [published EXCEPT ![c] = @ + 1]
    /\ UNCHANGED <<handled, rows, settled, counted, state>>

\* the chunks of B meet their fate; the report may lag behind what was
\* published, or fall back, but is never ahead
Settle(B) ==
    /\ B # {} /\ B \cap settled = {} /\ B \subseteq rows
    /\ settled' = settled \cup B
    /\ counted' \in 0..Cardinality({c \in settled \cup B : published[c] > 0})
    /\ UNCHANGED <<handled, rows, published, state>>

Complete ==
    /\ state = "running" /\ handled = NFiles /\ settled = rows
    /\ state' = "completed"
    /\ UNCHANGED <<handled, rows, published, settled, counted>>

Interrupt ==
    /\ state = "running"
    /\ state' = "interrupted"
    /\ UNCHANGED <<handled, rows, published, settled, counted>>

Next ==
    \/ Interrupt
    \/ \E S \in SUBSET Chunks : Split(S)
    \/ Handle
    \/ \E c \in Chunks : Publish(c)
    \/ \E B \in SUBSET Chunks : Settle(B)
    \/ Complete

Spec == Init /\ [][Next]_vars
=============================================================================
