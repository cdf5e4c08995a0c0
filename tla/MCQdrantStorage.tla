--------------------------- MODULE MCQdrantStorage ---------------------------
(* QdrantStorage on small instances. *)
EXTENDS QdrantStorage, TLC

CONSTANTS w1, w2, chunks, embeddings, a, b, e, f, v1, v2

OneWorker == {w1}
TwoWorkers == {w1, w2}
BothTopics == {chunks, embeddings}
AllPoints == {a, b, e, f}

Chunk(p, v) == [kind |-> "chunk", id |-> p, fv |-> v]
Document(p, v) == [kind |-> "document", id |-> p, fv |-> v]
Entity(p, v) == [kind |-> "entity", id |-> p, fv |-> v]
Delete(v) == [kind |-> "delete", id |-> None, fv |-> v]

\* a file version is deleted, while a document stays; the second message of
\* the first topic is a chunk of under 50 characters
Replaced == chunks :> <<Chunk(a, v1), Chunk(f, v2), Document(b, v2), Delete(v1)>>
            @@ embeddings :> <<Entity(e, v1)>>
ShortChunk == {<<chunks, 2>>}

\* a smaller log for the runs of two workers: no chunk is long enough
WithoutLongChunk ==
    chunks :> <<Chunk(a, v1), Document(b, v2), Delete(v1)>> @@ embeddings :> <<Entity(e, v1)>>
FirstChunk == {<<chunks, 1>>}

OwnName == [p \in AllPoints |-> p]
=============================================================================
