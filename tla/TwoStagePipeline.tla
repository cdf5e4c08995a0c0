-------------------------- MODULE TwoStagePipeline --------------------------
(***************************************************************************)
(* The two-stage streaming pipeline of the code preprocessor               *)
(* (code_preprocessor/kafka_processing_service/ingestion_processor.py).    *)
(*                                                                         *)
(* One coroutine feeds changed files into a bounded queue; file workers    *)
(* turn each file into chunks and put them on a second bounded queue;      *)
(* embed workers collect micro-batches, embed them and publish every chunk *)
(* to Kafka.  Each stage is stopped by one sentinel per worker, and the    *)
(* second stage only after every worker of the first has returned.         *)
(* A termination signal cancels the feeding coroutine at whatever await it *)
(* is suspended on.  A file's chunks become rows one at a time, and are    *)
(* queued when all are stored.  An embed worker adds to the shared count   *)
(* the size of its batch, but to the value it read before the flush.       *)
(***************************************************************************)
EXTENDS Integers, Sequences, FiniteSets, FiniteSetsExt

CONSTANTS
    FileWorkers,    \* settings.max_concurrent_files tasks
    EmbedWorkers,   \* settings.embed_workers tasks
    NFiles,         \* changed files that passed the filter
    MaxChunks,      \* bound on the chunks one file is split into
    BatchSize,      \* settings.embed_batch_size
    PipelineStore   \* whether the processor was built with a pipeline store

ASSUME ConstantsAssumption ==
    /\ IsFiniteSet(FileWorkers) /\ FileWorkers # {}
    /\ IsFiniteSet(EmbedWorkers) /\ EmbedWorkers # {}
    /\ NFiles \in Nat \ {0}
    /\ MaxChunks \in Nat
    /\ BatchSize \in Nat \ {0}
    /\ PipelineStore \in BOOLEAN

Files == 1..NFiles
Chunks == Files \X (1..MaxChunks)
NoFile == 0
Sentinel == <<0, 0>>     \* _SHUTDOWN_SENTINEL, on either queue
NotSet == -1             \* a pipeline counter that has no row yet

VARIABLES
    pc,         \* where the orchestrating coroutine is suspended
    nput,       \* puts it has done in the current stage
    fileQ,      \* asyncio.Queue of file indices and sentinels
    embedQ,     \* asyncio.Queue of chunks and sentinels
    fst,        \* state of each file worker
    cur,        \* the file a file worker is processing
    todo,       \* its chunks stored and not yet put on embedQ
    est,        \* state of each embed worker
    buf,        \* its micro-batch
    sent,       \* chunks of the batch already sent to Kafka
    exit,       \* what the worker does after the flush
    base,       \* the count it read when the flush began
    ok, fail,   \* file_ctr
    embedded,   \* embed_ctr
    chunkRows,  \* rows of code_processing.file_chunks
    unqueued,   \* history: rows of files whose enrichment then failed
    vectors,    \* rows of file_chunks whose embedding is stored
    published,  \* times each chunk was sent to the enriched-chunks topic
    settled,    \* history: chunks whose flush has returned
    produced,   \* the chunks_produced pipeline counter
    status,     \* ingestion_batches.status
    phase       \* life of the process: up, signalled, stopped, closed, torn

orchVars  == <<pc, nput, fileQ>>
fileVars  == <<fst, cur, todo, ok, fail, chunkRows, unqueued>>
batchVars == <<est, buf, sent, exit, base>>
outVars   == <<embedded, vectors, published, settled>>
doneVars  == <<produced, status>>
vars == <<orchVars, embedQ, fileVars, batchVars, outVars, doneVars, phase>>

FileQueueSize  == Cardinality(FileWorkers)
EmbedQueueSize == 2 * Cardinality(EmbedWorkers)

Init ==
    /\ pc = "feed" /\ nput = 0
    /\ fileQ = << >> /\ embedQ = << >>
    /\ fst = [w \in FileWorkers |-> "get"]
    /\ cur = [w \in FileWorkers |-> NoFile]
    /\ todo = [w \in FileWorkers |-> << >>]
    /\ est = [w \in EmbedWorkers |-> "get"]
    /\ buf = [w \in EmbedWorkers |-> << >>]
    /\ sent = [w \in EmbedWorkers |-> 0]
    /\ exit = [w \in EmbedWorkers |-> "loop"]
    /\ base = [w \in EmbedWorkers |-> 0]
    /\ ok = 0 /\ fail = 0 /\ embedded = 0
    /\ chunkRows = {} /\ unqueued = {} /\ vectors = {} /\ settled = {}
    /\ published = [c \in Chunks |-> 0]
    /\ produced = NotSet /\ status = "running" /\ phase = "up"

-----------------------------------------------------------------------------
(* The orchestrating coroutine: _run_two_stage_pipeline, then _finalize.   *)

\* await file_queue.put((ch, idx)), blocking while the queue is full
FeedFile ==
    /\ pc = "feed" /\ Len(fileQ) < FileQueueSize
    /\ fileQ' = Append(fileQ, <<nput + 1, 0>>)
    /\ IF nput + 1 = NFiles THEN pc' = "stopFiles" /\ nput' = 0
                            ELSE pc' = pc /\ nput' = nput + 1
    /\ UNCHANGED <<embedQ, fileVars, batchVars, outVars, doneVars, phase>>

\* one sentinel per file worker, then gather(*file_workers)
StopFileWorkers ==
    /\ pc = "stopFiles" /\ Len(fileQ) < FileQueueSize
    /\ fileQ' = Append(fileQ, Sentinel)
    /\ IF nput + 1 = Cardinality(FileWorkers)
         THEN pc' = "gatherFiles" /\ nput' = 0
         ELSE pc' = pc /\ nput' = nput + 1
    /\ UNCHANGED <<embedQ, fileVars, batchVars, outVars, doneVars, phase>>

\* faulty variant: the first worker to return is enough
AnyFileWorkerDone == \E w \in FileWorkers : fst[w] = "done"
FileWorkersDone == \A w \in FileWorkers : fst[w] = "done"

GatherFileWorkers ==
    /\ pc = "gatherFiles" /\ FileWorkersDone
    /\ pc' = "stopEmbed"
    /\ UNCHANGED <<nput, fileQ, embedQ, fileVars, batchVars, outVars, doneVars, phase>>

\* faulty variant: a single sentinel for the whole stage
OneSentinel == 1
EmbedSentinels == Cardinality(EmbedWorkers)

\* one sentinel per embed worker, then gather(*embed_workers)
StopEmbedWorkers ==
    /\ pc = "stopEmbed" /\ Len(embedQ) < EmbedQueueSize
    /\ embedQ' = Append(embedQ, Sentinel)
    /\ IF nput + 1 = EmbedSentinels
         THEN pc' = "gatherEmbed" /\ nput' = 0
         ELSE pc' = pc /\ nput' = nput + 1
    /\ UNCHANGED <<fileQ, fileVars, batchVars, outVars, doneVars, phase>>

GatherEmbedWorkers ==
    /\ pc = "gatherEmbed" /\ \A w \in EmbedWorkers : est[w] = "done"
    /\ pc' = "counters"
    /\ UNCHANGED <<nput, fileQ, embedQ, fileVars, batchVars, outVars, doneVars, phase>>

\* the pipeline counters are set from the embed workers' count, if there is a
\* store; when that fails the run goes on without
SetCounters ==
    /\ pc = "counters"
    /\ pc' = "complete"
    /\ produced' \in {produced} \cup (IF PipelineStore THEN {embedded} ELSE {})
    /\ UNCHANGED <<nput, fileQ, embedQ, fileVars, batchVars, outVars, status, phase>>

MarkCompleted ==
    /\ pc = "complete"
    /\ pc' = "done" /\ status' = "completed"
    /\ UNCHANGED <<nput, fileQ, embedQ, fileVars, batchVars, outVars, produced, phase>>

\* mark_completed raised: the consumer's task ends with it, which is what
\* main() waits for, and the service shuts down with the row still 'running'
MarkFails ==
    /\ pc = "complete"
    /\ pc' = "cancelled" /\ phase' = "signalled"
    /\ UNCHANGED <<nput, fileQ, embedQ, fileVars, batchVars, outVars, doneVars>>

-----------------------------------------------------------------------------
(* A file worker: _file_worker around process_file.                        *)

FileGet(w) ==
    /\ fst[w] = "get" /\ fileQ # << >>
    /\ fileQ' = Tail(fileQ)
    /\ IF Head(fileQ) = Sentinel
         THEN fst' = [fst EXCEPT ![w] = "done"] /\ cur' = cur
         ELSE /\ fst' = [fst EXCEPT ![w] = "process"]
              /\ cur' = [cur EXCEPT ![w] = Head(fileQ)[1]]
    /\ UNCHANGED <<pc, nput, embedQ, todo, ok, fail, chunkRows, unqueued,
                   batchVars, outVars, doneVars, phase>>

\* process_file raised before it stored a chunk: counted as failed, the worker
\* goes on
ProcessRaises(w) ==
    /\ fst[w] = "process"
    /\ fail' = fail + 1
    /\ fst' = [fst EXCEPT ![w] = "get"]
    /\ cur' = [cur EXCEPT ![w] = NoFile]
    /\ UNCHANGED <<orchVars, embedQ, todo, ok, chunkRows, unqueued, batchVars,
                   outVars, doneVars, phase>>

\* chunk_and_enrich_file inserts the row of the file's next chunk
StoreChunk(w) == LET c == <<cur[w], Len(todo[w]) + 1>> IN
    /\ fst[w] \in {"process", "store"} /\ Len(todo[w]) < MaxChunks
    /\ fst' = [fst EXCEPT ![w] = "store"]
    /\ todo' = [todo EXCEPT ![w] = Append(@, c)]
    /\ chunkRows' = chunkRows \cup {c}
    /\ UNCHANGED <<orchVars, embedQ, cur, ok, fail, unqueued, batchVars, outVars,
                   doneVars, phase>>

\* an insert or a header raised: process_file logs it and goes on without the
\* items it would have queued; the rows stay, and the file will count as ok
EnrichFails(w) ==
    /\ fst[w] = "store"
    /\ fst' = [fst EXCEPT ![w] = "put"]
    /\ todo' = [todo EXCEPT ![w] = << >>]
    /\ unqueued' = unqueued \cup {todo[w][i] : i \in DOMAIN todo[w]}
    /\ UNCHANGED <<orchVars, embedQ, cur, ok, fail, chunkRows, batchVars, outVars,
                   doneVars, phase>>

\* the file has all its rows, or none: skipped, deleted, empty, or failed
\* before the first
ProcessChunks(w) ==
    /\ fst[w] \in {"process", "store"}
    /\ fst' = [fst EXCEPT ![w] = "put"]
    /\ UNCHANGED <<orchVars, embedQ, cur, todo, ok, fail, chunkRows, unqueued,
                   batchVars, outVars, doneVars, phase>>

\* await embed_queue.put(item), blocking while the queue is full
PutChunk(w) ==
    /\ fst[w] = "put" /\ todo[w] # << >>
    /\ Len(embedQ) < EmbedQueueSize
    /\ embedQ' = Append(embedQ, Head(todo[w]))
    /\ todo' = [todo EXCEPT ![w] = Tail(@)]
    /\ UNCHANGED <<orchVars, fst, cur, ok, fail, chunkRows, unqueued, batchVars,
                   outVars, doneVars, phase>>

FileDone(w) ==
    /\ fst[w] = "put" /\ todo[w] = << >>
    /\ ok' = ok + 1
    /\ fst' = [fst EXCEPT ![w] = "get"]
    /\ cur' = [cur EXCEPT ![w] = NoFile]
    /\ UNCHANGED <<orchVars, embedQ, todo, fail, chunkRows, unqueued, batchVars,
                   outVars, doneVars, phase>>

-----------------------------------------------------------------------------
(* An embed worker: _embed_worker around _flush_embed.                     *)

\* `ctr["embedded"] += await self._flush_embed(...)`: the count is read, then
\* the flush begins
BeginFlush(w) ==
    /\ est' = [est EXCEPT ![w] = "embed"]
    /\ base' = [base EXCEPT ![w] = embedded]

\* the batch just received x: flush when full, else wait for more
Received(w, x) ==
    /\ buf' = [buf EXCEPT ![w] = Append(@, x)]
    /\ IF Len(buf[w]) + 1 < BatchSize
         THEN est' = [est EXCEPT ![w] = "collect"] /\ UNCHANGED base
         ELSE BeginFlush(w)
    /\ UNCHANGED exit

\* faulty variant: return without flushing the partial batch
ReceivedSentinelDropping(w) ==
    /\ est' = [est EXCEPT ![w] = "done"]
    /\ exit' = [exit EXCEPT ![w] = "return"]
    /\ buf' = [buf EXCEPT ![w] = << >>]
    /\ UNCHANGED base

\* a sentinel: return at once, or after flushing what was collected
ReceivedSentinel(w) ==
    /\ IF buf[w] = << >> THEN est' = [est EXCEPT ![w] = "done"] /\ UNCHANGED base
                         ELSE BeginFlush(w)
    /\ exit' = [exit EXCEPT ![w] = "return"]
    /\ UNCHANGED buf

Stops(w, x) == x = Sentinel

EmbedGet(w) ==
    /\ est[w] \in {"get", "collect"} /\ embedQ # << >>
    /\ embedQ' = Tail(embedQ)
    /\ IF Stops(w, Head(embedQ)) THEN ReceivedSentinel(w)
                                  ELSE Received(w, Head(embedQ))
    /\ UNCHANGED <<orchVars, fileVars, sent, outVars, doneVars, phase>>

\* wait_for timed out with a partial batch
BatchTimeout(w) ==
    /\ est[w] = "collect"
    /\ BeginFlush(w)
    /\ UNCHANGED <<orchVars, embedQ, fileVars, buf, sent, exit, outVars, doneVars, phase>>

\* faulty variant: the batch is not cleared after the flush
FlushReturnsKeeping(w, n) ==
    /\ embedded' = base[w] + n
    /\ settled' = settled \cup {buf[w][i] : i \in DOMAIN buf[w]}
    /\ sent' = [sent EXCEPT ![w] = 0]
    /\ base' = [base EXCEPT ![w] = 0]
    /\ est' = [est EXCEPT ![w] = IF exit[w] = "loop" THEN "collect" ELSE "done"]
    /\ UNCHANGED <<buf, exit>>

\* the flush returned n: store what was read plus n, which undoes what other
\* workers added since; forget the batch, loop or return
FlushReturns(w, n) ==
    /\ embedded' = base[w] + n
    /\ settled' = settled \cup {buf[w][i] : i \in DOMAIN buf[w]}
    /\ buf' = [buf EXCEPT ![w] = << >>]
    /\ sent' = [sent EXCEPT ![w] = 0]
    /\ base' = [base EXCEPT ![w] = 0]
    /\ est' = [est EXCEPT ![w] = IF exit[w] = "loop" THEN "get" ELSE "done"]
    /\ UNCHANGED exit

\* faulty variant: the whole batch is counted
WholeBatch(w) == Len(buf[w])
FailedCount(w) == 0

\* pool closed, embedding refused or Kafka raised: the batch counts as 0
FlushFails(w) ==
    /\ est[w] \in {"embed", "publish"}
    /\ FlushReturns(w, FailedCount(w))
    /\ UNCHANGED <<orchVars, embedQ, fileVars, vectors, published, doneVars, phase>>

\* the embeddings arrived and were stored in file_chunks
EmbedBatch(w) ==
    /\ est[w] = "embed" /\ phase \in {"up", "signalled", "stopped"}
    /\ vectors' = vectors \cup {buf[w][i] : i \in DOMAIN buf[w]}
    /\ est' = [est EXCEPT ![w] = "publish"]
    /\ UNCHANGED <<orchVars, embedQ, fileVars, buf, sent, exit, base, embedded,
                   published, settled, doneVars, phase>>

\* producer.send of the next chunk of the batch
SendChunk(w) ==
    /\ est[w] = "publish" /\ sent[w] < Len(buf[w]) /\ phase \in {"up", "signalled"}
    /\ published' = [published EXCEPT ![buf[w][sent[w] + 1]] = @ + 1]
    /\ sent' = [sent EXCEPT ![w] = @ + 1]
    /\ UNCHANGED <<orchVars, embedQ, fileVars, est, buf, exit, base, embedded,
                   vectors, settled, doneVars, phase>>

FlushSucceeds(w) ==
    /\ est[w] = "publish" /\ sent[w] = Len(buf[w])
    /\ FlushReturns(w, Len(buf[w]))
    /\ UNCHANGED <<orchVars, embedQ, fileVars, vectors, published, doneVars, phase>>

-----------------------------------------------------------------------------
(* Termination: main() cancels the consumer task, stops the producer,      *)
(* closes the pool, and asyncio.run cancels what is left.                  *)

\* CancelledError in an embed worker: flush the batch once more if it can,
\* reading the count again
CancelEmbedWorkers ==
    LET flushes == {w \in EmbedWorkers :
                      /\ est[w] \in {"collect", "embed", "publish"}
                      /\ exit[w] # "cancelled" /\ phase \in {"up", "signalled", "stopped"}}
    IN /\ est' = [w \in EmbedWorkers |-> IF w \in flushes THEN "embed" ELSE "done"]
       /\ exit' = [w \in EmbedWorkers |-> IF w \in flushes THEN "cancelled" ELSE exit[w]]
       /\ base' = [w \in EmbedWorkers |-> IF w \in flushes THEN embedded ELSE 0]
       /\ sent' = [w \in EmbedWorkers |-> 0]
       /\ UNCHANGED buf

CancelFileWorkers == fst' = [w \in FileWorkers |-> "done"]

\* the signal reaches the coroutine where it is suspended; a gather passes
\* the cancellation on to the tasks it waits for, a put does not
Signal ==
    /\ phase = "up" /\ pc # "done"
    /\ phase' = "signalled" /\ pc' = "cancelled"
    /\ IF pc = "gatherFiles" THEN CancelFileWorkers ELSE UNCHANGED fst
    /\ IF pc = "gatherEmbed" THEN CancelEmbedWorkers ELSE UNCHANGED batchVars
    /\ UNCHANGED <<nput, fileQ, embedQ, cur, todo, ok, fail, chunkRows, unqueued,
                   outVars, doneVars>>

StopProducer ==
    /\ phase = "signalled" /\ phase' = "stopped"
    /\ UNCHANGED <<orchVars, embedQ, fileVars, batchVars, outVars, doneVars>>

ClosePool ==
    /\ phase = "stopped" /\ phase' = "closed"
    /\ UNCHANGED <<orchVars, embedQ, fileVars, batchVars, outVars, doneVars>>

TearDown ==
    /\ phase = "closed" /\ phase' = "torn"
    /\ CancelFileWorkers /\ CancelEmbedWorkers
    /\ UNCHANGED <<orchVars, embedQ, cur, todo, ok, fail, chunkRows, unqueued,
                   outVars, doneVars>>

-----------------------------------------------------------------------------
Orchestrate == \/ FeedFile \/ StopFileWorkers \/ GatherFileWorkers
               \/ StopEmbedWorkers \/ GatherEmbedWorkers
               \/ SetCounters \/ MarkCompleted
FileWorker(w) == \/ FileGet(w) \/ ProcessRaises(w)
                 \/ StoreChunk(w) \/ EnrichFails(w) \/ ProcessChunks(w)
                 \/ PutChunk(w) \/ FileDone(w)
EmbedWorker(w) == \/ EmbedGet(w) \/ BatchTimeout(w) \/ FlushFails(w)
                  \/ EmbedBatch(w) \/ SendChunk(w) \/ FlushSucceeds(w)
Work == \/ Orchestrate
        \/ \E w \in FileWorkers : FileWorker(w)
        \/ \E w \in EmbedWorkers : EmbedWorker(w)
ShutDown == Signal \/ MarkFails \/ StopProducer \/ ClosePool \/ TearDown
Terminated == (pc = "done" \/ phase = "torn") /\ UNCHANGED vars

Next == Work \/ ShutDown \/ Terminated

Spec == Init /\ [][Next]_vars

\* the event loop runs every task that is ready; a signal is never forced
FairSpec ==
    /\ Spec
    /\ WF_vars(Orchestrate)
    /\ \A w \in FileWorkers : WF_vars(FileWorker(w))
    /\ \A w \in EmbedWorkers : WF_vars(EmbedWorker(w))
-----------------------------------------------------------------------------
(* Properties.                                                             *)

\* Every variable stays in its type.
TypeOK ==
    /\ pc \in {"feed", "stopFiles", "gatherFiles", "stopEmbed", "gatherEmbed",
               "counters", "complete", "done", "cancelled"}
    /\ nput \in Nat
    /\ fileQ \in Seq({<<f, 0>> : f \in 0..NFiles})
    /\ embedQ \in Seq(Chunks \cup {Sentinel})
    /\ fst \in [FileWorkers -> {"get", "process", "store", "put", "done"}]
    /\ cur \in [FileWorkers -> 0..NFiles]
    /\ todo \in [FileWorkers -> Seq(Chunks)]
    /\ est \in [EmbedWorkers -> {"get", "collect", "embed", "publish", "done"}]
    /\ buf \in [EmbedWorkers -> Seq(Chunks)]
    /\ sent \in [EmbedWorkers -> Nat]
    /\ exit \in [EmbedWorkers -> {"loop", "return", "cancelled"}]
    /\ base \in [EmbedWorkers -> Nat]
    /\ ok \in Nat /\ fail \in Nat /\ embedded \in Nat
    /\ chunkRows \subseteq Chunks /\ unqueued \subseteq Chunks
    /\ vectors \subseteq Chunks /\ settled \subseteq Chunks
    /\ published \in [Chunks -> Nat]
    /\ produced \in Nat \cup {NotSet}
    /\ status \in {"running", "completed"}
    /\ phase \in {"up", "signalled", "stopped", "closed", "torn"}

\* The pair of gathers orders the stages: once a sentinel is on the embed queue
\* no file worker can still add a chunk, and no chunk is stranded behind a
\* sentinel (ingestion_processor.py, the second gather and its sentinels).
StagesInOrder ==
    \A i \in DOMAIN embedQ : embedQ[i] = Sentinel =>
        /\ \A w \in FileWorkers : fst[w] = "done"
        /\ \A j \in DOMAIN embedQ : j > i => embedQ[j] = Sentinel

\* When a run that was not interrupted reports completion, every file was
\* counted once, and every stored chunk has been through a flush, unless the
\* enrichment of its file failed part way (and nothing of such a file is in a
\* batch): nothing is left in a queue, a batch or a half-processed file.
NothingStranded ==
    pc \in {"counters", "complete", "done"} =>
        /\ ok + fail = NFiles
        /\ chunkRows = settled \cup unqueued
        /\ \A c \in settled, d \in unqueued : c[1] # d[1]
        /\ fileQ = << >> /\ embedQ = << >>

PublishedChunks == {c \in Chunks : published[c] > 0}

\* The count that becomes chunks_produced, on which the completion of every
\* later service rests, never exceeds the chunks that were really published,
\* although the workers overwrite each other's additions (it may fall short).
NeverOverstated ==
    /\ embedded <= Cardinality(PublishedChunks)
    /\ produced # NotSet => produced = embedded

\* A cancelled embed worker flushes its batch once more (the CancelledError
\* handler of _embed_worker), so a chunk may be sent twice but never thrice,
\* and the second time only after the signal; the count is never doubled.
ResentOnlyByCancellation ==
    [][\A c \in Chunks : published'[c] # published[c] =>
          /\ published[c] <= 1
          /\ published[c] = 1 => \E w \in EmbedWorkers : exit[w] = "cancelled"]_vars

\* A run that is not interrupted ends, whatever blocks on the bounded queues:
\* the batch row reaches 'completed', unless that update fails and ends the
\* service.
Completes == <>(phase # "up" \/ (pc = "done" /\ status = "completed"))

\* The promise of an ingestion, without queues, workers and batches.
Promise == INSTANCE IngestPromise WITH
    handled <- ok + fail, rows <- chunkRows, counted <- embedded,
    settled <- settled \cup unqueued,
    state <- IF phase = "up" THEN status ELSE "interrupted"
PromiseSpec == Promise!Spec
=============================================================================
