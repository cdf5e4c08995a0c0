---------------------------- MODULE ChunkWorkers ----------------------------
(***************************************************************************)
(* The entity extraction service: a Kafka consumer that feeds a pool of    *)
(* workers through a bounded queue (entity_extraction_service/consumer.py, *)
(* processor.py and pipeline_store.py).  The summarization service has the *)
(* same control, with one counter where this one has two.                  *)
(*                                                                         *)
(* One ingestion, one partition.  Log is the sequence of chunks of that    *)
(* ingestion that pass consume()'s validation; the messages it skips only  *)
(* move the position and are left out.  The queue is FIFO and fed in log   *)
(* order, so it always holds the offsets deq + 1 .. enq.                   *)
(***************************************************************************)
EXTENDS Integers, Sequences, FiniteSets

CONSTANTS
    Workers,     \* MAX_PARALLEL_WORKERS tasks; also the size of the queue
    Chunk,       \* chunk identities
    Log,         \* the messages of the input topic, in offset order
    NoPrompt,    \* chunks whose extraction_prompt is present but empty
    WithEntities,\* chunks the extraction finds entities in
    WithEdges,   \* chunks it finds edges in
    Total,       \* what the preprocessor reports as chunks_produced
    TotalFirst,  \* it may report before it has published every chunk
    MaxRetries,  \* config.MAX_RETRIES
    AutoCommit,  \* config.KAFKA_AUTO_COMMIT
    MaxFaults,   \* bound on failing calls (LLM, Postgres, Kafka)
    MaxCrashes,  \* bound on crashes
    MaxStops     \* bound on graceful restarts

ASSUME ConstantsAssumption ==
    /\ IsFiniteSet(Workers) /\ Workers # {}
    /\ Log \in Seq(Chunk) /\ NoPrompt \subseteq Chunk
    /\ WithEntities \subseteq Chunk /\ WithEdges \subseteq Chunk
    /\ Total \in 0..Len(Log)
    /\ TotalFirst \in BOOLEAN /\ AutoCommit \in BOOLEAN
    /\ MaxRetries \in Nat \ {0}
    /\ MaxFaults \in Nat /\ MaxCrashes \in Nat /\ MaxStops \in Nat

N == Len(Log)
NotSet == -1
Ingestion == "ingestion"   \* the only ingestion of the model
QueueSize == Cardinality(Workers)

VARIABLES
    hw,          \* messages in the input topic
    total,       \* preprocessor / chunks_produced in pipeline_counters
    pos,         \* offset up to which getmany has returned messages
    enq,         \* offset up to which they were put on the work queue
    deq,         \* offset up to which workers have taken them
    committed,   \* the consumer group's committed offset
    mode,        \* "up", or "stopping" once the signal handler ran
    wpc, cur,    \* state of each worker and the offset it processes
    tries,       \* attempts of _extract_with_retries
    seen,        \* chunks_received as check_ingestion_complete read it
    received,    \* pipeline_counters: chunks_received
    entities,    \* pipeline_counters: entities_extracted (one per chunk)
    edges,       \* pipeline_counters: edges_extracted (one per chunk)
    cstatus,     \* status of the service's rows in pipeline_counters
    checkpoints, \* processing_checkpoints of stage "extraction"
    published,   \* times each chunk's entities were published
    completions, \* extraction_complete events published
    completed,   \* _completed_ingestions
    faults, crashes, stops

envVars  == <<hw, total>>
feedVars == <<pos, enq, committed, mode>>
workVars == <<wpc, cur, tries, seen>>
dbVars   == <<received, entities, edges, cstatus, checkpoints>>
outVars  == <<published, completions>>
budget   == <<faults, crashes, stops>>
vars == <<envVars, feedVars, deq, workVars, dbVars, outVars, completed, budget>>

Init ==
    /\ hw = 0 /\ total = NotSet
    /\ pos = 0 /\ enq = 0 /\ deq = 0 /\ committed = 0 /\ mode = "up"
    /\ wpc = [w \in Workers |-> "idle"]
    /\ cur = [w \in Workers |-> 0]
    /\ tries = [w \in Workers |-> 0]
    /\ seen = [w \in Workers |-> 0]
    /\ received = 0 /\ entities = 0 /\ edges = 0 /\ cstatus = "running" /\ checkpoints = {}
    /\ published = [c \in Chunk |-> 0]
    /\ completions = 0 /\ completed = {}
    /\ faults = 0 /\ crashes = 0 /\ stops = 0

ChunkOf(w) == Log[cur[w]]
Goto(w, s) == wpc' = [wpc EXCEPT ![w] = s]

-----------------------------------------------------------------------------
(* The preprocessor: publishes every chunk, then sets its counter.         *)

Arrive ==
    /\ hw < N /\ hw' = hw + 1
    /\ UNCHANGED <<total, feedVars, deq, workVars, dbVars, outVars, completed, budget>>

ReportTotal ==
    /\ total = NotSet /\ (TotalFirst \/ hw = N)
    /\ total' = Total
    /\ UNCHANGED <<hw, feedVars, deq, workVars, dbVars, outVars, completed, budget>>

-----------------------------------------------------------------------------
(* consume(): poll, put, and the client's automatic commit.                *)

Fetchable == (pos + 1)..hw

\* getmany: only after everything returned before was put on the queue
Fetch ==
    /\ mode = "up" /\ enq = pos
    /\ \E p \in Fetchable : pos' = p
    /\ UNCHANGED <<envVars, enq, committed, mode, deq, workVars, dbVars, outVars, completed, budget>>

Enqueue ==
    /\ enq < pos /\ enq - deq < QueueSize
    /\ enq' = enq + 1
    /\ UNCHANGED <<envVars, pos, committed, mode, deq, workVars, dbVars, outVars, completed, budget>>

\* the background task commits what getmany returned, processed or not
CommitPosition ==
    /\ AutoCommit /\ committed # pos
    /\ committed' = pos
    /\ UNCHANGED <<envVars, pos, enq, mode, deq, workVars, dbVars, outVars, completed, budget>>

-----------------------------------------------------------------------------
(* A worker: _worker_loop around _process_chunk.  Setting the tenant       *)
(* context never fails a chunk and is left out.                            *)

Take(w) ==
    /\ wpc[w] = "idle" /\ deq < enq
    /\ deq' = deq + 1
    /\ cur' = [cur EXCEPT ![w] = deq + 1]
    /\ tries' = [tries EXCEPT ![w] = 0]
    /\ Goto(w, "count")
    /\ UNCHANGED <<envVars, feedVars, seen, dbVars, outVars, completed, budget>>

\* chunks_received is incremented before anything is extracted
CountReceived(w) ==
    /\ wpc[w] = "count"
    /\ received' = received + 1
    /\ Goto(w, "extract")
    /\ UNCHANGED <<envVars, feedVars, deq, cur, tries, seen, entities, edges, cstatus,
                   checkpoints, outVars, completed, budget>>

\* faulty variants: no lookup of the checkpoint; a lookup that forgets the item
SkippedNeverSeen(w) == ChunkOf(w) \in NoPrompt
SkippedByIngestion(w) == ChunkOf(w) \in NoPrompt \/ checkpoints # {}
Skipped(w) == ChunkOf(w) \in NoPrompt \cup checkpoints

\* _do_extract up to the LLM call: no prompt or a checkpoint yields None
StartExtract(w) ==
    /\ wpc[w] = "extract"
    /\ Goto(w, IF Skipped(w) THEN "idle" ELSE "llm")
    /\ UNCHANGED <<envVars, feedVars, deq, cur, tries, seen, dbVars, outVars, completed, budget>>

ExtractGraph(w) ==
    /\ wpc[w] = "llm"
    /\ Goto(w, "save")
    /\ UNCHANGED <<envVars, feedVars, deq, cur, tries, seen, dbVars, outVars, completed, budget>>

SaveCheckpoint(w) ==
    /\ wpc[w] = "save"
    /\ checkpoints' = checkpoints \cup {ChunkOf(w)}
    /\ Goto(w, "entities")
    /\ UNCHANGED <<envVars, feedVars, deq, cur, tries, seen, received, entities, edges,
                   cstatus, outVars, completed, budget>>

\* an exception in _do_extract: try again, or give the chunk up
ExtractRaises(w) ==
    /\ wpc[w] \in {"extract", "llm", "save"} /\ faults < MaxFaults
    /\ faults' = faults + 1
    /\ tries' = [tries EXCEPT ![w] = @ + 1]
    /\ Goto(w, IF tries[w] + 1 < MaxRetries THEN "extract" ELSE "idle")
    /\ UNCHANGED <<envVars, feedVars, deq, cur, seen, dbVars, outVars, completed, crashes, stops>>

\* two counters, each incremented only when there is something to add
TallyEntities(w) ==
    /\ wpc[w] = "entities"
    /\ entities' = IF ChunkOf(w) \in WithEntities THEN entities + 1 ELSE entities
    /\ Goto(w, "edges")
    /\ UNCHANGED <<envVars, feedVars, deq, cur, tries, seen, received, edges, cstatus,
                   checkpoints, outVars, completed, budget>>

\* faulty variant: the edges are counted only where there are no entities
TallyEdgesInstead(w) ==
    /\ wpc[w] = "edges"
    /\ edges' = IF ChunkOf(w) \in WithEdges \ WithEntities THEN edges + 1 ELSE edges
    /\ Goto(w, "publish")
    /\ UNCHANGED <<envVars, feedVars, deq, cur, tries, seen, received, entities, cstatus,
                   checkpoints, outVars, completed, budget>>

TallyEdges(w) ==
    /\ wpc[w] = "edges"
    /\ edges' = IF ChunkOf(w) \in WithEdges THEN edges + 1 ELSE edges
    /\ Goto(w, "publish")
    /\ UNCHANGED <<envVars, feedVars, deq, cur, tries, seen, received, entities, cstatus,
                   checkpoints, outVars, completed, budget>>

Publish(w) ==
    /\ wpc[w] = "publish"
    /\ published' = [published EXCEPT ![ChunkOf(w)] = @ + 1]
    /\ Goto(w, "check")
    /\ UNCHANGED <<envVars, feedVars, deq, cur, tries, seen, dbVars, completions,
                   completed, budget>>

\* _publish_event swallows the error of send_and_wait
PublishSwallowed(w) ==
    /\ wpc[w] \in {"publish", "emit"} /\ faults < MaxFaults
    /\ faults' = faults + 1
    /\ Goto(w, IF wpc[w] = "publish" THEN "check" ELSE "finalize")
    /\ UNCHANGED <<envVars, feedVars, deq, cur, tries, seen, dbVars, outVars, completed,
                   crashes, stops>>

\* a Postgres error outside _do_extract: the chunk is logged and left
StoreRaises(w) ==
    /\ wpc[w] \in {"count", "entities", "edges", "received", "total", "emit", "finalize"}
    /\ faults < MaxFaults
    /\ faults' = faults + 1
    /\ Goto(w, "idle")
    /\ UNCHANGED <<envVars, feedVars, deq, cur, tries, seen, dbVars, outVars, completed,
                   crashes, stops>>

\* _completed_ingestions, read under the lock
CheckDone(w) ==
    /\ wpc[w] = "check"
    /\ Goto(w, IF Ingestion \in completed THEN "idle" ELSE "received")
    /\ UNCHANGED <<envVars, feedVars, deq, cur, tries, seen, dbVars, outVars, completed, budget>>

\* check_ingestion_complete reads two counters, one after the other
ReadReceived(w) ==
    /\ wpc[w] = "received"
    /\ seen' = [seen EXCEPT ![w] = received]
    /\ Goto(w, "total")
    /\ UNCHANGED <<envVars, feedVars, deq, cur, tries, dbVars, outVars, completed, budget>>

\* faulty variants: a missing total taken for a number; a strict comparison
AllReceivedUnreported(w) == seen[w] >= total
AllReceivedStrict(w) == total # NotSet /\ seen[w] > total
AllReceived(w) == total # NotSet /\ seen[w] >= total

ReadTotal(w) ==
    /\ wpc[w] = "total"
    /\ Goto(w, IF AllReceived(w) THEN "mark" ELSE "idle")
    /\ UNCHANGED <<envVars, feedVars, deq, cur, tries, seen, dbVars, outVars, completed, budget>>

\* the lock is taken again, without looking at the set
MarkDone(w) ==
    /\ wpc[w] = "mark"
    /\ completed' = completed \cup {Ingestion}
    /\ Goto(w, "emit")
    /\ UNCHANGED <<envVars, feedVars, deq, cur, tries, seen, dbVars, outVars, budget>>

EmitComplete(w) ==
    /\ wpc[w] = "emit"
    /\ completions' = completions + 1
    /\ Goto(w, "finalize")
    /\ UNCHANGED <<envVars, feedVars, deq, cur, tries, seen, dbVars, published, completed, budget>>

FinalizeCounters(w) ==
    /\ wpc[w] = "finalize"
    /\ cstatus' = "complete"
    /\ Goto(w, "idle")
    /\ UNCHANGED <<envVars, feedVars, deq, cur, tries, seen, received, entities, edges,
                   checkpoints, outVars, completed, budget>>

-----------------------------------------------------------------------------
(* Crash and graceful stop.  Both are followed by a restart from the       *)
(* committed offset, with an empty queue and an empty set of completed     *)
(* ingestions; the database and the topics survive.                        *)

Restart(offset) ==
    /\ pos' = offset /\ enq' = offset /\ deq' = offset /\ committed' = offset
    /\ mode' = "up"
    /\ wpc' = [w \in Workers |-> "idle"]
    /\ completed' = {}
    /\ UNCHANGED <<envVars, cur, tries, seen, dbVars, outVars, faults>>

Crash ==
    /\ crashes < MaxCrashes /\ crashes' = crashes + 1
    /\ Restart(committed)
    /\ UNCHANGED stops

\* the signal handler: consume() leaves its loop once the batch is queued
Signal ==
    /\ mode = "up" /\ stops < MaxStops
    /\ mode' = "stopping" /\ stops' = stops + 1
    /\ UNCHANGED <<envVars, pos, enq, committed, deq, workVars, dbVars, outVars,
                   completed, faults, crashes>>

\* faulty variant: the workers are not waited for
DrainedQueueOnly == enq = pos
Drained == enq = pos /\ deq = enq /\ \A w \in Workers : wpc[w] = "idle"

\* stop(): the sentinels are behind every queued chunk; the client then
\* commits its position if it commits automatically
StopAndRestart ==
    /\ mode = "stopping" /\ Drained
    /\ Restart(IF AutoCommit THEN pos ELSE committed)
    /\ UNCHANGED <<crashes, stops>>

\* nothing to do until a message arrives: getmany returns nothing
Rests ==
    /\ mode = "up" /\ hw = N /\ total # NotSet
    /\ deq = N /\ \A w \in Workers : wpc[w] = "idle"
    /\ UNCHANGED vars

-----------------------------------------------------------------------------
Preprocessor == Arrive \/ ReportTotal
Consume == Fetch \/ Enqueue \/ StopAndRestart
Worker(w) ==
    \/ Take(w) \/ CountReceived(w) \/ StartExtract(w) \/ ExtractGraph(w)
    \/ SaveCheckpoint(w) \/ TallyEntities(w) \/ TallyEdges(w) \/ Publish(w)
    \/ CheckDone(w) \/ ReadReceived(w) \/ ReadTotal(w)
    \/ MarkDone(w) \/ EmitComplete(w) \/ FinalizeCounters(w)
WorkerFault(w) == ExtractRaises(w) \/ PublishSwallowed(w) \/ StoreRaises(w)

Next ==
    \/ Preprocessor \/ Consume \/ CommitPosition \/ Crash \/ Signal \/ Rests
    \/ \E w \in Workers : Worker(w) \/ WorkerFault(w)

Spec == Init /\ [][Next]_vars

\* the event loop runs every task that is ready; faults, crashes and signals
\* are never forced to happen
FairSpec ==
    /\ Spec
    /\ WF_vars(Preprocessor) /\ WF_vars(Consume)
    /\ \A w \in Workers : WF_vars(Worker(w))
-----------------------------------------------------------------------------
(* Properties.                                                             *)

WorkerState == {"idle", "count", "extract", "llm", "save", "entities", "edges",
                "publish", "check", "received", "total", "mark", "emit", "finalize"}

\* Every variable stays in its type.
TypeOK ==
    /\ hw \in 0..N /\ total \in Nat \cup {NotSet}
    /\ pos \in 0..N /\ enq \in 0..N /\ deq \in 0..N /\ committed \in 0..N
    /\ mode \in {"up", "stopping"}
    /\ wpc \in [Workers -> WorkerState]
    /\ cur \in [Workers -> 0..N]
    /\ tries \in [Workers -> Nat] /\ seen \in [Workers -> Nat]
    /\ received \in Nat /\ entities \in Nat /\ edges \in Nat
    /\ cstatus \in {"running", "complete"}
    /\ checkpoints \subseteq Chunk
    /\ published \in [Chunk -> Nat]
    /\ completions \in Nat /\ completed \subseteq {Ingestion}
    /\ faults \in Nat /\ crashes \in Nat /\ stops \in Nat

Injective == \A i, j \in 1..N : Log[i] = Log[j] => i = j

\* A chunk is published at most once, however often the service crashes and
\* reads it again (has_checkpoint in _do_extract), as long as the topic holds
\* it once.
PublishedOnce == Injective => \A c \in Chunk : published[c] <= 1

\* What was found in a published chunk was counted before, each kind in its
\* own counter, and no chunk is tallied that was not counted as received: the
\* totals carried by the completion event cover what was published, wherever
\* between the two increments a worker failed.
Output(C) == {c \in C : published[c] > 0}
CountersCoverOutput ==
    /\ Cardinality(Output(WithEntities)) <= entities /\ entities <= received
    /\ Cardinality(Output(WithEdges)) <= edges /\ edges <= received

\* Without a crash no chunk is counted twice, and completion is decided only
\* after as many chunks as the preprocessor reported left the queue.  A
\* graceful restart of an automatically committing consumer changes nothing.
NoRedelivery == crashes = 0 /\ (stops = 0 \/ AutoCommit)
CompletionAfterDelivery ==
    NoRedelivery =>
        /\ received <= deq
        /\ completed # {} \/ completions > 0 \/ cstatus = "complete" => total # NotSet /\ deq >= total

Quiet == deq = N /\ \A w \in Workers : wpc[w] = "idle"
Unpublished == {c \in Chunk : published[c] = 0 /\ \E i \in 1..N : Log[i] = c}

\* Without a crash every chunk that comes to nothing is accounted for by a
\* missing prompt or a failed call; a graceful restart loses none.
LossesAccounted ==
    NoRedelivery /\ Quiet => Cardinality(Unpublished \ NoPrompt) <= faults

\* With no failing call and every chunk admissible, a total that is known
\* while a chunk is still to be taken leads to a completion event.
CompletesWhenTotalKnown ==
    (total # NotSet /\ total > 0 /\ deq < N) ~> (completions > 0)

\* Every chunk with a prompt is eventually published when no call fails.
NoneForgotten == \A c \in Chunk \ NoPrompt :
    (\E i \in 1..N : Log[i] = c) => <>(published[c] > 0)

\* The inductive invariant behind PublishedOnce: two busy workers never hold
\* the same offset, and a chunk between its checkpoint lookup and its
\* publication is unpublished, and has a checkpoint only once it was saved.
OffsetsOrdered == deq <= enq /\ enq <= pos /\ pos <= hw /\ committed <= pos
Busy(w) == wpc[w] # "idle"
OneHolder ==
    \A v \in Workers : Busy(v) =>
        /\ cur[v] \in 1..deq
        /\ \A w \in Workers : Busy(w) /\ w # v => cur[w] # cur[v]
CheckpointGate ==
    /\ \A c \in Chunk : published[c] > 0 => c \in checkpoints
    /\ \A w \in Workers :
        /\ wpc[w] \in {"llm", "save"} => ChunkOf(w) \notin checkpoints
        /\ wpc[w] \in {"entities", "edges", "publish"} =>
               ChunkOf(w) \in checkpoints /\ published[ChunkOf(w)] = 0
Inv == /\ TypeOK /\ OffsetsOrdered /\ OneHolder
       /\ Injective => CheckpointGate /\ PublishedOnce
=============================================================================
