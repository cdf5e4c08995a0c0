# TLA+ models of legion-graph

legion-graph turns source repositories and documents into a vector index
(Qdrant) and a knowledge graph (Neo4j).  Its core is a chain of asyncio
services connected by Kafka topics; around it are a REST API and an
authentication service that keep companies, projects and accounts in step with
those stores.  This directory holds TLA+ models of the parts where the order of
steps decides whether data is lost, duplicated or left behind, the TLC
configurations that check them, and proofs checked by TLAPS.

    tlc -workers 2 -config ChunkFaults.cfg MCChunkWorkers.tla
    tlapm ChunkWorkers_proofs.tla

## 1. Inventory

| component | source | state it keeps | talks to | hard behaviour |
|---|---|---|---|---|
| code preprocessor: consumer | `code_preprocessor/kafka_processing_service/consumer.py`, `main.py` | offset of `incoming_requests`, one request in hand | Kafka, ingestion processor | termination signal while a request is processed; wiring of optional collaborators |
| code preprocessor: repository and versions | `git_repository_manager.py`, `_file_processing.py`, `storage/repository_version_store.py`, `event_emitter.py`, `file_filter.py` | local clone, table `repository_file_versions` | git, Postgres | the clone is ahead of the table; deduplication by hash, in which earlier versions count |
| code preprocessor: ingestion pipeline | `ingestion_processor.py`, `enrichment.py` | two bounded queues, file and embed workers, counters, the batch row | Postgres, embedding API, Kafka | back-pressure between stages, sentinels, cancellation in the middle of a flush, a count that several workers read and write back |
| code preprocessor: chunking and analysis | `chunker.py`, `skeleton_extractor.py`, `project_analyzer.py` | none | language model | none: sequential text processing |
| entity extraction | `entity_extraction_service/{consumer,processor,pipeline_store}.py` | work queue, workers, completed set; counters and checkpoints in Postgres | Kafka, language model, Postgres | redelivery after a crash, at-most-once publication, who announces completion |
| summarization | `summarization_service/` | as entity extraction | Kafka, language model | as entity extraction |
| embedding | `embedding_service/` | collector, batches, counters | Kafka, embedding API | completion decided on totals that two other services are still raising; items read again after a restart |
| Qdrant storage | `qdrant_storage_service/{main,writer}.py` | work queue, batch queue, collector, workers | Kafka, Qdrant | deletes overtake queued writes; shutdown through two queues; retries |
| Neo4j storage | `neo4j_storage_service/{main,writer,models}.py` | as Qdrant storage | Kafka, Neo4j | a batch is a dozen transactions, interleaved with those of other workers and of deletes |
| cognee service: brain content | `cognee_service/brain_content/` | `brain_*` rows | gRPC, Postgres, Kafka | the row and its event are two steps |
| document preprocessor | `document_preprocessor/` | `document_versions`, a cache of event ids | Kafka, Postgres | update as delete and create; a row stored before its chunks are published |
| cognee service: the rest | `graph_services/cognee_service/` | ingestion statistics | third-party library | event order of two topics |
| authentication: account deletion | `auth/main.py` | `deletion_tasks`, audit rows, users, companies | Postgres, Redis, Qdrant, Neo4j | a saga in a background task, two processes, no resumption |
| authentication: sessions and tokens | `auth/` | refresh tokens, blacklist in Redis | Postgres, Redis | rotation racing revocation |
| REST API: code changes consumer | `api/consumers/code_changes_consumer/`, `code_service_v2` | task per message | Kafka, language model, Neo4j, Qdrant | concurrent tasks of one file; purge before analysis; drain at the stop |
| REST API: companies and projects | `api/services/{project,company}_service.py`, `api/repositories/` | rows, nodes, points, ingestion documents | Postgres, Neo4j, Qdrant, MongoDB | four stores without a common transaction, compensation, overlapping transfers |
| REST API: the other resources | `api/` | database rows | Postgres, Neo4j | mostly one transaction per request |
| gRPC server | `grpc_server/` | idempotency cache in Redis | Postgres, Redis | retry of a call that is still running |
| shared schemas, configuration, deployment | `shared/`, `config/`, `kgrag/`, `docker/`, `scripts/` | none | | none |

How they interact: the REST API writes a request to `incoming_requests`; the
code preprocessor pulls the clone, diffs it, records a version of every changed
file and sends its chunks to `enriched-code-chunks`.  (It could also send deletes
of old versions, but nothing gives it the emitter they go through.)
The brain content service writes a row and publishes a `BrainEvent`; the
document preprocessor turns it into messages of the same topic.  Entity
extraction and summarization read the chunks and publish to
`extracted-entities` and `text-summaries`, embedding turns those into
`embeddings-ready`, and the storage services write them.  Progress and
completion travel beside the data: each service increments rows of
`pipeline_counters` and compares them with what the services before it
reported; `pipeline-events` carries the completion events.  The code changes
consumer of the REST API is a second, older way into the same two stores.
Companies, projects and accounts are changed by requests that visit every
store in turn.

What makes each component correct: a request's files are each handled once,
every chunk they store is published, or known to have failed, or belongs to a
file whose enrichment failed part way, and the number reported is not too high
(pipeline); the table of file versions follows the clone and the current content
of each file has been published (versions), although the versions before it stay
in the index; the stores hold a document's current text and no mixture
(documents); no chunk is published twice, or lost without a failure or a crash
to blame, and completion is not decided before as many chunks as were reported
were taken up, nor announced out of the order of the chain, though it may be
announced twice and before the last chunk is extracted (extraction, completion);
what was read and is fit to be written is written or reported, both
relationships of a summary are found from either side, and a delete removes its
file version, and chunks and files of no other unless it has to guess the
version (storage); a project is where its row says in all stores, and no point
is lost on the way (projects); an account's deletion is on record before it
begins, "completed" is true and the user goes last (accounts).  Nothing is
claimed of points and nodes when an account is deleted: its cleanup visits names
nothing is stored under.  `PROJECT.json` lists the single hazards, each at its
line.

## 2. Modules

| module | models | composed with |
|---|---|---|
| `IngestPromise` | what an ingestion promises, without queues, workers or batches | implemented by `TwoStagePipeline` |
| `TwoStagePipeline` | `IngestionProcessor._run_two_stage_pipeline`, `_file_worker`, `_embed_worker`, `_flush_embed`, `_finalize`, and the shutdown in `main.py` | instantiates `IngestPromise` |
| `FileVersions` | `GitRepositoryManager.sync_repository`, `_filter_files`, `process_file`, `RepositoryVersionStore.record_change` | its `PublishChunks` stands for a run of `TwoStagePipeline` |
| `ChunkWorkers` | the entity extraction service | its `Log` and `Total` stand for what `TwoStagePipeline` published and reported |
| `CompletionChain` | how extraction, summarization and embedding agree that an ingestion is complete | composes the counters of three services; a chunk of it is a whole run of a `ChunkWorkers` worker |
| `QdrantStorage` | the Qdrant storage service | its `Log` holds the chunks `TwoStagePipeline` publishes, and documents and deletes as `DocumentIndex` publishes them |
| `GraphStorage` | the Neo4j storage service | as `QdrantStorage`, whose queues it does not repeat |
| `DocumentIndex` | brain content from the gRPC call to the chunk topic: servicer and document preprocessor together | two components and the topic between them |
| `CodeChanges` | the code changes consumer and the file operations it calls | |
| `ProjectStores` | create, transfer and delete of companies and projects | its writes are the storing tasks of `CodeChanges` |
| `AccountDeletion` | the account deletion saga of the authentication service | |
| `..._proofs` | theorems about the module named; those about `CodeChanges` are the last section of `DocumentIndex_proofs`, those about `AccountDeletion` of `ProjectStores_proofs` |
| `MC...` | finite instances for TLC | |

Operators named as faulty variants in the comments are not used by any
specification.  Each is a plausible mistake in one definition, kept beside it;
every checked property is violated when one of them takes the definition's
place.

### TwoStagePipeline

`pc` and `nput` are the position of the coroutine that feeds the pipeline, one
action per `await`: `FeedFile`, `StopFileWorkers` (one sentinel per worker),
`GatherFileWorkers`, `StopEmbedWorkers`, `GatherEmbedWorkers`, `SetCounters`
(whose failure is logged), `MarkCompleted` and `MarkFails` (which ends the
consumer and with it the service; the row stays at 'running').  A queue is a
sequence with the `maxsize` of the code (`max_concurrent_files`, `2 *
embed_workers`); a put waits until there is room.  A file worker gets a file;
`process_file` raises or yields any number of chunks up to `MaxChunks`, whose
rows `StoreChunk` inserts one at a time.  When it has them all (`ProcessChunks`)
the worker queues them one at a time and counts the file (`FileDone`).
`EnrichFails` is an exception among the insertions: it is caught, the file
counts as ok, and the rows stored so far are `unqueued` for good.  An embed
worker collects up to `BatchSize` chunks or until a timeout or a sentinel,
embeds, stores the vectors and sends the chunks one at a time.  `embedded` is
read before the flush (`BeginFlush`, into `base`) and written after it
(`FlushReturns`), as `ctr["embedded"] += await ...` does: the additions of
workers that flush at once overwrite each other, so the count may fall short.
`Signal` cancels the feeding coroutine where it is suspended: a cancelled
`gather` cancels the tasks it waits for, a cancelled `put` leaves them running.
`StopProducer`, `ClosePool` and `TearDown` are the rest of `main()`, during
which workers go on.

`IngestPromise` knows files, chunks that are stored, settled (a flush returned, or
the enrichment of their file failed) and counted, and the state of the ingestion.

`PipelineStore` says whether the processor has a pipeline store.  The consumer
passes `pipeline_store=None` (`consumer.py:317`), so in the deployed wiring
`chunks_produced` is never set; the run uses `TRUE`, the case with more to go
wrong.

### FileVersions

`remote` and `local` are the contents at the tip of the branch and in the clone,
`rows` the table of versions, `index` the file versions whose chunks were
published.  `Sync(full)` pulls and derives the changes, of a request with or
without a full refresh: git pairs identical files as renames and may pair
similar ones (`Renamings`).  `Accepted` is the file filter; the model has one
reason for it to reject a file, its size (`TooBig`), and the code has several.
Each changed path has a job that moves through `RecordDelete`, `ReadFile` or
`Unreadable` (a row without a hash, and no chunks), `SkipUnchanged`,
`RecordChange`, `PublishChunks` in the order of `process_file`, interleaved with
the jobs of other paths.  `DiffFails`, `FileFails` and `Crash` are the error
paths.  A content stands for its hash.

`process_file` sends deletes of old versions only through an event emitter.  The
consumer passes its `_event_emitter` attribute (`consumer.py:319`), which nothing
sets, so there is none: no delete is ever sent, `index` only grows, and the code
behind `if event_emitter` is not modelled.

`missed` is a history variable: the contents (or absences) of a path that a change
was to bring about and that were dropped, by the filter, a failure or a crash,
and not made up for since.  The properties excuse exactly these.

### ChunkWorkers

The topic is the sequence `Log`; `hw`, `pos`, `enq`, `deq` and `committed` are
offsets into it, and the queue always holds the offsets `deq + 1 .. enq`, since
one task feeds it in log order.  A worker's `wpc` is its position in
`_process_chunk`: every database call, publication and lock is a step of its
own, because another worker can run at each `await`.  `TallyEntities` and
`TallyEdges` are the two increments, made only for a chunk with entities
(`WithEntities`) and relationships (`WithEdges`); a worker can fail or die between
them.  `ExtractRaises` is an
exception inside the retry loop, `StoreRaises` one outside it, and
`PublishSwallowed` a send whose error is only logged.  A crash keeps the
database and the topics and restarts from the committed offset;
`CommitPosition` is the client's automatic commit, which follows `pos` and not
the workers.  `StopAndRestart` is the graceful stop.

One ingestion and one partition: ingestions share nothing but the queue, and
partitions only interleave the log.  Messages that fail validation are left
out.  `TotalFirst` lets the preprocessor report its total at any time, which
includes the order of the code (after the last chunk).

### CompletionChain

The rows of `pipeline_counters` are `total` (`chunks_produced`), `received`,
`made` (`entities_extracted`, `summaries_produced`), `counted` (the embedding
service's `entities_received`, `summaries_received`) and `status`.  A chunk in
an upstream service walks through `phase` in the order of `_process_chunk`:
`CountReceived`, `CallModel`, `Tally`, `Publish`, `Compare`, `Announce`,
`Finalize`.  A counter without a row is `NotSet`, which is what
`increment_counter` leaves behind when it is called with nothing to add.  A
batch worker of the embedding service takes any batch of waiting items
(`TakeBatch`), counts each kind, embeds and publishes, and then makes the
completion check once per item: `ReadOwn` reads its own two counters,
`ReadUpstream` the status and the totals of the services before it.  `consume()`
commits only once it has queued what it read, so the messages in `uncommitted`
may or may not be read again: `Restart` is a crash, or a commit that fails and
ends the loop, after which any of them come again, and `again` counts the items
that were already taken once.  `ChunkFails`, `PublishSwallowed`, `BatchFails`,
`EmbedSwallowed`, `CheckFails` and `EventSwallowed` are the calls that fail,
told apart by what the code has done before and does after.

`Unchanged`, `Made` and `Embeddable` say for each chunk whether the model's
answer is `None`, what the counter is raised by and how many items the message
contains; the last two differ in the code for an entity without a name.
Triplets and type vectors take no part in completion and are left out.

### QdrantStorage

`consume()` is `Fetch`, then `Enqueue` or a delete for each message, then
`Commit`.  A delete runs inside `consume()`: `DeleteChunks`, `ScrollEntities`,
`CheckSurvivor` for each candidate, `RemoveEntities`, one step per call of
Qdrant, while collector and workers go on.  The collector is `CollectFirst`,
`CollectMore`, `CollectSentinel`, `CollectTimeout`, `PushBatch`, and at the end
`Drain` and `SendPill`.  A worker takes a batch and writes its code chunks, its
document chunks and its entities in turn; `UpsertFails`, `UpsertMissing` and
`AttemptFailed` are `_upsert_with_retry`, where a call may have had its effect
although it failed; `CreateFails` is a missing collection that cannot be created
either.  `Unfit` are the messages nothing is written for: chunks of fewer than
50 characters, which `_process_batch` passes over without a word
(`main.py:423-432`), and what the parsers reject.  `points` maps a point id to
the file version in its payload.  Three kinds of points stand for the six: code
chunks and document chunks, two upserts into one collection, deleted by a filter
on the file version; and entities, deleted by id after a survival check by name
(`NameOf`).

### GraphStorage

`nodes` and `edges` are the graph; `owner` and `origin` are the two properties
of an entity node that later statements read, its file version (of the last
writer) and its file path (of the first).  Every Cypher statement is a
transaction of its own: `todo` holds the statements a worker still has to run
for its batch (`SummarySteps`, `EntitySteps`, in the order of
`_process_summary_batch` and `_process_batch`), and `Write` executes the next
one as a union with `NewNodes` and `NewEdges`.  `Verdict` says what becomes of
an entity of a chunk: it is kept, or it stands for the repository or for a file,
or the canonicaliser rejects it (`main.py:578-582`, `643-704`), and then it gets
no node although its chunk is counted; one verdict keeps it out of the whole
batch.  An edge is merged only when both its ends are there.  `BeginDelete`,
`DeleteStep` and `DeleteFails` are the delete that `consume()` runs itself, one
step per label, with the lookup of a missing version (`Resolved`).
`SummaryFails` and `EntitiesFail` are a statement that fails for good: summaries
are swallowed and the batch goes on, entities end the batch, with any subset of
the counters incremented.  `BatchFails` is a failure outside those handlers
(creating the database, looking the project up), which ends the batch before its
first statement.

### DocumentIndex

`rows` are the `brain_*` rows, `call` the gRPC calls in flight (`Add`, `Update`,
`Delete`, then `Write`, `Publish`, or `Repeat`, an update of no field, which
publishes the row it read), `events` the topic, `work` the event the document
preprocessor has in hand and the phase it has reached: `Take`, `SkipUnchanged`
or `Changed`, `EmitDelete`, `Erase`, `Store`, `Emit`.  `recent` is the bounded
cache of event ids, `versions` the hashes in `document_versions`, `stored` what
the stores hold after reading the chunk topic in order.  Failures are told apart
by what the code does with them, since the properties depend on it: `loud` ones
end the event, `swallowed` ones are logged or, for a delivery that fails in the
producer's buffer, not noticed at all, `cut` and `replay` are crashes with and
without an event in hand.

### CodeChanges

`fetched` and `acked` are the client's position and its automatic commit; `task`
has the position of each message's task, from `FirstStep` (what `handle_message`
decides before its first `await`) through `PurgeGraph`, `PurgePoints`,
`Analyze`, `StoreCode`, `StoreEntities`, `StoreEdges` and `StorePoints`.
`code`, `entity`, `contains`, `edge` and `point` are what the two stores hold.
The ids of entities name a file path and no project or company (`schema.py:70`),
so files of different projects and relations from other files can share a node:
`StoreEntities` merges by the id alone, `StoreEdges` connects whatever entities
are there, and `PurgeGraph` takes all that the Code node contains, with every
relation of it.  `answer` is the path under which the language model returns a
result; `Misnames` is an answer with another path of the project, under which
the result is then stored (`astray`).  Without a Project node (`Graphed`) no
Code node is written, but points are.  Every failure is caught inside
`handle_message`, so each ends its task: `PurgeRaises`, `FallBack`,
`StoreRaises`, while `EdgesSwallowed` goes on.  `Signal`, `LeaveLoop` and `Stop`
are the graceful end, `ConsumerDies` the other.  The names of this module and of
`AccountDeletion` differ from those of the modules they share a proof module
with: `CodeSpec` and `AccountSpec` are their specifications.

### ProjectStores

`companies` and `row` are Postgres; `graph`, `root` and `owns` are the nodes'
`company_id`, the Company nodes and the `HAS_PROJECT` edges; `collections` and
`points` are Qdrant, `docs` MongoDB.  A request is a record in `req` whose
`phase` names the store it visits next.  `Transfer` goes through `CopyPoints`,
`RemovePoints`, `MoveGraph`, `MoveDocs`, `MoveRow`; `RowRefused` turns it round
(`Back`) and the same steps undo it.  `MoveDocs` takes the documents that
`Matched` says, among them those of no company (`Unscoped`,
`project_service.py:511-519`).  `CopyFails` and `MoveFails` are a failing
store on the way there, which ends the request, or on the way back, where the
rest is still tried.  `Create`, `Delete`, `AddCompany`, `DropCompany` and their
steps are the other operations.  The calls of Qdrant are synchronous, so no
other request of the process runs between copying and removing (`At`), but the
code changes consumer does (`WriteBegins`, `WriteNode`, `WritePoint`).

### AccountDeletion

`pc` is the position of each DELETE request and of the task it starts:
`SelectOwned`, `InsertTask`, `WriteAudit`, then `InvalidateSessions`,
`BeginCleanup`, `CleanCollection`, `CleanGraph`, `BeginRows`, `DeleteCompany`
(one commit each), `DeleteUser`, `Complete`.  `status`, `snapshot` and
`errorPhase` are columns of `deletion_tasks`, `audits` and `named` the audit
records and the companies in them.  `SkipQdrant` and `SkipGraph` are the
handlers that log and go on, `CleanCollectionFails`, `RevokeFails` and
`RowsFail` those that end the task, `CommitFails` a commit outside them, or one
inside that fails again, and `WorkerDies` a worker process that dies.
`CreateCompany`, `InsertOwner` and `LoseOwnership` are the other requests that
change what the user owns.

The cleanup visits four collections by name (`main.py:1039`; `Listed`) and the
database a session opens that names none (`main.py:1136`; `Default`).  The
services write collections and databases of other names (`Collection`,
`Database`), and a collection that does not exist counts as cleaned
(`main.py:1057-1065`).  The instance keeps the two apart, as the program does,
so the rows go while points and nodes stay, and no property is about them.

## 3. Runs

All runs check deadlock.  Where the system may rest, a stuttering action says
when: `Terminated` (the coroutine has returned or the process is torn down) and
`Rests` (every message or request handled, nothing in memory).

| run | instance | properties | what it shows |
|---|---|---|---|
| `two_stage` | 2 file workers, 2 embed workers, 3 files of at most 1 chunk, batches of 2, any failures, a signal at any point | `StagesInOrder` `NothingStranded` `NeverOverstated` `Completes` `ResentOnlyByCancellation` `PromiseSpec` | the stages end in order, nothing queued is left behind, the number reported never exceeds the chunks really published though workers overwrite it, an undisturbed ingestion completes, a signal makes a chunk go out twice at most, and the whole implements `IngestPromise` |
| `chunk_faults` | 2 workers, 3 chunks of which one has no prompt and one has entities and relationships, 2 faults, 1 crash, 1 graceful restart, 2 attempts | `PublishedOnce` `CountersCoverOutput` `CompletionAfterDelivery` `LossesAccounted` | at most one publication per chunk across redelivery; both counters cover the output; without a crash completion is not decided before as many chunks as were reported left the queue, and each lost chunk has a failed call to blame |
| `chunk_live` | 2 workers, 3 chunks, no faults | `CompletesWhenTotalKnown` `NoneForgotten` | every chunk is published, and a total known before the last chunk is taken leads to a completion event |
| `completion` | 2 chunks, one with an entity and one with a summary only, 2 embedding workers, batches of 2, 1 fault or restart | `NeverAhead` `EventsInOrder` `NothingLost` `LateItemCompletes` | embedding runs ahead of what it compares with only by what it read twice, completion events come in the order of the chain, undisturbed everything is embedded and counted, and the last item leads to `embedding_complete` |
| `qdrant_faults` | 1 worker (queues of 2 and 1), a chunk, a chunk too short to keep, a document and a delete in one topic, an entity in the other, 1 failing call or crash, 1 removed collection, 1 signal, 2 attempts | `NothingForgotten` `NothingBehindSentinel` `ChunkDeletedByOwner` | full queues: nothing read that is fit to be written is forgotten, the queues shut down in order, a delete removes no chunk of another version |
| `qdrant_live` | 2 workers, a chunk that is too short, a document, a delete, an entity, no faults, 1 signal | `StopTerminates` `AllWritten` | everything fit to be written is written, even when nothing else of its topic is, and `stop()` terminates |
| `graph` | 2 interchangeable workers, batches of 2, two versions of a file and a second file, all with a shared entity, one entity that stands for the repository, one that is rejected in one file, a delete of the old version and one by path behind them, 1 fault | `SummariesLinked` `CountedMeansStored` `DeleteIsComplete` `DeletesOnlyItsFile` | both relationships of a summary are there whichever side came first, a counted chunk is stored with every entity no event keeps out, a delete that begins in quiet is complete, and it keeps to its file unless it has to look the version up and an entity is shared |
| `file_incremental` | 2 paths, 3 contents of which one is too big, 4 pushes, 1 full refresh, 2 faults, 1 crash | `TableFollowsClone` `ContentPublished` | the table of versions follows the clone, and the current content of every file was published, through renames, reverts and refreshes, except for what this very change dropped |
| `documents` | 1 document, 3 texts of which one is blank, 2 calls in flight and 3 in all, 2 chunks, a cache of 1 event id, 1 fault | `IndexFollowsRow` `OneTextAtATime` `UnchangedMeansStored` `ChangeReachesStores` | through repeated events and restarts the stores hold the row's text once; never a mixture; an event is dismissed only when its text is stored; every change arrives |
| `code_changes` | 2 files of a project and one of another with entities in common, 6 events (added, shrunk, renamed into something too large; a rename without a previous path, made too small, deleted), 2 workers, 1 fault, misnamed result or crash, a signal | `StoresFollowLog` `StopLosesNothing` `AllHandled` | both stores follow the topic, in what is a file's own, for every file that one task had for itself; a graceful stop loses nothing |
| `project_stores` | 2 projects (one with old documents of no company), 3 companies of which 2 exist, 2 interchangeable requests at a time and 3 in all, 1 file stored meanwhile, 2 faults | `StoresInStep` `NothingLost` `PointsInOnePlace` | four stores agree after any requests that did not get in each other's way; points survive overlapping transfers, failures and crashes, and are in one collection |
| `account` | 2 deletion requests, 3 companies (one created later, one with a second owner), 2 listed collections and one that exists, 1 fault, 1 crash | `CompletedMeansGone` `UserGoesLast` `DeletionsAudited` | `completed` is true; the user goes last; whatever is deleted was put on record before, though the record asks for the companies again |

Why the bounds suffice.  Two workers are the least number that race, and the
code treats workers alike.  Queue sizes follow the number of workers, so one or
two workers make them full with a few messages; three files go through a file
queue of two, and three chunks and two sentinels through an embed queue of four.
A file has at most one chunk there, so an enrichment that fails behind a stored
row is in the instance, and one between two rows only in the theorem.  Batches
of two occur full, partial, mixed of two kinds, and ended by a timeout or by a
sentinel.  Two faults with two attempts exhaust a retry loop; one crash makes
every message behind the commit come again.  In `qdrant_faults` one worker keeps
the queues short enough to fill; `qdrant_live` has two.  Three contents on two
paths allow a change, a rename of the changed file, a change back and one into a
file that is too big; four pushes put any of them behind a dropped one.  In
`documents` three calls give a change, a change back and a delete, or two
overlapping updates, and a cache of one id forgets an event as soon as another
was handled.  In `project_stores` two requests overlap in every pair of kinds,
the third follows on what they left, and two faults let a store fail on the way
back after the row was refused.  Two requests and two names are the least for
which the account saga can overlap itself and stop half-way in a phase.  In
`code_changes` every Project node exists; the other case is in the definition
and the theorem.

What the properties leave out on purpose.  The excluded actions stay in every
run, so that properties are checked before they happen, and those without such
an exclusion after.

- `CompletionAfterDelivery` and `LossesAccounted` exclude a crash
  (`NoRedelivery`): with automatic commit a crash loses the queued chunks, and
  with redelivery `chunks_received` counts a chunk twice.
- `NothingForgotten` of `QdrantStorage` excludes a crash, because offsets are
  committed before the write, and `Unfit` messages, which nobody hears of again;
  `AllWritten` excludes the latter, too.
- `NothingStranded` excuses the rows of a file whose enrichment failed part way
  (`unqueued`), and shows that nothing of such a file is in a batch.
- `TableFollowsClone` and `ContentPublished` excuse exactly the path and content
  in `missed`.  They do not say that old versions leave the index: they do not.
- `NeverAhead` allows what `again` counts; `EventsInOrder` allows a completion
  event that could not be sent to be missing; `NothingLost` and
  `LateItemCompletes` of `CompletionChain` speak of runs without faults and
  restarts, and the latter also requires that what is counted can be embedded.
- `CompletesWhenTotalKnown` and `LateItemCompletes` begin where the total, or the
  upstream completion, is known before the last item is taken: what comes later is
  never looked at (section 4).
- `CountedMeansStored` speaks of the entities that every event with them keeps
  (`Lasting`).  It gives up a chunk whose version a delete has begun on, and an
  entity for a delete of any version that also defines it.
- `IndexFollowsRow` excludes failures, and documents that two calls changed at
  once (`overlaps`): nothing orders the events of two calls.  Restarts and
  repeated events are included (`replay`).  `OneTextAtATime` also excludes
  swallowed failures, crashes and replays, `ChangeReachesStores` all failures.
- `StoresFollowLog` is about what is a file's own: its Code node, its points,
  and the entities and relations that no message of another file names (`Own`,
  `OwnRelation`); of shared entities nothing is promised.  It excludes files in
  projects without a node, files with a result under another path (`astray`),
  and files in `disturbed`: two tasks were at work on them at once, a call
  failed, or a crash lost a committed task.  A later change that purges the file
  and has it for itself takes it out again.  It holds for topics in which a file
  is added, or renamed to a path, only when the messages before leave that path
  free (`ArrivalsFree`, evaluated for the run's topic): what sends the messages
  is not in the repository.
- `DeletionsAudited` excludes companies with a second owner (`Shared`), who can
  remove the user between the request and its record, and accepts another task's
  record when the user was gone before this one's.
- `StoresInStep` excludes projects in `disturbed` and companies in `shaken`: two
  requests had them in hand, or a store failed that nothing makes up for.
  `NothingLost` has no such exclusion but those of its comment (`cleared`,
  `unseen`), and `PointsInOnePlace` only a copy whose removal failed (`halved`).

Fairness.  Liveness is checked with weak fairness of each task: the asyncio
event loop runs every task that is ready, and every external call ends, because
the clients it goes through have timeouts and an error is an outcome like
another.  The Gemini client of the code changes consumer is the exception: its
`REQUEST_TIMEOUT` is not used, so `AllHandled` rests on the provider answering.
Nothing is assumed of failures, crashes, signals, pushes, requests and timeouts
of the outside world; they are never forced.  Weak fairness is enough: a worker
that waits on a queue is not owed a particular item, only that someone takes it.

## 4. Noticed while modelling

The models state what the code does.  Where this differs from what a document
or comment says, or surprises, it is listed here; the properties above are
formulated around it.

Ingestion and extraction:

- Completion can be announced twice: the completed set is read in one critical
  section and written in another (`entity_extraction_service/README.md:388`,
  `consumer.py:319` and `341`).
- A chunk that fails last blocks completion, because `_process_chunk` returns
  before the check (`README.md:381`, `consumer.py:292`).
- The completion event can precede the end of the extraction it announces,
  since `chunks_received` is incremented before a chunk is extracted
  (`README.md:20`, `consumer.py:277`).
- The checkpoint is saved before the publication, against
  `pipeline_store.py:119`: a crash or a swallowed send in between loses the
  chunk's entities (`LossesAccounted` counts it as a loss).
- A total that arrives after the last chunk was processed is never looked at.
- Automatic commit runs ahead of the workers, so a crash loses queued chunks
  (`consumer.py:85`).
- The embed workers of an ingestion add to one count with `ctr["embedded"] +=
  await ...` (`ingestion_processor.py:424`, `433`, `437`), which reads before the
  flush and writes after it: flushes that overlap lose additions, so
  `chunks_produced` can be too low and completion be announced too early.
- The rows of a file's chunks are inserted one by one inside a caught `try`
  (`_file_processing.py:243`, `389-412`): when that fails part way, the rows stay,
  are never queued, and the file counts as processed.
- Nothing gives the processor an event emitter (`consumer.py:319`), so no delete
  of an old file version is ever sent and both versions stay in the index.
- `record_change` looks for a hash in all versions, not in the latest
  (`repository_version_store.py:46` and `71`): after contents A, B, A no row says
  that A is current again.
- A content whose chunks were lost after its row was written is skipped as
  unchanged from then on, also by a full refresh.
- A rename into something the filter rejects leaves the old path undeleted
  (`ingestion_processor.py:569`, `_file_processing.py:109`).
- A full refresh skips every unchanged file, because the
  hash comparison of `process_file` ignores `force_full_refresh`
  (`code_preprocessor/README.md:237`).
- A crash or a failing diff after `git pull` loses the changes: the next diff
  starts at the new commit.
- Two consumers of one repository can take the same version number
  (`repository_version_store.py:195`); the model assumes one.
- `chunker.py` drops small fragments its docstring says are merged: a node that
  is a boundary flushes the accumulator first.

Completion and embedding:

- The check is made only behind a processed batch (`consumer.py:547`), while
  `embedding_service/README.md:216` has the event sent once the totals are
  reached: an upstream service that finishes last leaves nobody to check.
- `consume()` commits behind the queue (`consumer.py:149-177`), so after a crash
  or a failing commit items are read and counted again, and `embedding_complete`
  can come before the last item.
- An entity without a name or an empty summary is counted upstream and has no
  item downstream, so completion never comes (`consumer.py:399`).

Storage:

- Qdrant offsets are committed before the write
  (`qdrant_storage_service/README.md:244`, `main.py:211`), and a delete
  overtakes queued chunks of the version it deletes, which come back
  (`main.py:225`).
- Chunks of fewer than 50 characters are passed over by `_process_batch`
  (`main.py:423-432`): neither written nor reported.
- Entities of type repository or file, and those the canonicaliser rejects, get
  no node (`main.py:578-582`, `643-704` of the Neo4j service), although their
  chunk is counted as processed (`1147`).
- The call that creates a missing collection uses up an attempt
  (`README.md:242`).
- An entity is one point, and one node, for all files of a scope, with the file
  version of its last writer: deleting that version removes it for all
  (`tests/test_writer.py:1059`, `writer.py:1886` of the Neo4j service).
- `resolve_file_version_id` may pick the version of another file and so delete
  that file's nodes, since it also looks at entity nodes (`writer.py:1858`),
  whose path is that of the first file with the entity and whose version that of
  the last; `models.py:264` promises the cleanup of the deleted file.  The
  exception in `DeletesOnlyItsFile` (`Shares`) is exactly this case.
- The Document to Repository edge of project code is never written: both its
  ends are addressed by ids the nodes do not have (`writer.py:1374`).
- A summary that arrives before its Document gets no edge to it, and no
  backfill; a Document is matched by path, which links chunks of older versions.

Documents:

- An event whose publication failed leaves its row in `document_versions`, so
  the same content is dismissed as unchanged when it comes again
  (`processor.py:147` and `184`).
- A message that fails after `produce` buffered it, or that `flush` gives up, is
  lost without an error (`document_preprocessor/event_emitter.py:247-251`,
  `315-317`).
- A title change emits nothing; a row persisted just before the server dies has
  no event.

Code changes consumer:

- Every handler catches every exception, so the documented three retries never
  happen.
- When the language model fails, the fallback's chunks are handed to a callback
  nobody passes: the old data of a modified file is gone, nothing replaces it,
  and the message counts as a success.
- Tasks of one file are not ordered.
- An added file, or one renamed without a previous path or onto a path the topic
  has not freed, is merged with what the stores hold of that path.
- The ids of entities name a file path and no project or company
  (`schema.py:70`, `storage_orchestrator.py:391`): files of the same path in two
  projects share their entities, and a purge of one takes those of the other,
  although the docstring calls it multi-tenant safe
  (`storage_orchestrator.py:594-595`).
- A result is stored under the path the language model returned
  (`gemini_client.py:158`, `storage_orchestrator.py:273-330`), which is not
  compared with the event's, and purged under the event's.
- Relations are merged between whatever entities there are
  (`storage_orchestrator.py:441-442`); the purge of either end's file removes
  them.
- Content that is too small keeps the old data, and after a rename the old path.

Accounts:

- The audit row is documented as written before the deletion (`main.py:1235`);
  a second task's is silently left out.
- The cleanup of Qdrant visits four names no service writes (`main.py:1039`),
  each of which counts as cleaned when it does not exist, and that of Neo4j the
  default database (`main.py:1136`) instead of `kgrag` and `cognee-...`: a
  deleted account's points and nodes stay, against `auth/README.md:234-239`.
- Failures of Neo4j, and of Qdrant as a whole, are swallowed although
  `main.py:1009` and `auth/README.md:239` promise that they stop the task.
- Nothing resumes unfinished tasks (`main.py:1330`).
- The two commits of `create_company` can leave a company without an owner.

Projects:

- When two transfers overlap, the loser moves the graph back although the row
  stays moved, and a project can end up with two `HAS_PROJECT` edges.
- A failing Neo4j or MongoDB step of a transfer leaves the stores before it
  moved; deleting the other company afterwards takes the points along.
- The plan limit is checked and then acted upon, and ignored by transfers.
- `create_project_node` merges the node of a company that was just deleted.
- A file stored while a transfer empties its collection is lost.

## 5. Proofs

Each theorem is about the module's specification, for every value of the
constants, from the constants' assumptions alone unless a hypothesis is named
below.  The invariants that carry the arguments are
named; "marked" below is what the properties themselves exclude: `disturbed` and
`shaken` in `ProjectStores`, `overlaps` in `DocumentIndex`.

`TwoStagePipeline_proofs`: `TypeCorrect`, `StagesInOrderHolds`,
`NothingStrandedHolds`.  `StagesInOrder` is not inductive: what keeps a chunk
from following a sentinel is where the sentinels come from.  `FileQueue` and
`EmbedQueue` therefore describe a whole queue by two numbers, the items taken
and the items waiting in front of the sentinels, and count: every sentinel put
by the coroutine is in the queue or was taken by a worker that returned, and no
worker has returned while items wait.  `StagesDone` and `WorkersHold` relate
the coroutine's position and a worker's state to what is finished and what a
worker has in its hands.  For `NothingStranded`, `NothingDropped` says that
until a signal the stored chunks are those in a queue, in a worker, settled or
given up with their file (`NoneLeft`: a worker between two files has none left).

Its second half proves `NeverOverstatedHolds`, `ResentOnlyByCancellationHolds`,
and `PipelineKeepsPromise`, the refinement: `Spec` implements `IngestPromise`.
The invariant of the first half is extended by uniqueness (`FilesApart`: a file
is taken once and split once, row by row, as `Splits` says; `OnePlace`: a chunk
is in one place; `LeftApart`: a file that was given up has no chunk anywhere
else), by what was published (`PublishedFromBatch`: of a worker's batch the
first `sent` chunks, once unless the worker was cancelled) and by the counts
(`Counted`: no count a worker has read, `CountsRead`, exceeds the chunks settled
and published, so writing it back with the worker's own batch added cannot
either).  Then each step is simulated: `Signal` by `Interrupt`, `StoreChunk` by
`Split`, `EnrichFails` by `Settle` (which publishes nothing), the end of a file
by `Handle`, `SendChunk` by `Publish`, the end of a flush by `Settle`,
`MarkCompleted` by `Complete`, and every other step by a stutter.

`ChunkWorkers_proofs`: `TypeCorrect`, `AlwaysInv` (`Inv`), `AtMostOnce`
(`PublishedOnce`), the last for a topic that holds each chunk once.
`PublishedOnce` is not inductive, because nothing in it forbids two workers at
the publication of one chunk, nor a worker that has passed the checkpoint
lookup of a published chunk.  `OneHolder` says that busy workers hold distinct
offsets, which follows from the single reader of the log (`OffsetsOrdered`) and
the fact that a crash clears all workers at once.  With an injective log they
hold distinct chunks (`DistinctChunks`).  `CheckpointGate` then says that what
is published has a checkpoint, that a worker behind the lookup but before the
save holds a chunk without one, and that between save and publication the chunk
is unpublished.  `Holding` (types, offsets, holders) is proved first and used
in the proof that every step preserves the gate, one case per action.

`CountersHold` (`CountersCoverOutput`), `DeliveryHolds`
(`CompletionAfterDelivery`) and `LossesHold` (`LossesAccounted`) are about
numbers that several workers change in several steps, so each invariant adds
what the workers in between still owe.  In `Covered` a worker on its way from
one counter to the next stands for one unit of the difference, and each of the
two counters has its own workers before (`BeforeEntities`, `BeforeEdges`) and
behind it (`PaidEntities`, `PaidEdges`), so it does not matter where between the
two increments one fails.  `Delivered` adds the workers about to count to
`chunks_received` and compares with what left the queue; `Witnessed` says that
what a worker read of the counter is not above it.  For the losses, `Charged`
counts the chunks that left the queue, are unpublished and are carried by no
worker (`Missing`, `Carries`) against the failed calls: only a failed call takes
a chunk from its carrier before the chunk is published.

`CompletionChain_proofs`: `TypeCorrect`, `EventsInOrderHolds`,
`NeverAheadHolds`, `NothingLostHolds`.  The invariant `ChainInOrder` orders what
each service tells: a status of "complete", and an embedding worker at its
announcement, imply the event of the service before, or a failed call.
`Bounded` keeps the sets finite, so that counting makes sense.  `NeverAhead`
compares two sums; it follows from a balance: what embedding has counted and
what it is still owed (`Owed`, the items that are published, in a batch before
its count, or tallied and about to be published) never exceeds what was reported
or is read `again`; a restart adds to both sides alike.  A batch settles exactly
its own part of the debt because an item is in one place at a time (`Places`).
`NothingLost` follows one item instead of sums: `Arrived` says that an embedded
item is nowhere else but in the batch of the worker about to check it, and, as
long as no call failed and nothing was read again (`Calm`, `Undisturbed`), a
published item is waiting, in a batch or embedded (`OnItsWay`), and each kind's
counter is exactly what left the batches (`PassedCounted`).

`ProjectStores_proofs`: `TypeCorrect`, `PointsInOnePlaceHolds`,
`StoresInStepHolds`, `NothingLostHolds`.  For `PointsInOnePlace` the invariant
has four parts: at most one request is between copying and removing
(`OneRemoves`, the synchronous calls), the files the consumer is storing are
distinct and new (`Apart`, `WritesNew`), every point was written
(`PointsWritten`), and a point is in one collection unless it is being moved or
its removal failed (`OnePlace`).

`StoresInStep` speaks of the moments when no request is at work, so its
invariant says where the stores are in the middle of each.  `Met` makes the marks
usable: two requests, or a request and a file being stored, on the same project
or company mark it, so an unmarked project has at most one request.  `ProjectsFit`
says of every unmarked project that its stores are as far as that request's
phase has brought them (`Advanced`: `Creating`, `Moving` there or back,
`Deleting`), or at rest (`Resting`), where a company that is being dropped may
have taken points and nodes with it but not yet the row.  `CompaniesFit` is the
same for companies (`StandsFor`).  `Founded` holds for marked ones, too: rows
name companies that exist, a collection with points exists, and a project that
is still to be created has no documents.  A failed step is where this invariant
earns its place: the compensation runs through phases of its own (`back`, `undo
both`, `undo node`), and the project may stay unmarked all the way.

For `NothingLost`, `Safe` adds what has to be known before anything is removed:
a request that deletes was asked to (`ToldToDelete`), a move that is emptying
its source has every point in the target or never saw it (`Copied`), and a
collection is dropped only when all that is in it, or on its way to it, was asked
to be deleted (`ToldToDrop`, `Doomed`).

The last section of that module is about `AccountDeletion`:
`AccountTypeCorrect`, `SagaHolds`, `DeletionsAuditedHolds`,
`CompletedMeansGoneHolds`, `UserGoesLastHolds`.  `AccountDeleting` says of each
phase what it has behind it: the companies of the snapshot that are no longer in
`left` are gone, and a company that is gone was removed by some task.  `OnRecord`
says why the record covers them although it reads the companies again: while the
user is there, the companies of the snapshot that have a row and no second owner
are still owned, so the second look finds them, too.  Together they are inductive
(`Saga`) because other requests only ever create companies that no task has
removed, so what a phase removed stays removed, whatever a second task or a crash
does.

`DocumentIndex_proofs`: `TypeCorrect`, `IndexFollowsRowHolds`,
`OneTextAtATimeHolds`, `UnchangedMeansStoredHolds`.  `Told` is about the servicer
and the topic: the row, the call under way and the last event of a document tell
the same (`CallsFit`, `LastSays`), its first event creates it (`CreatesFirst`),
an event has its place as id unless it repeats the one before (`Ids`), and what is
in hand or remembered was taken (`Taken`).

`Followed` is about the stores.  It is tempting to say that they hold what the
events before the consumer's position leave, and that is false: after a restart
the position goes back, and the stores are ahead of it.  `Explained` therefore
lets them hold what some prefix leaves that is at least as long (`Agree`).  That
is still not inductive, because a creation deletes nothing: handled again on top
of a later content it appends its version and its chunks, and `Mixed` says that
this happens only while the update behind that later content is itself still to
be handled again, which deletes first.  `Brought` says the same in the middle of
an event, phase by phase.  When all events are handled the only prefix left is
the whole topic, `Mixed` is excluded, and `LastSays` closes the gap to the row.
`Versioned` holds for overlapping calls, too: the last version of a document is
the content of the last chunks stored (`Ends`), which is what dismissing an
event relies on.  `OneText` says that without repetitions whatever is about to
be published finds nothing stored.  The assumption that no content is one of the
three words the model uses for "no content" is about the model's own encoding.

The last section of that module is about `CodeChanges`: `CodeTypeCorrect`,
`CodeStopLosesNothing`, `StoresFollowLogHolds`.  `Accounted` says that every
fetched message is done, lost or in work, and `StoppedIdle` that a stopped
consumer has no task; together they make the last commit safe.
`StoresFollowLog` speaks of the moments when everything is handled.  In between
`FilesFollow` says of every file that counts (`Traceable`) that one task at most
is at work on it, the last to touch it, and how far it is (`Within`), or that
the stores are ready for the messages still to come (`Ready`).  Ready does not
mean that they hold what the messages so far leave: after a restart the position
goes back and the stores stay ahead.  It means that the next message to touch
the file purges it, or that the file's content can be stored on top of what is
there (`Mergeable`), or else that what this makes a mess of is purged by a
message after it (`Superseded`).  That going back never leaves this is `Rewind`,
and it is where `ArrivalsFree`, the theorem's hypothesis, is needed
(`AfterTouch`).  `Rooted` says that a file's own entities hang on its Code node
and on nothing else, and a relation on both its ends, because a purge finds them
that way; it is also what keeps the steps of other files, which may merge and
purge any shared entity, from touching what is this file's own.  `Staged` says
that the position of a task fits its message, and that an answer under another
path has marked both paths.

`QdrantStorage_proofs`: `SentinelsLast`, `GracefulStop`, `OwnerDeletes`.
`Shape` is the part of the types the arguments need.  `NothingBehindSentinel` is
not inductive: `Shutdown` adds where the sentinel comes from (it enters the work
queue when `consume()` has left its loop, and is its last element) and what each
stage has then behind it (a collector that is ending has an empty work queue and
no batch; a worker that has stopped leaves only pills).  `Hands` says what
consume() and a worker can still hold: nothing in hand from "closing" on, no
batch when idle, and nothing fit to be written left behind of the kinds a worker
has passed (`Pending`: code chunks, then documents, then entities).  Then
`HeldConsume`, `HeldCollect`, `HeldWorker` and `HeldOthers` follow one item
through the queues: each step moves it to the next place, and only a crash drops
it (`Conserved`).  `OwnerDeletes` rests on entities being points of another
collection than chunks and documents, which share one (an assumption of the
module), and on the last of several writes of one point existing (`Greatest`).

`GraphStorage_proofs`: `TypeCorrect`, `SummariesLinkedHolds`,
`CountedMeansStoredHolds`, `DeleteIsCompleteHolds`, `DeletesOnlyItsFileHolds`.
None of the four properties is inductive: each is about the end of a batch or of
a delete, which takes many statements with those of other workers in between.
`Control` says where a worker is.  What is left in its `todo` is the end of the
statements of its batch (`TodoFits`, `InBatch`), so the number left tells the next
statement; a delete in hand names what its message names (`Asked`); an entity
node's owner and origin come from chunks that have the entity (`OwnersFit`).
`Links` says of a summary and a chunk that are both there that they are linked,
that a message of theirs failed, or that some worker still has the linking
statement ahead of it, and `Progress` that what a worker's statements so far
were to write is there or was taken by a delete; entities that some event keeps
out are not among what they were to write.  `Swept` says of a delete that
no other message of its version accompanies that what it removed stays removed.
`DeletesOnlyItsFile` follows from `Control` alone.

`FileVersions_proofs`: `TypeCorrect`, `TableFollowsCloneHolds`,
`ContentPublishedHolds`.  `JobsFit` says what a change in hand tells about the
clone, which does not move until the last of them is done: a path is removed by
one change, a removed path has no change of its own, and a job about to publish
has a row with the content of its path.  `GoneRecorded` and `PresentRecorded`
are the two halves of `TableFollowsClone`, and `RowsPublished` is what makes the
shortcuts safe: the content of every row, not only of the last, was published
for its path, was dropped (`missed`) or is about to be published.  A file
skipped because its hash is the latest, or given an old row again, then has its
content in the index already.  None of this needs a calm behaviour: failures,
crashes, reverts and refreshes are among the steps.

Only model-checked: liveness and everything under fairness, which these provers
cannot do.  `TypeOK` is proved where a `TypeCorrect` is listed; in the other
modules it documents the state.

## 6. Not modelled, and why

- Text processing: chunking, skeletons, project analysis, prompts, payload
  formats and message parsing.  They are sequential and have no state that a
  property here is about.  They, together with generated gRPC stubs, Pydantic
  schemas, SQL and Cypher text, route declarations and test support, are the
  larger part of the source by lines, which is why the models stand for a small
  share of the lines and for nearly all of the places where order matters.
- REST resources other than companies and projects (agents, skills, knowledge,
  tasks): a row and at most one node per request, without other actors.
  Creating and deleting an agent is the same pattern as `ProjectStores` with two
  stores; its compensation (`rollback_agent`) swallows errors.
- Sessions and tokens: each request checks or writes one key.
- The idempotency cache of the gRPC server.
- The rest of the cognee service adapts a third-party library that is not in
  the repository; its consumer of enriched chunks is not wired.
- A message that the code changes consumer cannot parse: `getmany` raises and the
  service stops (`consumer.py:141-143`, `266-268`).
- The purge of old file versions in `process_file`, which has no emitter to go
  through.
- Within the modelled components: several consumers of one repository, several
  partitions, progress rows and statistics, clone errors; node-set edges,
  hierarchy nodes and the Postgres mirror of the Neo4j service; directory nodes
  of the code changes consumer; access rights, plan limits of superusers and
  local clones of projects.

## 7. What is left

Modules: the idempotency cache of the gRPC server; agents and their rollback;
the merge of small chunks as a pure function against a reference definition.
Theorems: every safety property the runs check has one.
