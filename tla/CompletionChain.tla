---------------------------- MODULE CompletionChain ----------------------------
(* How three services agree that an ingestion is complete: entity extraction   *)
(* and summarization (the upstream services) handle the same chunks and        *)
(* publish what they made of them, and the embedding service embeds it.  Each  *)
(* counts into its own rows of pipeline_counters, and embedding compares its   *)
(* counters with theirs while they go on counting.  One ingestion.             *)
(*                                                                             *)
(* A chunk is handled by a worker of its own: with fewer workers fewer chunks  *)
(* are in work at a time, and ChunkWorkers has the queue, the redelivery and   *)
(* the single steps of a worker.  Triplets and type vectors do not count       *)
(* towards completion and are left out.                                        *)
EXTENDS Naturals, FiniteSets

CONSTANTS
    Chunk,      \* chunks the preprocessor published
    Unchanged,  \* per upstream service, chunks whose result is None (checkpoint, no prompt)
    Made,       \* per upstream service and chunk: what the counter is incremented by
    Embeddable, \* per upstream service and chunk: items _extract_items finds in the message
    Workers,    \* batch workers of the embedding service
    BatchSize,  \* EMBEDDING_BATCH_SIZE
    NotSet,     \* a counter without a row
    MaxFaults   \* bound: failing calls and restarts of the embedding service together

Upstream == {"extraction", "summarization"}
Service == Upstream \cup {"embedding"}

ASSUME ChunkAssumption == IsFiniteSet(Chunk)
ASSUME UnchangedAssumption == Unchanged \in [Upstream -> SUBSET Chunk]
ASSUME MadeAssumption == Made \in [Upstream -> [Chunk -> Nat]]
\* an entity without a name or an empty summary is counted but has no item
ASSUME EmbeddableAssumption ==
    /\ Embeddable \in [Upstream -> [Chunk -> Nat]]
    /\ \A s \in Upstream, c \in Chunk : Embeddable[s][c] <= Made[s][c]
ASSUME BatchAssumption == BatchSize \in Nat \ {0}
ASSUME NotSetAssumption == NotSet \notin Nat
ASSUME BoundAssumption == MaxFaults \in Nat

VARIABLES
    total,      \* chunks_produced, as the preprocessor reports it
    phase,      \* per upstream service: where its worker is with each chunk
    received,   \* chunks_received of the upstream services
    made,       \* entities_extracted, summaries_produced
    waiting,    \* items published and not yet taken by an embedding worker
    uncommitted,\* messages published and not known to be committed by the embedding service
    wpc, batch, \* state of each embedding worker and the batch in its hands
    left,       \* items of the batch whose completion check is still to be done
    own,        \* the worker's copy of the embedding counters
    counted,    \* entities_received, summaries_received of the embedding service
    embedded,   \* items published to embeddings-ready
    status,     \* status of each service's rows in pipeline_counters
    completed,  \* services that have the ingestion in _completed_ingestions
    events,     \* completion events published per service
    again,      \* history: items per kind that were taken and came again after a restart
    faults, restarts

upVars    == <<phase, received, made>>
embedVars == <<wpc, batch, left, own, counted, embedded>>
doneVars  == <<status, completed, events>>
topicVars == <<waiting, uncommitted, again>>
vars == <<total, upVars, topicVars, embedVars, doneVars, faults, restarts>>

Item == [from : Upstream, chunk : Chunk, n : Nat]
Items(s, c) == [from : {s}, chunk : {c}, n : 1..Embeddable[s][c]]
NothingRead == [s \in Upstream |-> 0]
OfKind(B, s) == {i \in B : i.from = s}

Init ==
    /\ total = NotSet
    /\ phase = [s \in Upstream |-> [c \in Chunk |-> "queued"]]
    /\ received = [s \in Upstream |-> 0]
    /\ made = [s \in Upstream |-> NotSet]
    /\ waiting = {} /\ uncommitted = {} /\ again = NothingRead
    /\ wpc = [w \in Workers |-> "idle"]
    /\ batch = [w \in Workers |-> {}]
    /\ left = [w \in Workers |-> 0]
    /\ own = [w \in Workers |-> NothingRead]
    /\ counted = [s \in Upstream |-> 0]
    /\ embedded = {}
    /\ status = [s \in Service |-> "running"]
    /\ completed = {}
    /\ events = [s \in Service |-> 0]
    /\ faults = 0 /\ restarts = 0

At(s, c, here) == phase[s][c] = here
GotoChunk(s, c, there) == phase' = [phase EXCEPT ![s][c] = there]
Goto(w, there) == wpc' = [wpc EXCEPT ![w] = there]
Message == Upstream \X Chunk
Trouble == faults + restarts < MaxFaults
Fault == Trouble /\ faults' = faults + 1

-----------------------------------------------------------------------------
(* The preprocessor and the upstream services: _process_chunk.             *)

\* at any time: the chunks were published before, but may be read later
ReportTotal ==
    /\ total = NotSet
    /\ total' = Cardinality(Chunk)
    /\ UNCHANGED <<upVars, topicVars, embedVars, doneVars, faults, restarts>>

CountReceived(s, c) ==
    /\ At(s, c, "queued")
    /\ received' = [received EXCEPT ![s] = @ + 1]
    /\ GotoChunk(s, c, "llm")
    /\ UNCHANGED <<total, made, topicVars, embedVars, doneVars, faults, restarts>>

\* a result of None ends the chunk without a completion check
CallModel(s, c) ==
    /\ At(s, c, "llm")
    /\ GotoChunk(s, c, IF c \in Unchanged[s] THEN "over" ELSE "tally")
    /\ UNCHANGED <<total, received, made, topicVars, embedVars, doneVars, faults, restarts>>

\* faulty variant: the result is published and not counted
TallyAfterPublish(s, c) ==
    /\ At(s, c, "tally") /\ waiting' = waiting \cup Items(s, c)
    /\ GotoChunk(s, c, "publish")
    /\ UNCHANGED <<total, received, made, uncommitted, again, embedVars, doneVars, faults, restarts>>

\* an increment by nothing is not made, and leaves the counter without a row
Tally(s, c) ==
    /\ At(s, c, "tally")
    /\ made' = IF Made[s][c] = 0 THEN made
               ELSE [made EXCEPT ![s] = (IF @ = NotSet THEN 0 ELSE @) + Made[s][c]]
    /\ GotoChunk(s, c, "publish")
    /\ UNCHANGED <<total, received, topicVars, embedVars, doneVars, faults, restarts>>

Publish(s, c) ==
    /\ At(s, c, "publish")
    /\ waiting' = waiting \cup Items(s, c)
    /\ uncommitted' = uncommitted \cup {<<s, c>>}
    /\ GotoChunk(s, c, "check")
    /\ UNCHANGED <<total, received, made, again, embedVars, doneVars, faults, restarts>>

\* _completed_ingestions, then the two counters: they only grow, so reading
\* all at once decides as one after the other does at one of the moments
Compare(s, c) ==
    /\ At(s, c, "check")
    /\ GotoChunk(s, c, IF s \notin completed /\ total # NotSet /\ received[s] >= total
                       THEN "announce" ELSE "over")
    /\ UNCHANGED <<total, received, made, topicVars, embedVars, doneVars, faults, restarts>>

\* the mark in memory and the completion event
Announce(s, c) ==
    /\ At(s, c, "announce")
    /\ completed' = completed \cup {s}
    /\ events' = [events EXCEPT ![s] = @ + 1]
    /\ GotoChunk(s, c, "finalize")
    /\ UNCHANGED <<total, received, made, topicVars, embedVars, status, faults, restarts>>

Finalize(s, c) ==
    /\ At(s, c, "finalize")
    /\ status' = [status EXCEPT ![s] = "complete"]
    /\ GotoChunk(s, c, "over")
    /\ UNCHANGED <<total, received, made, topicVars, embedVars, completed, events, faults, restarts>>

\* the language model gave up after all attempts, or a counter could not be
\* written: the chunk is left; an error of the completion check is logged, and
\* one in reading the counters for the event comes behind the mark in memory
ChunkFails(s, c) ==
    /\ phase[s][c] \in {"queued", "llm", "tally", "check", "announce", "finalize"} /\ Fault
    /\ completed' = IF At(s, c, "announce") THEN completed \cup {s} ELSE completed
    /\ GotoChunk(s, c, "over")
    /\ UNCHANGED <<total, received, made, topicVars, embedVars, status, events, restarts>>

\* _publish_event swallows the error of send_and_wait
PublishSwallowed(s, c) ==
    /\ phase[s][c] \in {"publish", "announce"} /\ Fault
    /\ completed' = IF At(s, c, "announce") THEN completed \cup {s} ELSE completed
    /\ GotoChunk(s, c, IF At(s, c, "publish") THEN "check" ELSE "finalize")
    /\ UNCHANGED <<total, received, made, topicVars, embedVars, status, events, restarts>>

-----------------------------------------------------------------------------
(* The embedding service: consume(), collector and batch workers.          *)

\* consume() commits once it has queued what getmany returned, whether or not
\* a worker has seen it.  Only a restart tells whether it did: the process dies,
\* or a failing commit ends consume() and stop() lets the workers finish; what
\* was not committed (all but M) is read again, and the queues and the mark in
\* memory are gone
Restart ==
    /\ Trouble /\ restarts' = restarts + 1
    /\ \E M \in SUBSET uncommitted : uncommitted' = uncommitted \ M
    /\ waiting' = UNION {Items(m[1], m[2]) : m \in uncommitted'}
    /\ again' = [s \in Upstream |-> again[s] + Cardinality(OfKind(waiting' \ waiting, s))]
    /\ wpc' = [w \in Workers |-> "idle"]
    /\ batch' = [w \in Workers |-> {}]
    /\ left' = [w \in Workers |-> 0]
    /\ own' = [w \in Workers |-> NothingRead]
    /\ completed' = completed \ {"embedding"}
    /\ UNCHANGED <<total, upVars, counted, embedded, status, events, faults>>

\* a batch is whatever the collector found, up to BatchSize items of both
\* topics; QdrantStorage has the two queues of the same construction
TakeBatch(w) ==
    /\ wpc[w] = "idle"
    /\ \E B \in SUBSET waiting :
        /\ B # {} /\ Cardinality(B) <= BatchSize
        /\ batch' = [batch EXCEPT ![w] = B]
        /\ waiting' = waiting \ B
        /\ Goto(w, IF OfKind(B, "extraction") # {} THEN "entities" ELSE "summaries")
    /\ UNCHANGED <<total, upVars, uncommitted, again, left, own, counted, embedded, doneVars,
                   faults, restarts>>

\* a kind the batch does not hold is not counted
Count(w, here, s, there) ==
    /\ wpc[w] = here
    /\ counted' = [counted EXCEPT ![s] = @ + Cardinality(OfKind(batch[w], s))]
    /\ Goto(w, there)
    /\ UNCHANGED <<total, upVars, topicVars, batch, left, own, embedded, doneVars, faults, restarts>>

\* faulty variant: the summaries of a mixed batch are not counted
CountEntitiesOnly(w) == Count(w, "entities", "extraction", "embed")
CountEntities(w) ==
    Count(w, "entities", "extraction",
          IF OfKind(batch[w], "summarization") # {} THEN "summaries" ELSE "embed")
CountSummaries(w) == Count(w, "summaries", "summarization", "embed")

\* faulty variant: only one item of the batch is published
EmbedFirst(w) ==
    /\ wpc[w] = "embed"
    /\ \E i \in batch[w] : embedded' = embedded \cup {i}
    /\ left' = [left EXCEPT ![w] = Cardinality(batch[w])]
    /\ Goto(w, "check")
    /\ UNCHANGED <<total, upVars, topicVars, batch, own, counted, doneVars, faults, restarts>>

\* the embedding call, embeddings_computed and one event for each item
Embed(w) ==
    /\ wpc[w] = "embed"
    /\ embedded' = embedded \cup batch[w]
    /\ left' = [left EXCEPT ![w] = Cardinality(batch[w])]
    /\ Goto(w, "check")
    /\ UNCHANGED <<total, upVars, topicVars, batch, own, counted, doneVars, faults, restarts>>

\* _publish_event swallows the error of send_and_wait: some items are not sent
EmbedSwallowed(w) ==
    /\ wpc[w] = "embed" /\ Fault
    /\ \E S \in SUBSET batch[w] : S # batch[w] /\ embedded' = embedded \cup S
    /\ left' = [left EXCEPT ![w] = Cardinality(batch[w])]
    /\ Goto(w, "check")
    /\ UNCHANGED <<total, upVars, topicVars, batch, own, counted, doneVars, restarts>>

\* the next item's check, or the next batch
NextItem(w) ==
    /\ left' = [left EXCEPT ![w] = @ - 1]
    /\ Goto(w, IF left[w] > 1 THEN "check" ELSE "idle")
    /\ batch' = [batch EXCEPT ![w] = IF left[w] > 1 THEN @ ELSE {}]
    /\ own' = [own EXCEPT ![w] = NothingRead]

SkipDone(w) ==
    /\ wpc[w] = "check" /\ "embedding" \in completed
    /\ NextItem(w)
    /\ UNCHANGED <<total, upVars, topicVars, counted, embedded, doneVars, faults, restarts>>

ReadOwn(w) ==
    /\ wpc[w] = "check" /\ "embedding" \notin completed
    /\ own' = [own EXCEPT ![w] = counted]
    /\ Goto(w, "upstream")
    /\ UNCHANGED <<total, upVars, topicVars, batch, left, counted, embedded, doneVars, faults, restarts>>

\* faulty variant: the status of the upstream services is not asked for
AllEmbeddedUnasked(w) ==
    \A s \in Upstream : made[s] # NotSet /\ own[w][s] >= made[s]
AllEmbedded(w) ==
    \A s \in Upstream : status[s] = "complete" /\ made[s] # NotSet /\ own[w][s] >= made[s]

\* two status queries and two totals: all grow only, so one moment decides
ReadUpstream(w) ==
    /\ wpc[w] = "upstream"
    /\ IF AllEmbedded(w)
       THEN /\ Goto(w, "announce") /\ own' = [own EXCEPT ![w] = NothingRead]
            /\ UNCHANGED <<left, batch>>
       ELSE NextItem(w)
    /\ UNCHANGED <<total, upVars, topicVars, counted, embedded, doneVars, faults, restarts>>

AnnounceEmbedded(w) ==
    /\ wpc[w] = "announce"
    /\ completed' = completed \cup {"embedding"}
    /\ events' = [events EXCEPT !["embedding"] = @ + 1]
    /\ Goto(w, "finalize")
    /\ UNCHANGED <<total, upVars, topicVars, batch, left, own, counted, embedded, status, faults, restarts>>

FinalizeEmbedded(w) ==
    /\ wpc[w] = "finalize"
    /\ status' = [status EXCEPT !["embedding"] = "complete"]
    /\ NextItem(w)
    /\ UNCHANGED <<total, upVars, topicVars, counted, embedded, completed, events, faults, restarts>>

\* a counter that cannot be written, or an embedding call that failed in all
\* attempts: the whole batch is dropped
BatchFails(w) ==
    /\ wpc[w] \in {"entities", "summaries", "embed"} /\ Fault
    /\ Goto(w, "idle")
    /\ batch' = [batch EXCEPT ![w] = {}]
    /\ UNCHANGED <<total, upVars, topicVars, left, own, counted, embedded, doneVars, restarts>>

\* an error in one item's completion check is logged; one in reading the
\* counters for the event comes behind the mark in memory
CheckFails(w) ==
    /\ wpc[w] \in {"upstream", "announce", "finalize"} /\ Fault
    /\ completed' = IF wpc[w] = "announce" THEN completed \cup {"embedding"} ELSE completed
    /\ NextItem(w)
    /\ UNCHANGED <<total, upVars, topicVars, counted, embedded, status, events, restarts>>

\* sending embedding_complete failed, which _publish_event swallows
EventSwallowed(w) ==
    /\ wpc[w] = "announce" /\ Fault
    /\ completed' = completed \cup {"embedding"}
    /\ Goto(w, "finalize")
    /\ UNCHANGED <<total, upVars, topicVars, batch, left, own, counted, embedded, status, events,
                   restarts>>

EmbedFault(w) == BatchFails(w) \/ EmbedSwallowed(w) \/ CheckFails(w) \/ EventSwallowed(w)

\* every chunk is over and nothing is waiting
ChainQuiet ==
    /\ \A s \in Upstream, c \in Chunk : At(s, c, "over")
    /\ waiting = {} /\ \A w \in Workers : wpc[w] = "idle"
Rests == total # NotSet /\ ChainQuiet /\ UNCHANGED vars

-----------------------------------------------------------------------------
UpstreamStep(s, c) ==
    \/ CountReceived(s, c) \/ CallModel(s, c) \/ Tally(s, c) \/ Publish(s, c)
    \/ Compare(s, c) \/ Announce(s, c) \/ Finalize(s, c)
EmbedStep(w) ==
    \/ TakeBatch(w) \/ CountEntities(w) \/ CountSummaries(w) \/ Embed(w)
    \/ SkipDone(w) \/ ReadOwn(w) \/ ReadUpstream(w)
    \/ AnnounceEmbedded(w) \/ FinalizeEmbedded(w)

Next ==
    \/ ReportTotal \/ Restart \/ Rests
    \/ \E s \in Upstream, c \in Chunk :
           UpstreamStep(s, c) \/ ChunkFails(s, c) \/ PublishSwallowed(s, c)
    \/ \E w \in Workers : EmbedStep(w) \/ EmbedFault(w)

Spec == Init /\ [][Next]_vars

\* every task of an event loop that can go on does; no failure is forced
FairSpec ==
    /\ Spec
    /\ WF_vars(ReportTotal)
    /\ \A s \in Upstream, c \in Chunk : WF_vars(UpstreamStep(s, c))
    /\ \A w \in Workers : WF_vars(EmbedStep(w))

-----------------------------------------------------------------------------
(* Properties.                                                             *)

Phase == {"queued", "llm", "tally", "publish", "check", "announce", "finalize", "over"}
EmbedState == {"idle", "entities", "summaries", "embed", "check", "upstream", "announce",
               "finalize"}

\* Every variable stays in its type.
TypeOK ==
    /\ total \in Nat \cup {NotSet}
    /\ phase \in [Upstream -> [Chunk -> Phase]]
    /\ received \in [Upstream -> Nat]
    /\ made \in [Upstream -> Nat \cup {NotSet}]
    /\ waiting \subseteq Item /\ embedded \subseteq Item
    /\ uncommitted \subseteq Message /\ again \in [Upstream -> Nat]
    /\ wpc \in [Workers -> EmbedState]
    /\ batch \in [Workers -> SUBSET Item]
    /\ left \in [Workers -> Nat]
    /\ own \in [Workers -> [Upstream -> Nat]]
    /\ counted \in [Upstream -> Nat]
    /\ status \in [Service -> {"running", "complete"}]
    /\ completed \subseteq Service
    /\ events \in [Service -> Nat]
    /\ faults \in Nat /\ restarts \in Nat

\* Embedding is ahead of a producer's counter by no more than the items that
\* came to it twice: without a restart between queueing and commit a comparison
\* of the two counters can only err on the side of waiting
\* (increment_counter before _publish_event in both upstream services), and
\* after one it errs by what was read again, however often it was counted.
Reported(s) == IF made[s] = NotSet THEN 0 ELSE made[s]
NeverAhead == \A s \in Upstream : counted[s] <= Reported(s) + again[s]

\* pipeline-events tells the story in order: embedding_complete is preceded by
\* the completion events of both upstream services, unless sending one failed.
EventsInOrder ==
    events["embedding"] > 0 => \A s \in Upstream : events[s] > 0 \/ faults > 0

\* When no call failed, the service ran through and everything has come to rest,
\* every item of every chunk that had a result is embedded and counted by its kind.
NothingLost ==
    ChainQuiet /\ faults = 0 /\ restarts = 0 =>
        /\ \A s \in Upstream : \A c \in Chunk \ Unchanged[s] : Items(s, c) \subseteq embedded
        /\ \A s \in Upstream : counted[s] = Cardinality(OfKind(embedded, s))

BothComplete == \A s \in Upstream : status[s] = "complete" /\ made[s] # NotSet

\* With nothing counted that cannot be embedded and no failing call, an item
\* that no worker has taken when both upstream services are complete leads to
\* embedding_complete: the batch that holds the last one makes the check.
LateItemCompletes ==
    (\A s \in Upstream, c \in Chunk : Embeddable[s][c] = Made[s][c]) =>
        ((BothComplete /\ waiting # {}) ~> (events["embedding"] > 0 \/ faults + restarts > 0))
=============================================================================
