---------------------------- MODULE GraphStorage ----------------------------
(***************************************************************************)
(* The neo4j storage service: extracted entities and summaries become      *)
(* nodes and edges of one company's graph, and delete events remove a      *)
(* file version again (neo4j_storage_service/main.py and writer.py).       *)
(*                                                                         *)
(* Every Cypher statement is an auto-commit transaction of its own, so a   *)
(* batch is a sequence of atomic steps that interleaves with the batches   *)
(* of the other workers and with the delete that consume() runs at once.   *)
(* An edge statement MATCHes both its ends and merges nothing when one is  *)
(* missing; every write is a MERGE on a derived id, hence a set union.     *)
(*                                                                         *)
(* One company, one project, one node set.  The collector only decides how *)
(* many waiting events a worker receives: a batch is any prefix of them.   *)
(***************************************************************************)
EXTENDS Integers, Sequences, FiniteSets, SequencesExt

CONSTANTS
    Version,      \* file_version_id of the files in the topics
    Path,         \* file paths
    Chunk,        \* chunks; each has one summary, named after the chunk
    Entity,       \* entity ids (name and node set, so shared by all files)
    PathOf,       \* PathOf[v]: the file v is a version of
    VersionOf,    \* VersionOf[c]: the version c was cut from
    Extracted,    \* Extracted[c]: entities of c's event
    Verdict,      \* Verdict[c, e]: what becomes of entity e as c's event has it
    Log,          \* the messages in the order the consumer sees them
    NoVersion,    \* a delete event without file_version_id
    Workers,      \* STREAMING_WORKERS batch workers
    BatchSize,    \* most events of one batch
    MaxFaults     \* bound on statements that fail after all their retries

Message ==
    [kind : {"entities", "summary"}, chunk : Chunk]
        \cup [kind : {"delete"}, version : Version \cup {NoVersion}, path : Path]

ASSUME ConstantsAssumption ==
    /\ PathOf \in [Version -> Path] /\ VersionOf \in [Chunk -> Version]
    /\ Extracted \in [Chunk -> SUBSET Entity]
    /\ Verdict \in [Chunk \X Entity -> {"kept", "repository", "file", "rejected"}]
    /\ Log \in Seq(Message)
    /\ NoVersion \notin Version
    /\ IsFiniteSet(Workers) /\ Workers # {}
    /\ BatchSize \in Nat \ {0} /\ MaxFaults \in Nat

VARIABLES
    nodes,    \* the graph's nodes, <<label, key>>
    edges,    \* its relationships, <<type, from, to>>
    owner,    \* file_version_id of the entity nodes
    origin,   \* file_path of the entity nodes
    outcome,  \* per message: how far it came
    batch,    \* messages of each worker's batch
    todo,     \* statements each worker still has to run
    target,   \* file version of the delete consume() is executing
    cleanup,  \* statements of that delete still to run
    settled,  \* nothing of target was in flight when that delete began
    counted,  \* chunks counted in chunks_processed
    faults

vars == <<nodes, edges, owner, origin, outcome, batch, todo, target, cleanup,
          settled, counted, faults>>
graph == <<nodes, edges, owner, origin>>

None == "none"

Init ==
    /\ nodes = {} /\ edges = {}
    /\ owner = [e \in Entity |-> NoVersion] /\ origin = [e \in Entity |-> None]
    /\ outcome = [i \in DOMAIN Log |-> "unread"]
    /\ batch = [w \in Workers |-> {}] /\ todo = [w \in Workers |-> <<>>]
    /\ target = NoVersion /\ cleanup = <<>> /\ settled = FALSE
    /\ counted = {} /\ faults = 0

With(state) == {i \in DOMAIN Log : outcome[i] = state}
Mark(S, state) == [i \in DOMAIN Log |-> IF i \in S THEN state ELSE outcome[i]]

\* the version a message writes or removes
VersionIn(m) == IF m.kind = "delete" THEN m.version ELSE VersionOf[m.chunk]
InFlight(v) == \E i \in With("queued") \cup With("running") : VersionIn(Log[i]) = v

-----------------------------------------------------------------------------
(* What the statements write.  B is the set of messages of a batch.        *)

ChunksIn(B, kind) == {Log[i].chunk : i \in {j \in B : Log[j].kind = kind}}

SummarySteps == <<"TextSummary", "summarizes", "summary_made_from", "summary_document">>
\* faulty variant: the backfill runs before the chunk nodes are written
EntityStepsBackfillFirst ==
    <<"EntityType", "Entity", "backfill_summarizes", "backfill_made_from", "DocumentChunk",
      "Repository", "Document", "chunk_document", "document_repository",
      "relationship", "contains", "made_from", "is_a", "entity_document", "count">>
\* faulty variant: the events are counted before the edges are written
EntityStepsCountedFirst ==
    <<"EntityType", "Entity", "DocumentChunk", "backfill_summarizes", "backfill_made_from",
      "Repository", "Document", "chunk_document", "count", "document_repository",
      "relationship", "contains", "made_from", "is_a", "entity_document">>
EntitySteps ==
    <<"EntityType", "Entity", "DocumentChunk", "backfill_summarizes", "backfill_made_from",
      "Repository", "Document", "chunk_document", "document_repository",
      "relationship", "contains", "made_from", "is_a", "entity_document", "count">>

EntityPart(B) == IF ChunksIn(B, "entities") = {} THEN <<>> ELSE EntitySteps
StepsFor(B) == (IF ChunksIn(B, "summary") = {} THEN <<>> ELSE SummarySteps) \o EntityPart(B)

\* the event of the batch whose definition of the entity stands: the last one
LastWriter(B, e) ==
    Log[CHOOSE i \in B :
            /\ Log[i].kind = "entities" /\ e \in Extracted[Log[i].chunk]
            /\ \A j \in B : j > i => Log[j].kind # "entities" \/ e \notin Extracted[Log[j].chunk]].chunk

\* entities typed repository or file are placeholders for nodes of other
\* labels, and the canonicaliser rejects others: neither becomes a node
OfferedIn(B) == UNION {Extracted[c] : c \in ChunksIn(B, "entities")}
Judged(B, verdict) == {e \in OfferedIn(B) : Verdict[LastWriter(B, e), e] = verdict}
EntitiesIn(B) == Judged(B, "kept")

\* the entities of chunk c's event in the mappings to chunk and Document, which
\* keep the placeholders: nothing matches them
Mapped(c, B) == Extracted[c] \ Judged(B, "rejected")

SummaryNodes(C) == {<<"TextSummary", c>> : c \in C}
\* every entity of the model has one type, unless it is a placeholder; the
\* types are collected before the canonicaliser
EntityTypeNodes(C) ==
    {<<"EntityType", "class">> : c \in {d \in C : \E e \in Extracted[d] :
                                           Verdict[d, e] \in {"kept", "rejected"}}}
EntityNodes(E) == {<<"Entity", e>> : e \in E}
ChunkNodes(C) == {<<"DocumentChunk", c>> : c \in C}
\* code of a project: the node has the project's id
RepositoryNode == {<<"Repository", "repo:project">>}
DocumentNodes(C) == {<<"Document", VersionOf[c]>> : c \in C}

NewNodes(s, B) ==
    LET SC == ChunksIn(B, "summary")
        EC == ChunksIn(B, "entities")
    IN CASE s = "TextSummary"   -> SummaryNodes(SC)
         [] s = "EntityType"    -> EntityTypeNodes(EC)
         [] s = "Entity"        -> EntityNodes(EntitiesIn(B))
         [] s = "DocumentChunk" -> ChunkNodes(EC)
         [] s = "Repository"    -> RepositoryNode
         [] s = "Document"      -> DocumentNodes(EC)
         [] OTHER               -> {}

SamePath(c, v) == PathOf[VersionOf[c]] = PathOf[v]

(* The records of the edge statements, for the chunks C of a batch.        *)

SummaryEdges(r, C) == {<<r, <<"TextSummary", c>>, <<"DocumentChunk", c>>>> : c \in C}
\* the summaries that name the chunk, which may be there already
BackfillEdges(r, C) == SummaryEdges(r, C)
\* a Document is matched by file path and node set ...
PartOfDocument(from, c) ==
    {<<"is_part_of", from, <<"Document", v>>>> : v \in {u \in Version : SamePath(c, u)}}
SummaryDocumentEdges(C) == UNION {PartOfDocument(<<"TextSummary", c>>, c) : c \in C}
EntityDocumentEdges(C, B) ==
    UNION {UNION {PartOfDocument(<<"Entity", e>>, c) : e \in Mapped(c, B)} : c \in C}
\* ... except here: by its id, from every chunk of that path
ChunkDocumentEdges(C) ==
    UNION {{<<"is_part_of", <<"DocumentChunk", d>>, <<"Document", VersionOf[c]>>>> :
                d \in {k \in Chunk : SamePath(k, VersionOf[c])}} : c \in C}
\* a path-derived id and a company-derived one, which the nodes do not have
DocumentRepositoryEdges(C) ==
    {<<"is_part_of", <<"Document", PathOf[VersionOf[c]]>>, <<"Repository", "repo:company">>>> : c \in C}
\* the target of a relationship: a placeholder stands for the repository's
\* node, or for a file's under an id that no node has
Target(B, e) ==
    CASE e \in Judged(B, "repository") -> <<"Repository", "repo:project">>
      [] e \in Judged(B, "file")       -> <<"Document", "path-derived">>
      [] OTHER                         -> <<"Entity", e>>
RelationshipEdges(C, B) ==
    UNION {{<<"related", <<"Entity", p[1]>>, Target(B, p[2])>> :
                p \in {q \in Mapped(c, B) \X Mapped(c, B) : q[1] # q[2] /\ q[1] \in EntitiesIn(B)}} :
           c \in C}
ContainsEdges(C, B) ==
    UNION {{<<"contains", <<"DocumentChunk", c>>, <<"Entity", e>>>> : e \in Mapped(c, B)} : c \in C}
MadeFromEdges(C, B) ==
    UNION {{<<"made_from", <<"Entity", e>>, <<"DocumentChunk", c>>>> : e \in Mapped(c, B)} : c \in C}
IsAEdges(E) == {<<"is_a", <<"Entity", e>>, <<"EntityType", "class">>>> : e \in E}

Wanted(s, B) ==
    LET SC == ChunksIn(B, "summary")
        EC == ChunksIn(B, "entities")
    IN CASE s = "summarizes"          -> SummaryEdges("summarizes", SC)
         [] s = "summary_made_from"   -> SummaryEdges("made_from", SC)
         [] s = "summary_document"    -> SummaryDocumentEdges(SC)
         [] s = "backfill_summarizes" -> BackfillEdges("summarizes", EC)
         [] s = "backfill_made_from"  -> BackfillEdges("made_from", EC)
         [] s = "chunk_document"      -> ChunkDocumentEdges(EC)
         [] s = "document_repository" -> DocumentRepositoryEdges(EC)
         [] s = "relationship"        -> RelationshipEdges(EC, B)
         [] s = "contains"            -> ContainsEdges(EC, B)
         [] s = "made_from"           -> MadeFromEdges(EC, B)
         [] s = "is_a"                -> IsAEdges(EntitiesIn(B))
         [] s = "entity_document"     -> EntityDocumentEdges(EC, B)
         [] OTHER                     -> {}

NewEdges(s, B) == {x \in Wanted(s, B) : x[2] \in nodes /\ x[3] \in nodes}

-----------------------------------------------------------------------------
(* consume(): feeds the queue, and executes deletes itself.                *)

DeleteSteps == <<"Document", "DocumentChunk", "TextSummary", "Entity">>

Reading == cleanup = <<>>
NextMessage == CHOOSE i \in With("unread") : \A j \in With("unread") : i <= j

Enqueue ==
    /\ Reading /\ With("unread") # {}
    /\ Log[NextMessage].kind # "delete"
    /\ outcome' = Mark({NextMessage}, "queued")
    /\ UNCHANGED <<graph, batch, todo, target, cleanup, settled, counted, faults>>

\* resolve_file_version_id: any version found on a node with that path; chunk
\* and entity nodes have both a file_path and a project_id
Resolved(p) ==
    {VersionOf[c] : c \in {k \in Chunk : <<"DocumentChunk", k>> \in nodes
                                            /\ PathOf[VersionOf[k]] = p}}
        \cup {owner[e] : e \in {x \in Entity : <<"Entity", x>> \in nodes /\ origin[x] = p}}

StartDelete(v) ==
    /\ target' = v /\ settled' = ~InFlight(v)
    /\ cleanup' = DeleteSteps
    /\ outcome' = Mark({NextMessage}, "running")

BeginDelete ==
    /\ Reading /\ With("unread") # {}
    /\ Log[NextMessage].kind = "delete"
    /\ \/ Log[NextMessage].version # NoVersion /\ StartDelete(Log[NextMessage].version)
       \/ /\ Log[NextMessage].version = NoVersion
          /\ \E v \in Resolved(Log[NextMessage].path) : StartDelete(v)
       \/ \* nothing found: nothing to delete
          /\ Log[NextMessage].version = NoVersion
          /\ Resolved(Log[NextMessage].path) = {}
          /\ outcome' = Mark({NextMessage}, "done")
          /\ UNCHANGED <<target, cleanup, settled>>
    /\ UNCHANGED <<graph, batch, todo, counted, faults>>

\* the nodes one statement of delete_by_file_version_id detaches and deletes;
\* an entity's other definitions are looked for among nodes of the same name
\* and type, and one node stands for the name
\* faulty variant: the statement selects by file instead of file version
DoomedByPath(s, v) ==
    CASE s = "Document"  -> {<<s, u>> : u \in {x \in Version : PathOf[x] = PathOf[v]}}
      [] s = "Entity"    -> {<<s, e>> : e \in {x \in Entity : owner[x] = v}}
      [] OTHER           -> {<<s, c>> : c \in {k \in Chunk : SamePath(k, v)}}
\* faulty variant: only the nodes that still have relationships
DoomedLinked(s, v) ==
    {n \in CASE s = "Document" -> {<<s, v>>}
             [] s = "Entity"   -> {<<s, e>> : e \in {x \in Entity : owner[x] = v}}
             [] OTHER          -> {<<s, c>> : c \in {k \in Chunk : VersionOf[k] = v}} :
        \E x \in edges : n \in {x[2], x[3]}}
Doomed(s, v) ==
    CASE s = "Document" -> {<<s, v>>}
      [] s = "Entity"   -> {<<s, e>> : e \in {x \in Entity : owner[x] = v}}
      [] OTHER          -> {<<s, c>> : c \in {k \in Chunk : VersionOf[k] = v}}

EndDelete(result) == outcome' = Mark({i \in With("running") : Log[i].kind = "delete"}, result)

DeleteStep ==
    /\ cleanup # <<>>
    /\ LET gone == Doomed(Head(cleanup), target)
       IN /\ nodes' = nodes \ gone
          /\ edges' = {x \in edges : x[2] \notin gone /\ x[3] \notin gone}
          /\ owner' = [e \in Entity |-> IF <<"Entity", e>> \in gone THEN NoVersion ELSE owner[e]]
          /\ origin' = [e \in Entity |-> IF <<"Entity", e>> \in gone THEN None ELSE origin[e]]
    /\ cleanup' = Tail(cleanup)
    /\ IF Tail(cleanup) = <<>> THEN EndDelete("done") ELSE UNCHANGED outcome
    /\ UNCHANGED <<batch, todo, target, settled, counted, faults>>

\* _handle_delete_event logs the failure, in the lookup or in a statement, and
\* the message counts as handled
DeleteFails ==
    /\ faults < MaxFaults /\ faults' = faults + 1
    /\ \/ cleanup # <<>> /\ cleanup' = <<>> /\ EndDelete("failed")
       \/ /\ Reading /\ With("unread") # {} /\ Log[NextMessage].kind = "delete"
          /\ outcome' = Mark({NextMessage}, "failed")
          /\ UNCHANGED cleanup
    /\ UNCHANGED <<graph, batch, todo, target, settled, counted>>

-----------------------------------------------------------------------------
(* Batch workers.                                                          *)

ReadyBatches ==
    {B \in SUBSET With("queued") :
        /\ B # {} /\ Cardinality(B) <= BatchSize
        /\ \A i \in B, j \in With("queued") : j < i => j \in B}

TakeBatch(w) ==
    /\ batch[w] = {}
    /\ \E B \in ReadyBatches :
        /\ batch' = [batch EXCEPT ![w] = B]
        /\ todo' = [todo EXCEPT ![w] = StepsFor(B)]
        /\ outcome' = Mark(B, "running")
    /\ UNCHANGED <<graph, target, cleanup, settled, counted, faults>>

\* the last statement ends the batch; summaries of a batch whose summary part
\* failed keep that outcome
Advance(w, rest) ==
    /\ todo' = [todo EXCEPT ![w] = rest]
    /\ batch' = [batch EXCEPT ![w] = IF rest = <<>> THEN {} ELSE batch[w]]
    /\ outcome' = IF rest = <<>> THEN Mark(batch[w] \cap With("running"), "done") ELSE outcome

Write(w) ==
    /\ todo[w] # <<>> /\ Head(todo[w]) # "count"
    /\ LET s == Head(todo[w])
           B == batch[w]
       IN /\ nodes' = nodes \cup NewNodes(s, B)
          /\ edges' = edges \cup NewEdges(s, B)
          /\ IF s = "Entity"
             THEN /\ owner' = [e \in Entity |-> IF e \in EntitiesIn(B)
                                                THEN VersionOf[LastWriter(B, e)] ELSE owner[e]]
                  /\ origin' = [e \in Entity |-> IF e \in EntitiesIn(B) /\ <<s, e>> \notin nodes
                                                 THEN PathOf[VersionOf[LastWriter(B, e)]]
                                                 ELSE origin[e]]
             ELSE UNCHANGED <<owner, origin>>
    /\ Advance(w, Tail(todo[w]))
    /\ UNCHANGED <<target, cleanup, settled, counted, faults>>

Count(w) ==
    /\ todo[w] # <<>> /\ Head(todo[w]) = "count"
    /\ counted' = counted \cup ChunksIn(batch[w], "entities")
    /\ Advance(w, Tail(todo[w]))
    /\ UNCHANGED <<graph, target, cleanup, settled, faults>>

\* a statement fails for good: _process_summary_batch swallows it and goes on
\* to the entity events, _process_batch marks the ingestion as failed
SummaryFails(w) ==
    /\ todo[w] # <<>> /\ Head(todo[w]) \in ToSet(SummarySteps) /\ faults < MaxFaults
    /\ faults' = faults + 1
    /\ LET rest == EntityPart(batch[w])
       IN /\ todo' = [todo EXCEPT ![w] = rest]
          /\ batch' = [batch EXCEPT ![w] = IF rest = <<>> THEN {} ELSE batch[w]]
    /\ outcome' = Mark({i \in batch[w] : Log[i].kind = "summary"}, "failed")
    /\ UNCHANGED <<graph, target, cleanup, settled, counted>>

\* what precedes the statements, the company's database and the project's name,
\* is outside the try: the whole batch is lost
BatchFails(w) ==
    /\ todo[w] # <<>> /\ Head(todo[w]) = "TextSummary" /\ faults < MaxFaults
    /\ faults' = faults + 1
    /\ todo' = [todo EXCEPT ![w] = <<>>]
    /\ batch' = [batch EXCEPT ![w] = {}]
    /\ outcome' = Mark(batch[w], "failed")
    /\ UNCHANGED <<graph, target, cleanup, settled, counted>>

\* the counters are incremented event by event, so some may have succeeded
EntitiesFail(w) ==
    /\ todo[w] # <<>> /\ Head(todo[w]) \notin ToSet(SummarySteps) /\ faults < MaxFaults
    /\ faults' = faults + 1
    /\ todo' = [todo EXCEPT ![w] = <<>>]
    /\ batch' = [batch EXCEPT ![w] = {}]
    /\ outcome' = [i \in DOMAIN Log |->
                        IF i \notin batch[w] \cap With("running") THEN outcome[i]
                        ELSE IF Log[i].kind = "entities" THEN "failed" ELSE "done"]
    /\ \E S \in SUBSET ChunksIn(batch[w], "entities") :
        /\ S # {} => Head(todo[w]) = "count"
        /\ counted' = counted \cup S
    /\ UNCHANGED <<graph, target, cleanup, settled>>

-----------------------------------------------------------------------------
WorkerStep(w) ==
    \/ TakeBatch(w) \/ Write(w) \/ Count(w)
    \/ SummaryFails(w) \/ BatchFails(w) \/ EntitiesFail(w)
ConsumeStep == Enqueue \/ BeginDelete \/ DeleteStep \/ DeleteFails

AtRest == \A i \in DOMAIN Log : outcome[i] \in {"done", "failed"}
Rests == AtRest /\ UNCHANGED vars

Next == ConsumeStep \/ (\E w \in Workers : WorkerStep(w)) \/ Rests
Spec == Init /\ [][Next]_vars

-----------------------------------------------------------------------------
(* Properties.                                                             *)

Node ==
    ({"TextSummary", "DocumentChunk"} \X Chunk) \cup ({"Entity"} \X Entity)
        \cup ({"Document"} \X Version) \cup {<<"EntityType", "class">>, <<"Repository", "repo:project">>}

\* The state is well formed; above all no relationship dangles: statements
\* match both ends, and DETACH DELETE takes the relationships along.
TypeOK ==
    /\ nodes \subseteq Node
    /\ \A x \in edges : x[2] \in nodes /\ x[3] \in nodes
    /\ owner \in [Entity -> Version \cup {NoVersion}]
    /\ origin \in [Entity -> Path \cup {None}]
    /\ \A e \in Entity : <<"Entity", e>> \in nodes <=> owner[e] # NoVersion
    /\ outcome \in [DOMAIN Log -> {"unread", "queued", "running", "done", "failed"}]
    /\ \A w \in Workers : batch[w] = {} <=> todo[w] = <<>>
    /\ cleanup \in Seq(ToSet(DeleteSteps)) /\ target \in Version \cup {NoVersion}
    /\ settled \in BOOLEAN /\ counted \subseteq Chunk /\ faults \in 0..MaxFaults

\* every message about chunk c of one kind was handled without a failure
Handled(kind, c) ==
    \A i \in DOMAIN Log : Log[i].kind = kind /\ Log[i].chunk = c => outcome[i] = "done"

\* The summary and the entities of a chunk come from two services in either
\* order, and are written by two workers.  Each side writes its nodes first
\* and then tries the edges, the entity side as a backfill: whatever the
\* interleaving, with deletes too, both relationships are there in the end.
SummariesLinked ==
    \A c \in Chunk :
        /\ Handled("summary", c) /\ Handled("entities", c)
        /\ <<"TextSummary", c>> \in nodes /\ <<"DocumentChunk", c>> \in nodes
        => {<<r, <<"TextSummary", c>>, <<"DocumentChunk", c>>>> :
                r \in {"summarizes", "made_from"}} \subseteq edges

DeleteBegun(v) ==
    \/ target = v
    \/ \E i \in DOMAIN Log : /\ Log[i].kind = "delete" /\ outcome[i] # "unread"
                             /\ Log[i].version \in {v, NoVersion}

\* The entities of a chunk that every event keeps; one event that types the
\* same entity as a repository or a file, or has it rejected, keeps it out of a
\* batch for all of them.
Lasting(c) == {e \in Extracted[c] : \A d \in Chunk : e \in Extracted[d] => Verdict[d, e] = "kept"}

\* A chunk is counted as processed only once all of it is in the graph: its
\* node, its Document, the edge between them, and every entity that no event has
\* kept out, with its edges to chunk and Document.  Only a delete takes any of it
\* away again, and an entity may fall to the delete of another version that
\* also has it.
CountedMeansStored ==
    \A c \in counted :
        LET doc == <<"Document", VersionOf[c]>>
            chunk == <<"DocumentChunk", c>>
        IN \/ DeleteBegun(VersionOf[c])
           \/ /\ <<"is_part_of", chunk, doc>> \in edges
              /\ \A e \in Lasting(c) :
                    \/ /\ <<"contains", chunk, <<"Entity", e>>>> \in edges
                       /\ <<"made_from", <<"Entity", e>>, chunk>> \in edges
                       /\ <<"is_part_of", <<"Entity", e>>, doc>> \in edges
                    \/ \E d \in Chunk : e \in Extracted[d] /\ DeleteBegun(VersionOf[d])

FileNodes(v) ==
    {<<"Document", v>>}
        \cup ({"DocumentChunk", "TextSummary"} \X {c \in Chunk : VersionOf[c] = v})

\* A delete that begins when nothing of the version is queued or being
\* written, and whose statements all succeed, leaves no node of the version,
\* whatever the workers write for other versions meanwhile.
DeleteIsComplete ==
    [][cleanup # <<>> /\ cleanup' = <<>> /\ settled /\ faults' = faults
        => FileNodes(target) \cap nodes' = {}]_vars

\* A chunk of the version and a chunk of the path have an entity in common.
Shares(v, p) ==
    \E c, d \in Chunk : /\ VersionOf[c] = v /\ PathOf[VersionOf[d]] = p
                        /\ Extracted[c] \cap Extracted[d] # {}

\* A delete removes file nodes only of the version it names.  One that names
\* none removes those of a version of its file, or of a file that has an entity
\* in common with it.
DeletesOnlyItsFile ==
    [][\A v \in Version :
        FileNodes(v) \cap (nodes \ nodes') # {} =>
            \E i \in With("running") :
                /\ Log[i].kind = "delete"
                /\ \/ Log[i].version = v
                   \/ /\ Log[i].version = NoVersion
                      /\ PathOf[v] = Log[i].path \/ Shares(v, Log[i].path)]_vars
=============================================================================
