------------------------------ MODULE CodeChanges ------------------------------
(***************************************************************************)
(* The code changes consumer of the REST API.  One loop reads file events  *)
(* and starts a task for each, up to MAX_CONCURRENT_WORKERS of them; a     *)
(* task purges what the graph and the vector store hold of the file,       *)
(* has the new content analysed and stores the result (code_service_v2).   *)
(*                                                                         *)
(* A step of a task reaches to the next call it waits for; the relations   *)
(* of one result share a step.  Calls of Qdrant, the embedder and MongoDB  *)
(* are synchronous and share a step with what surrounds them.  No failure  *)
(* of a message leaves handle_message, so the retry loop around it runs    *)
(* once and is not modelled.                                               *)
(*                                                                         *)
(* The language model chooses the path a result is stored under and the    *)
(* ids of its entities.  An id names no project (schema.py), so files may  *)
(* share entities.  Directory nodes, which are never removed, are left     *)
(* out, as are messages without tenant, content or known language.         *)
(***************************************************************************)
EXTENDS Integers, Sequences, FiniteSets, FiniteSetsExt

CONSTANTS
    Path, NoPath,   \* paths, each in its project; an event's previous path when it has none
    Project, ProjectOf, \* projects, and the one of each path
    Graphed,        \* projects with a Project node in the graph
    Content,        \* contents of files
    Absent,         \* what a store holds of a file it does not know
    Entity,         \* entity ids
    Defines,        \* entities the analysis finds in a content
    Relates,        \* relations it finds there, between entities of any file
    Size,           \* entities it gives texts to embed for
    Tiny,           \* contents _should_process rejects
    Excluded,       \* contents BatchProcessor.should_process rejects
    Log,            \* the topic
    MaxWorkers,     \* MAX_CONCURRENT_WORKERS
    MaxFailures     \* bound on failing calls and crashes

Change == {"added", "modified", "deleted", "renamed"}
FileEvent == [change : Change, path : Path, previous : Path \cup {NoPath},
              content : Content]
Offset == 1 .. Len(Log)

ASSUME CodeAssumption ==
    /\ NoPath \notin Path /\ Absent \notin Content
    /\ ProjectOf \in [Path -> Project] /\ Graphed \subseteq Project
    /\ Defines \in [Content -> SUBSET Entity]
    /\ Relates \in [Content -> SUBSET (Entity \X Entity)]
    /\ Size \in [Content -> Nat]
    /\ Tiny \subseteq Content /\ Excluded \subseteq Content
    /\ Log \in Seq(FileEvent)
    /\ MaxWorkers \in Nat \ {0} /\ MaxFailures \in Nat

\* points of a file, numbered; 0 is the file itself
Unit == {0} \cup UNION {0 .. Size[c] : c \in Content}
Relation == UNION {Relates[c] : c \in Content}

VARIABLES
    loop,       \* "running", "draining" after the loop has ended, "stopped"
    signalled,  \* a termination signal has cleared _running
    fetched,    \* messages fetched
    acked,      \* messages a restart does not fetch again
    task,       \* position of the task of each message in work
    code,       \* content of the Code node of each file
    entity,     \* content that each Entity node was last merged from
    contains,   \* CONTAINS, from Code to Entity nodes
    edge,       \* content that each relation was last merged from
    point,      \* content of each point in the company's collection
    done,       \* messages handled to the end
    lost,       \* messages a crash took from memory after their commit
    disturbed,  \* files whose last change cannot be told from the log alone
    answer,     \* path the language model gives the result of each message
    astray,     \* paths of results that came back under another path, and those paths
    failures    \* failing calls and crashes so far

graph == <<code, entity, contains, edge>>
stores == <<graph, point>>
history == <<done, lost, disturbed>>
answers == <<answer, astray>>
codeVars == <<loop, signalled, fetched, acked, task, stores, history, answers, failures>>

NoTask == "idle"
Active == {o \in Offset : task[o] # NoTask}
Nothing == [u \in Unit |-> Absent]
\* what a store holds of the members of S when those in found come from c
Filled(S, found, c) == [u \in S |-> IF u \in found THEN c ELSE Absent]

CallFails == failures < MaxFailures /\ failures' = failures + 1

Renames(m) == m.change = "renamed" /\ m.previous # NoPath

\* only a rename looks at the previous path
Touches(o) == {Log[o].path} \cup (IF Renames(Log[o]) THEN {Log[o].previous} ELSE {})

CodeInit ==
    /\ loop = "running" /\ signalled = FALSE
    /\ fetched = 0 /\ acked = 0
    /\ task = [o \in Offset |-> NoTask]
    /\ code = [p \in Path |-> Absent]
    /\ entity = [e \in Entity |-> Absent] /\ contains = {}
    /\ edge = [r \in Relation |-> Absent]
    /\ point = [p \in Path |-> Nothing]
    /\ done = {} /\ lost = {} /\ disturbed = {}
    /\ answer = [o \in Offset |-> Log[o].path] /\ astray = {}
    /\ failures = 0

-----------------------------------------------------------------------------
(* CodeChangesConsumer.                                                    *)

\* faulty variant: finished tasks are never taken out of active_tasks
LoadLeaking == Cardinality(Active \cup done)

Load == Cardinality(Active)

\* handle_message: where the task of a message starts
FirstStep(m) ==
    IF m.change = "deleted" THEN "purge"
    ELSE IF m.content \in Tiny THEN "skip"
    ELSE IF m.change = "modified" \/ Renames(m) THEN "purge"
    ELSE "analyze"

\* delete_by_file_path: the file that goes
Purged(m) == IF m.change = "renamed" THEN m.previous ELSE m.path

\* files that a fetched message changes while another one is at work on them
Contended(batch) ==
    UNION {Touches(o) \cap UNION {Touches(q) : q \in (Active \cup batch) \ {o}} :
               o \in batch}
\* files that a fetched message clears before it does anything else
Cleared(batch) ==
    {Purged(Log[o]) : o \in {q \in batch : FirstStep(Log[q]) = "purge"}}

Fetch == \E n \in 1 .. Len(Log) :
    /\ loop = "running"
    /\ n <= MaxWorkers - Load /\ fetched + n <= Len(Log)
    /\ LET batch == fetched + 1 .. fetched + n IN
       /\ task' = [o \in Offset |-> IF o \in batch THEN FirstStep(Log[o]) ELSE task[o]]
       /\ disturbed' = (disturbed \ Cleared(batch)) \cup Contended(batch)
    /\ fetched' = fetched + n
    /\ UNCHANGED <<loop, signalled, acked, stores, done, lost, answers, failures>>

\* the client commits what was fetched, at intervals
AutoCommit ==
    /\ loop # "stopped" /\ acked # fetched
    /\ acked' = fetched
    /\ UNCHANGED <<loop, signalled, fetched, task, stores, history, answers, failures>>

Signal ==
    /\ ~signalled
    /\ signalled' = TRUE
    /\ UNCHANGED <<loop, fetched, acked, task, stores, history, answers, failures>>

LeaveLoop ==
    /\ loop = "running" /\ signalled
    /\ loop' = "draining"
    /\ UNCHANGED <<signalled, fetched, acked, task, stores, history, answers, failures>>

\* faulty variant: the loop ends without waiting for its tasks
DrainedAtOnce == TRUE

Drained == Active = {}

\* tasks that are left when the event loop ends are cancelled with it
Stop ==
    /\ loop = "draining" /\ Drained
    /\ loop' = "stopped"
    /\ acked' = fetched
    /\ task' = [o \in Offset |-> NoTask]
    /\ UNCHANGED <<signalled, fetched, stores, history, answers, failures>>

\* the process dies and is started again
ConsumerDies ==
    /\ loop # "stopped" /\ CallFails
    /\ lost' = lost \cup {o \in Active : o <= acked}
    /\ disturbed' = disturbed \cup UNION {Touches(o) : o \in lost' \cap Active}
    /\ task' = [o \in Offset |-> NoTask]
    /\ fetched' = acked
    /\ loop' = "running" /\ signalled' = FALSE
    /\ UNCHANGED <<acked, stores, done, answers>>

-----------------------------------------------------------------------------
(* MessageHandler and what it calls, one task per message.                 *)

At(o, step) == loop # "stopped" /\ task[o] = step
Go(o, step) == task' = [task EXCEPT ![o] = step]
FinishTask(o) == Go(o, NoTask) /\ done' = done \cup {o}
Disturb(o) == disturbed' = disturbed \cup Touches(o)
reader == <<loop, signalled, fetched, acked, lost>>

\* no content to work with: the message is passed over
Skip(o) ==
    /\ At(o, "skip")
    /\ FinishTask(o) /\ Disturb(o)
    /\ UNCHANGED <<reader, stores, answers, failures>>

\* the graph first: the Code node goes, with the entities it contains and all
\* relations of these, whichever file they come from
PurgeGraph(o) ==
    LET p == Purged(Log[o])
        gone == {e \in Entity : <<p, e>> \in contains}
    IN
    /\ At(o, "purge")
    /\ code' = [code EXCEPT ![p] = Absent]
    /\ entity' = [e \in Entity |-> IF e \in gone THEN Absent ELSE entity[e]]
    /\ contains' = {h \in contains : h[2] \notin gone}
    /\ edge' = [r \in Relation |-> IF {r[1], r[2]} \cap gone # {} THEN Absent ELSE edge[r]]
    /\ Go(o, "purge points")
    /\ UNCHANGED <<reader, point, done, disturbed, answers, failures>>

AfterPurge(m) == IF m.change = "deleted" THEN NoTask ELSE "analyze"

\* faulty variant: the points of the new path are purged
PurgePointsAhead(o) == LET next == AfterPurge(Log[o]) IN
    /\ At(o, "purge points")
    /\ point' = [point EXCEPT ![Log[o].path] = Nothing]
    /\ IF next = NoTask THEN FinishTask(o) ELSE Go(o, next) /\ done' = done
    /\ UNCHANGED <<reader, graph, disturbed, answers, failures>>

PurgePoints(o) == LET next == AfterPurge(Log[o]) IN
    /\ At(o, "purge points")
    /\ point' = [point EXCEPT ![Purged(Log[o])] = Nothing]
    /\ IF next = NoTask THEN FinishTask(o) ELSE Go(o, next) /\ done' = done
    /\ UNCHANGED <<reader, graph, disturbed, answers, failures>>

PurgeRaises(o) ==
    /\ At(o, "purge") \/ At(o, "purge points")
    /\ CallFails /\ FinishTask(o) /\ Disturb(o)
    /\ UNCHANGED <<reader, stores, answers>>

\* analyze_files passes over contents it does not process
NothingToAnalyze(o) ==
    /\ At(o, "analyze") /\ Log[o].content \in Excluded
    /\ FinishTask(o)
    /\ disturbed' = IF Log[o].change = "modified" THEN disturbed
                    ELSE disturbed \cup {Log[o].path}
    /\ UNCHANGED <<reader, stores, answers, failures>>

Analyzes(o) == At(o, "analyze") /\ Log[o].content \notin Excluded

Analyze(o) ==
    /\ Analyzes(o) /\ Go(o, "code")
    /\ answer' = [answer EXCEPT ![o] = Log[o].path]
    /\ UNCHANGED <<reader, stores, done, disturbed, astray, failures>>

\* the result comes back under another path of the project; nobody compares
Misnames(o) ==
    /\ Analyzes(o) /\ Go(o, "code")
    /\ CallFails
    /\ \E p \in Path \ {Log[o].path} :
         /\ ProjectOf[p] = ProjectOf[Log[o].path]
         /\ answer' = [answer EXCEPT ![o] = p]
         /\ astray' = astray \cup {p, Log[o].path}
    /\ UNCHANGED <<reader, stores, done, disturbed>>

\* the model fails: the text chunker takes over, but nobody is passed its
\* chunks; when it fails, too, the result is an error and nothing is stored either
FallBack(o) ==
    /\ Analyzes(o) /\ CallFails /\ FinishTask(o) /\ Disturb(o)
    /\ UNCHANGED <<reader, stores, answers>>

\* a statement, the embedding or the upsert fails
StoreRaises(o) ==
    /\ \E s \in {"code", "entities", "points"} : At(o, s)
    /\ CallFails /\ FinishTask(o) /\ Disturb(o)
    /\ UNCHANGED <<reader, stores, answers>>

\* _store_in_neo4j: the Code node is merged below its Project node, if there is one
StoreCode(o) ==
    /\ At(o, "code")
    /\ code' = IF ProjectOf[answer[o]] \in Graphed
               THEN [code EXCEPT ![answer[o]] = Log[o].content] ELSE code
    /\ Go(o, "entities")
    /\ UNCHANGED <<reader, entity, contains, edge, point, done, disturbed, answers, failures>>

\* entities are matched to the Code node, which may not be there or not any more,
\* and merged by their ids alone
StoreEntities(o) == LET found == Defines[Log[o].content] IN
    /\ At(o, "entities")
    /\ IF code[answer[o]] = Absent THEN UNCHANGED <<entity, contains>> ELSE
         /\ entity' = [e \in Entity |-> IF e \in found THEN Log[o].content ELSE entity[e]]
         /\ contains' = contains \cup ({answer[o]} \X found)
    /\ Go(o, "edges")
    /\ UNCHANGED <<reader, code, edge, point, done, disturbed, answers, failures>>

\* each relation is merged between two entities that are there, whoever stored them
StoreEdges(o) == LET m == Log[o] IN
    /\ At(o, "edges")
    /\ edge' = [r \in Relation |->
                   IF r \in Relates[m.content] /\ Absent \notin {entity[r[1]], entity[r[2]]}
                   THEN m.content ELSE edge[r]]
    /\ Go(o, "points")
    /\ UNCHANGED <<reader, code, entity, contains, point, done, disturbed, answers, failures>>

\* a relation that cannot be stored is logged and passed over
EdgesSwallowed(o) ==
    /\ At(o, "edges")
    /\ CallFails /\ Go(o, "points") /\ Disturb(o)
    /\ UNCHANGED <<reader, stores, done, answers>>

\* embeds and upserts, whether or not the graph has the file
StorePoints(o) == LET m == Log[o] IN
    /\ At(o, "points")
    /\ point' = [point EXCEPT ![answer[o]] =
                    [u \in Unit |-> IF u \in 0 .. Size[m.content] THEN m.content ELSE @[u]]]
    /\ FinishTask(o)
    /\ UNCHANGED <<reader, graph, disturbed, answers, failures>>

Step(o) ==
    \/ Skip(o) \/ PurgeGraph(o) \/ PurgePoints(o) \/ NothingToAnalyze(o)
    \/ Analyze(o) \/ StoreCode(o) \/ StoreEntities(o) \/ StoreEdges(o)
    \/ StorePoints(o)

Failure(o) ==
    \/ PurgeRaises(o) \/ FallBack(o) \/ Misnames(o) \/ StoreRaises(o)
    \/ EdgesSwallowed(o)

\* stopped, or waiting for messages
CodeRests == Active = {} /\ (loop = "stopped" \/ fetched = Len(Log)) /\ UNCHANGED codeVars

CodeNext ==
    \/ Fetch \/ AutoCommit \/ Signal \/ LeaveLoop \/ Stop \/ ConsumerDies
    \/ \E o \in Offset : Step(o) \/ Failure(o)
    \/ CodeRests

\* the event loop runs every task that is ready, and external calls return
Fairness ==
    /\ WF_codeVars(Fetch) /\ WF_codeVars(LeaveLoop) /\ WF_codeVars(Stop)
    /\ \A o \in Offset : WF_codeVars(Step(o) \/ Failure(o))

CodeSpec == CodeInit /\ [][CodeNext]_codeVars /\ Fairness

-----------------------------------------------------------------------------
(* What the consumer promises.                                             *)

TaskState == {NoTask, "skip", "purge", "purge points", "analyze", "code",
              "entities", "edges", "points"}
Held(S) == [S -> Content \cup {Absent}]

\* Every variable stays in its type, and what is committed was fetched.
CodeTypeOK ==
    /\ loop \in {"running", "draining", "stopped"} /\ signalled \in BOOLEAN
    /\ fetched \in 0 .. Len(Log) /\ acked \in 0 .. fetched
    /\ task \in [Offset -> TaskState]
    /\ code \in Held(Path) /\ entity \in Held(Entity) /\ edge \in Held(Relation)
    /\ contains \subseteq Path \X Entity /\ point \in [Path -> Held(Unit)]
    /\ done \subseteq Offset /\ lost \subseteq Offset /\ disturbed \subseteq Path
    /\ answer \in [Offset -> Path] /\ astray \subseteq Path
    /\ failures \in 0 .. MaxFailures

\* The content a message leaves a file with, Absent when it is gone
Leaves(o, p) == LET m == Log[o] IN
    IF m.change = "deleted" \/ m.path # p \/ m.content \in Excluded
    THEN Absent ELSE m.content
LastChange(p) ==
    LET touching == {o \in Offset : p \in Touches(o)}
    IN IF touching = {} THEN Absent ELSE Leaves(Max(touching), p)

\* p is next touched by o after message k
NextTouch(p, k, o) == k < o /\ p \in Touches(o) /\ \A r \in k + 1 .. o - 1 : p \notin Touches(r)

\* A message that stores a file and purges nothing of that path.  Nothing says
\* where the messages come from: that it finds the path free is up to them.
Arrives(o) == LET m == Log[o] IN
    /\ m.change \in {"added", "renamed"} /\ ~(Renames(m) /\ m.previous = m.path)
    /\ m.content \notin Tiny \cup Excluded
ArrivalsFree == \A o, q \in Offset :
    Arrives(o) /\ Log[o].path \in Touches(q) /\ NextTouch(Log[o].path, q, o)
    => Leaves(q, Log[o].path) = Absent

\* entities and relations that no message of another file names; relations
\* between two such entities
Alien(p) == {Log[o].content : o \in {q \in Offset : Log[q].path # p}}
Own(p) == Entity \ UNION {Defines[c] : c \in Alien(p)}
OwnRelation(p) == {r \in Relation : {r[1], r[2]} \subseteq Own(p)
                                    /\ \A c \in Alien(p) : r \notin Relates[c]}

\* what the analysis finds in a content: points, entities, and relations that
\* have both ends there
Points(c) == IF c = Absent THEN {} ELSE 0 .. Size[c]
Defined(c) == IF c = Absent THEN {} ELSE Defines[c]
Related(c) == IF c = Absent THEN {}
              ELSE {r \in Relates[c] : {r[1], r[2]} \subseteq Defines[c]}

Stored(p, c) ==
    /\ code[p] = c
    /\ point[p] = Filled(Unit, Points(c), c)
    /\ \A e \in Own(p) : entity[e] = IF e \in Defined(c) THEN c ELSE Absent
    /\ \A r \in OwnRelation(p) : edge[r] = IF r \in Related(c) THEN c ELSE Absent

\* files that the log alone says everything about
Traceable == {p \in Path : ProjectOf[p] \in Graphed} \ (disturbed \cup astray)

\* Both stores hold exactly the last content of a file - its Code node, its
\* points, and the entities and relations that no other file's messages name -
\* whatever crashes and redeliveries came before, unless a failure, a skipped
\* content or a second task at work on the file intervened (a later modification
\* or deletion that has the file for itself makes up for these), or a result
\* came back under another path.
StoresFollowLog ==
    (Active = {} /\ fetched = Len(Log)) => \A p \in Traceable : Stored(p, LastChange(p))

\* A graceful stop commits nothing that was not handled to the end: only a
\* crash loses a message, one that was committed while in work.
StopLosesNothing == loop = "stopped" => 1 .. acked \subseteq done \cup lost

\* Every message is handled or lost in a crash, unless the consumer is stopped.
AllHandled == <>(signalled \/ Offset \subseteq done \cup lost)
=============================================================================
