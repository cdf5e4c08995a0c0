----------------------------- MODULE ProjectStores -----------------------------
(***************************************************************************)
(* Companies and projects in the REST API.  A project is a row in          *)
(* Postgres, nodes in the graph, points in the collection of its company   *)
(* and ingestion documents in MongoDB; creating, moving and deleting one   *)
(* changes these stores one after the other, without a common transaction. *)
(*                                                                         *)
(* One process serves all requests.  A step of a request reaches to the    *)
(* next call it waits for; the calls of Qdrant do not yield to other       *)
(* requests, only other processes act between them.  The process that      *)
(* writes points and nodes of a project is the code changes consumer.      *)
(* Access rights, instructions, local clones and the other columns of a    *)
(* row are left out; a request to update a project changes only those.     *)
(***************************************************************************)
EXTENDS Integers, FiniteSets

CONSTANTS
    Project, Company,
    None,         \* no company
    Existing,     \* companies at the start
    Home,         \* company of each project at the start, None when new
    Unscoped,     \* projects whose ingestion documents may name no company
    Request,      \* requests in flight
    Pieces,       \* code files of a project
    Limit,        \* projects of a company, for those who are not superusers
    MaxRequests, MaxWrites, MaxFaults   \* bounds

ASSUME ConstantsAssumption ==
    /\ None \notin Company /\ Existing \subseteq Company
    /\ Home \in [Project -> Existing \cup {None}]
    /\ Unscoped \subseteq {p \in Project : Home[p] # None}
    /\ {Pieces, Limit, MaxRequests, MaxWrites, MaxFaults} \subseteq Nat

\* what the graph and the collections hold of a project; 0 is its own node
Item == Project \X (0 .. Pieces)
Owner == Company \cup {None}

VARIABLES
    companies,   \* rows of companies
    row,         \* company_id in the row of each project
    graph,       \* company_id of each node of a project
    root,        \* Company nodes
    owns,        \* HAS_PROJECT
    collections, \* Qdrant collections, by company
    points,      \* items in each collection
    docs,        \* company_id of the ingestion documents of a project, if they name one
    req,         \* the requests in flight
    writes,      \* files the code changes consumer is storing
    requests,    \* requests so far
    written,     \* items whose point was written
    unseen,      \* items written while a request was emptying their collection
    cleared,     \* projects a deletion of points was meant for, or met
    halved,      \* projects whose points were copied but never removed
    disturbed,   \* projects two activities were at work on, or a store failed
    shaken,      \* companies, likewise
    faults

postgres == <<companies, row>>
neo4j == <<graph, root, owns>>
qdrant == <<collections, points>>
marks == <<disturbed, shaken>>
history == <<written, unseen, cleared, halved>>
vars == <<postgres, neo4j, qdrant, docs, req, writes, requests, history, marks, faults>>

Idle == [phase |-> "idle"]
Active == {r \in Request : req[r] # Idle}
Of(p) == {i \in Item : i[1] = p}

Init ==
    /\ companies = Existing /\ row = Home
    /\ graph = [i \in Item |-> IF i[2] <= 1 THEN Home[i[1]] ELSE None]
    /\ root = Existing
    /\ owns = {o \in Company \X Project : Home[o[2]] = o[1]}
    /\ collections = Existing
    /\ points = [c \in Company |-> {i \in Item : i[2] = 1 /\ Home[i[1]] = c}]
    /\ docs \in {Home, [p \in Project |-> IF p \in Unscoped THEN None ELSE Home[p]]}
    /\ req = [r \in Request |-> Idle] /\ writes = {} /\ requests = 0
    /\ written = {i \in Item : i[2] = 1 /\ Home[i[1]] # None}
    /\ unseen = {} /\ cleared = {} /\ halved = {}
    /\ disturbed = {} /\ shaken = {} /\ faults = 0

-----------------------------------------------------------------------------
(* Requests start, end and get in each other's way.                        *)

\* what a request or write is at work on
Projects(w) == IF w.kind \in {"add company", "drop company"}
               THEN {p \in Project : row[p] = w.to} ELSE {w.project}
Companies(w) == {w.from, w.to} \ {None}
Wide(w) == w.kind \in {"add company", "drop company"}
Collide(w, v) ==
    \/ Projects(w) \cap Projects(v) # {}
    \/ (Wide(w) \/ Wide(v)) /\ Companies(w) \cap Companies(v) # {}

Work == {req[r] : r \in Active} \cup writes
Rivals(w) == {v \in Work : Collide(w, v)}

Mark(ws) ==
    /\ disturbed' = disturbed \cup UNION {Projects(w) : w \in ws}
    /\ shaken' = shaken \cup UNION {Companies(w) : w \in ws}

MarkRivals(w) == IF Rivals(w) = {} THEN UNCHANGED marks ELSE Mark(Rivals(w) \cup {w})

\* projects whose points a request asks to delete, or may meet on the way
Clears(w) == CASE w.kind = "delete" -> {w.project}
               [] w.kind = "drop company" -> Projects(w) \cup disturbed'
               [] OTHER -> IF \E v \in Rivals(w) : v.kind = "drop company"
                           THEN Projects(w) ELSE {}

Start(r, w) ==
    /\ req[r] = Idle /\ requests < MaxRequests
    /\ requests' = requests + 1
    /\ req' = [req EXCEPT ![r] = w]
    /\ MarkRivals(w)
    /\ cleared' = cleared \cup Clears(w)
    /\ UNCHANGED <<postgres, neo4j, qdrant, docs, writes, written, unseen, halved, faults>>

\* a request goes on when no other one is between two calls of Qdrant
At(r, kind, phase) ==
    /\ req[r] # Idle /\ req[r].kind = kind /\ req[r].phase = phase
    /\ \A q \in Active \ {r} : req[q].phase # "remove"
Go(r, phase) == req' = [req EXCEPT ![r].phase = phase]
Finish(r) == req' = [req EXCEPT ![r] = Idle]

Fault == faults < MaxFaults /\ faults' = faults + 1
\* a store failed and nothing makes up for it
Shake(r) == Fault /\ Mark({req[r]})

KeepMarks == UNCHANGED <<marks, faults>>
KeepRest == UNCHANGED <<writes, requests, written, unseen>>

-----------------------------------------------------------------------------
(* create_project: the row, then the node; a failing node undoes the row.  *)

\* a project gets an id of its own
Fresh(p) ==
    /\ Home[p] = None /\ row[p] = None /\ p \notin disturbed
    /\ ~\E w \in Work : p \in Projects(w)
    /\ \A i \in Of(p) : graph[i] = None /\ i \notin written

Create(r, p, c) ==
    /\ Fresh(p) /\ c \in companies
    /\ Cardinality({q \in Project : row[q] = c}) < Limit
    /\ Start(r, [kind |-> "create", phase |-> "row", project |-> p,
                 from |-> None, to |-> c])

\* the insert fails when the company is gone (foreign key)
CreateRow(r) == LET w == req[r] IN
    /\ At(r, "create", "row")
    /\ IF w.to \in companies
       THEN row' = [row EXCEPT ![w.project] = w.to] /\ Go(r, "node")
       ELSE row' = row /\ Finish(r)
    /\ UNCHANGED <<companies, neo4j, qdrant, docs, cleared, halved>>
    /\ KeepRest /\ KeepMarks

\* create_project_node merges the Company node, too
CreateNode(r) == LET w == req[r] IN
    /\ At(r, "create", "node")
    /\ root' = root \cup {w.to}
    /\ graph' = [graph EXCEPT ![<<w.project, 0>>] = w.to]
    /\ owns' = owns \cup {<<w.to, w.project>>}
    /\ Finish(r)
    /\ UNCHANGED <<postgres, qdrant, docs, cleared, halved>>
    /\ KeepRest /\ KeepMarks

NodeFails(r) ==
    /\ At(r, "create", "node") /\ Fault
    /\ Go(r, "undo")
    /\ UNCHANGED <<postgres, neo4j, qdrant, docs, cleared, halved, marks>> /\ KeepRest

UndoCreate(r) ==
    /\ At(r, "create", "undo")
    /\ row' = [row EXCEPT ![req[r].project] = None]
    /\ Finish(r)
    /\ UNCHANGED <<companies, neo4j, qdrant, docs, cleared, halved>>
    /\ KeepRest /\ KeepMarks

UndoFails(r) ==
    /\ At(r, "create", "undo") /\ Shake(r) /\ Finish(r)
    /\ UNCHANGED <<postgres, neo4j, qdrant, docs, cleared, halved>> /\ KeepRest

-----------------------------------------------------------------------------
(* transfer_project_company: Qdrant, Neo4j, MongoDB, then the row; when    *)
(* the row cannot move, the other three are moved back.                    *)

Transfer(r, p, c) ==
    /\ row[p] # None /\ c \in companies /\ c # row[p]
    /\ Start(r, [kind |-> "transfer", phase |-> "copy", project |-> p,
                 from |-> row[p], to |-> c, back |-> FALSE])

\* projects whose points were copied and are to be removed now
Halving(ws) == {w.project : w \in {v \in ws : v.phase = "remove"}}
Leaving(w) == {i \in points[w.from] : i[1] = w.project}

\* faulty variants: the source is emptied before the copy; the source is kept
CopyPointsLate(r) == LET w == req[r] IN
    /\ At(r, "transfer", "copy")
    /\ points' = [points EXCEPT ![w.from] = @ \ Leaving(w)]
    /\ Go(r, "remove")
    /\ UNCHANGED <<postgres, neo4j, collections, docs, cleared, halved>>
    /\ KeepRest /\ KeepMarks
RemovePointsNever(r) == LET w == req[r] IN
    /\ At(r, "transfer", "remove")
    /\ Go(r, "graph")
    /\ UNCHANGED <<postgres, neo4j, qdrant, docs, cleared, halved>>
    /\ KeepRest /\ KeepMarks

\* scroll and upsert
CopyPoints(r) == LET w == req[r] IN
    /\ At(r, "transfer", "copy")
    /\ IF w.from \in collections
       THEN /\ collections' = collections \cup {w.to}
            /\ points' = [points EXCEPT ![w.to] = @ \cup Leaving(w)]
            /\ Go(r, "remove")
       ELSE UNCHANGED qdrant /\ Go(r, "graph")
    /\ UNCHANGED <<postgres, neo4j, docs, cleared, halved>> /\ KeepRest /\ KeepMarks

\* delete_points_by_filter
RemovePoints(r) == LET w == req[r] IN
    /\ At(r, "transfer", "remove")
    /\ points' = [points EXCEPT ![w.from] = @ \ Leaving(w)]
    /\ Go(r, "graph")
    /\ UNCHANGED <<postgres, neo4j, collections, docs, cleared, halved>>
    /\ KeepRest /\ KeepMarks

\* transfer_project_scope: the edge is moved when it is found, the scope of the
\* nodes always
MoveGraph(r) == LET w == req[r] IN
    /\ At(r, "transfer", "graph")
    /\ root' = root \cup {w.to}
    /\ owns' = IF <<w.from, w.project>> \in owns
               THEN (owns \ {<<w.from, w.project>>}) \cup {<<w.to, w.project>>}
               ELSE owns
    /\ graph' = [i \in Item |-> IF i[1] = w.project /\ graph[i] # None
                                THEN w.to ELSE graph[i]]
    /\ Go(r, "docs")
    /\ UNCHANGED <<postgres, qdrant, docs, cleared, halved>>
    /\ KeepRest /\ KeepMarks

AfterDocs(r) == IF req[r].back THEN Finish(r) ELSE Go(r, "row")

\* documents of the project that name the source, or no company at all
Matched(w) == docs[w.project] = w.from \/ (docs[w.project] = None /\ w.project \in Unscoped)

MoveDocs(r) == LET w == req[r] IN
    /\ At(r, "transfer", "docs")
    /\ docs' = [docs EXCEPT ![w.project] = IF Matched(w) THEN w.to ELSE @]
    /\ AfterDocs(r)
    /\ UNCHANGED <<postgres, neo4j, qdrant, cleared, halved>>
    /\ KeepRest /\ KeepMarks

\* transfer_company_scope locks the row and compares it with what was read
SourceMatches(w) == row[w.project] = w.from /\ w.to \in companies

MoveRow(r) == LET w == req[r] IN
    /\ At(r, "transfer", "row") /\ SourceMatches(w)
    /\ row' = [row EXCEPT ![w.project] = w.to]
    /\ Finish(r)
    /\ UNCHANGED <<companies, neo4j, qdrant, docs, cleared, halved>>
    /\ KeepRest /\ KeepMarks

\* faulty variant: the points stay where they were moved
BackWithoutPoints(w) ==
    [w EXCEPT !.from = w.to, !.to = w.from, !.back = TRUE, !.phase = "graph"]

\* the other stores are moved back by the same operations
Back(w) == [w EXCEPT !.from = w.to, !.to = w.from, !.back = TRUE, !.phase = "copy"]

RowRefused(r) == LET w == req[r] IN
    /\ At(r, "transfer", "row")
    /\ IF SourceMatches(w) THEN Fault ELSE faults' = faults
    /\ req' = [req EXCEPT ![r] = Back(w)]
    /\ UNCHANGED <<postgres, neo4j, qdrant, docs, cleared, halved, marks>> /\ KeepRest

Later(phase) == IF phase = "graph" THEN "docs" ELSE "graph"

\* on the way there a failing store ends the request; on the way back the
\* other stores are still tried
GoOn(r, phase) ==
    IF req[r].back /\ phase # "docs" THEN Go(r, Later(phase)) ELSE Finish(r)

\* some batches were copied before one failed
CopyFails(r) == LET w == req[r] IN
    /\ At(r, "transfer", "copy") /\ Shake(r)
    /\ w.from \in collections
    /\ collections' = collections \cup {w.to}
    /\ \E part \in SUBSET Leaving(w) :
           /\ points' = [points EXCEPT ![w.to] = @ \cup part]
           /\ halved' = IF part = {} THEN halved ELSE halved \cup {w.project}
    /\ GoOn(r, "copy")
    /\ UNCHANGED <<postgres, neo4j, docs, cleared>> /\ KeepRest

MoveFails(r) == \E phase \in {"copy", "remove", "graph", "docs"} :
    /\ At(r, "transfer", phase) /\ Shake(r)
    /\ GoOn(r, phase)
    /\ halved' = halved \cup Halving({req[r]})
    /\ UNCHANGED <<postgres, neo4j, qdrant, docs, cleared>> /\ KeepRest

TransferStep(r) ==
    \/ CopyPoints(r) \/ RemovePoints(r) \/ MoveGraph(r) \/ MoveDocs(r)
    \/ MoveRow(r) \/ RowRefused(r) \/ CopyFails(r) \/ MoveFails(r)

-----------------------------------------------------------------------------
(* delete_project and delete_company: the stores first, the row last, and  *)
(* a failing store does not stop the rest.                                 *)

Delete(r, p) ==
    /\ row[p] # None
    /\ Start(r, [kind |-> "delete", phase |-> "points", project |-> p,
                 from |-> row[p], to |-> None])

DeletePoints(r) == LET w == req[r] IN
    /\ At(r, "delete", "points")
    /\ points' = [points EXCEPT ![w.from] = @ \ Of(w.project)]
    /\ Go(r, "graph")
    /\ UNCHANGED <<postgres, neo4j, collections, docs, cleared, halved>>
    /\ KeepRest /\ KeepMarks

DeleteGraph(r) == LET w == req[r] IN
    /\ At(r, "delete", "graph")
    /\ graph' = [i \in Item |-> IF i[1] = w.project THEN None ELSE graph[i]]
    /\ owns' = {o \in owns : o[2] # w.project}
    /\ Go(r, "row")
    /\ UNCHANGED <<postgres, root, qdrant, docs, cleared, halved>>
    /\ KeepRest /\ KeepMarks

DeleteRow(r) ==
    /\ At(r, "delete", "row")
    /\ row' = [row EXCEPT ![req[r].project] = None]
    /\ Finish(r)
    /\ UNCHANGED <<companies, neo4j, qdrant, docs, cleared, halved>>
    /\ KeepRest /\ KeepMarks

DropCompany(r, c) ==
    /\ c \in companies
    /\ Start(r, [kind |-> "drop company", phase |-> "points", from |-> c, to |-> c])

DropCollection(r) == LET c == req[r].to IN
    /\ At(r, "drop company", "points")
    /\ collections' = collections \ {c}
    /\ points' = [points EXCEPT ![c] = {}]
    /\ Go(r, "graph")
    /\ UNCHANGED <<postgres, neo4j, docs, cleared, halved>>
    /\ KeepRest /\ KeepMarks

\* every node of the company's scope
DropGraph(r) == LET c == req[r].to IN
    /\ At(r, "drop company", "graph")
    /\ graph' = [i \in Item |-> IF graph[i] = c THEN None ELSE graph[i]]
    /\ root' = root \ {c}
    /\ owns' = {o \in owns : o[1] # c /\ graph[<<o[2], 0>>] # c}
    /\ Go(r, "row")
    /\ UNCHANGED <<postgres, qdrant, docs, cleared, halved>>
    /\ KeepRest /\ KeepMarks

\* the rows of its projects go with it
DropRow(r) == LET c == req[r].to IN
    /\ At(r, "drop company", "row")
    /\ companies' = companies \ {c}
    /\ row' = [p \in Project |-> IF row[p] = c THEN None ELSE row[p]]
    /\ Finish(r)
    /\ UNCHANGED <<neo4j, qdrant, docs, cleared, halved>>
    /\ KeepRest /\ KeepMarks

DeletionFails(r) == \E kind \in {"delete", "drop company"} :
    \E phase \in {"points", "graph", "row"} :
        /\ At(r, kind, phase) /\ Shake(r)
        /\ CASE phase = "points" -> Go(r, "graph")
             [] phase = "graph" -> Go(r, "row")
             [] phase = "row" -> Finish(r)
        /\ UNCHANGED <<postgres, neo4j, qdrant, docs, cleared, halved>> /\ KeepRest

DeletionStep(r) ==
    \/ DeletePoints(r) \/ DeleteGraph(r) \/ DeleteRow(r)
    \/ DropCollection(r) \/ DropGraph(r) \/ DropRow(r) \/ DeletionFails(r)

-----------------------------------------------------------------------------
(* create_company: row and owner, node, collection; a failing store undoes *)
(* what came before it.                                                    *)

AddCompany(r, c) ==
    /\ c \notin companies \cup root \cup collections
    /\ ~\E w \in Work : c \in Companies(w)
    /\ Start(r, [kind |-> "add company", phase |-> "row", from |-> c, to |-> c])

AddRow(r) ==
    /\ At(r, "add company", "row")
    /\ companies' = companies \cup {req[r].to}
    /\ Go(r, "node")
    /\ UNCHANGED <<row, neo4j, qdrant, docs, cleared, halved>>
    /\ KeepRest /\ KeepMarks

AddNode(r) ==
    /\ At(r, "add company", "node")
    /\ root' = root \cup {req[r].to}
    /\ Go(r, "collection")
    /\ UNCHANGED <<postgres, graph, owns, qdrant, docs, cleared, halved>>
    /\ KeepRest /\ KeepMarks

AddCollection(r) ==
    /\ At(r, "add company", "collection")
    /\ collections' = collections \cup {req[r].to}
    /\ Finish(r)
    /\ UNCHANGED <<postgres, neo4j, points, docs, cleared, halved>>
    /\ KeepRest /\ KeepMarks

AddFails(r) == \E phase \in {"node", "collection"} :
    /\ At(r, "add company", phase) /\ Fault
    /\ Go(r, IF phase = "node" THEN "undo row" ELSE "undo both")
    /\ UNCHANGED <<postgres, neo4j, qdrant, docs, cleared, halved, marks>> /\ KeepRest

UndoRow(r) == \E phase \in {"undo row", "undo both"} : LET c == req[r].to IN
    /\ At(r, "add company", phase)
    /\ companies' = companies \ {c}
    /\ row' = [p \in Project |-> IF row[p] = c THEN None ELSE row[p]]
    /\ IF phase = "undo row" THEN Finish(r) ELSE Go(r, "undo node")
    /\ UNCHANGED <<neo4j, qdrant, docs, cleared, halved>>
    /\ KeepRest /\ KeepMarks

UndoNode(r) == LET c == req[r].to IN
    /\ At(r, "add company", "undo node")
    /\ root' = root \ {c}
    /\ graph' = [i \in Item |-> IF i[2] = 0 /\ <<c, i[1]>> \in owns /\ graph[i] = c
                                THEN None ELSE graph[i]]
    /\ owns' = {o \in owns : o[1] # c}
    /\ Finish(r)
    /\ UNCHANGED <<postgres, qdrant, docs, cleared, halved>>
    /\ KeepRest /\ KeepMarks

\* the owner cannot be added, or the row or node not be removed
AddAbandoned(r) == \E phase \in {"node", "undo row", "undo both", "undo node"} :
    /\ At(r, "add company", phase) /\ Shake(r) /\ Finish(r)
    /\ UNCHANGED <<postgres, neo4j, qdrant, docs, cleared, halved>> /\ KeepRest

AddStep(r) ==
    \/ AddRow(r) \/ AddNode(r) \/ AddCollection(r) \/ AddFails(r)
    \/ UndoRow(r) \/ UndoNode(r) \/ AddAbandoned(r)

-----------------------------------------------------------------------------
(* The code changes consumer stores a file new to the project, under the   *)
(* company named in the event, which waits in a topic first.               *)

WriteBegins(p, n) ==
    LET w == [kind |-> "write", phase |-> "node", project |-> p, piece |-> n,
              from |-> row[p], to |-> row[p]]
    IN /\ row[p] # None /\ Cardinality(written \cup {<<v.project, v.piece>> : v \in writes})
                           < MaxWrites + Cardinality({q \in Project : Home[q] # None})
       /\ <<p, n>> \notin written
       /\ ~\E v \in writes : v.project = p /\ v.piece = n
       /\ writes' = writes \cup {w}
       /\ MarkRivals(w)
       /\ UNCHANGED <<postgres, neo4j, qdrant, docs, req, requests, history, faults>>

\* a Code node is matched to the Project node
WriteNode(w) ==
    /\ w.phase = "node"
    /\ graph' = IF graph[<<w.project, 0>>] = None THEN graph
                ELSE [graph EXCEPT ![<<w.project, w.piece>>] = w.to]
    /\ writes' = (writes \ {w}) \cup {[w EXCEPT !.phase = "point"]}
    /\ UNCHANGED <<postgres, root, owns, qdrant, docs, req, requests, history, marks, faults>>

Emptying(w) == \E r \in Active : req[r].phase = "remove" /\ req[r].project = w.project
                                 /\ req[r].from = w.to

\* the upsert fails when the collection is gone
WritePoint(w) == LET i == <<w.project, w.piece>> IN
    /\ w.phase = "point"
    /\ writes' = writes \ {w}
    /\ IF w.to \in collections
       THEN /\ points' = [points EXCEPT ![w.to] = @ \cup {i}]
            /\ written' = written \cup {i}
            /\ unseen' = IF Emptying(w) THEN unseen \cup {i} ELSE unseen
       ELSE UNCHANGED <<points, written, unseen>>
    /\ UNCHANGED <<postgres, neo4j, collections, docs, req, requests, cleared, halved,
                   marks, faults>>

-----------------------------------------------------------------------------
\* the process of the API dies with its requests
Crash ==
    /\ Active # {} /\ Fault
    /\ Mark({req[r] : r \in Active})
    /\ req' = [r \in Request |-> Idle]
    /\ halved' = halved \cup Halving({req[r] : r \in Active})
    /\ UNCHANGED <<postgres, neo4j, qdrant, docs, cleared>> /\ KeepRest

Begin(r) ==
    \/ \E p \in Project : Delete(r, p) \/ \E c \in Company : Create(r, p, c) \/ Transfer(r, p, c)
    \/ \E c \in Company : AddCompany(r, c) \/ DropCompany(r, c)

Step(r) ==
    \/ CreateRow(r) \/ CreateNode(r) \/ NodeFails(r) \/ UndoCreate(r) \/ UndoFails(r)
    \/ TransferStep(r) \/ DeletionStep(r) \/ AddStep(r)

Write ==
    \/ \E p \in Project, n \in 1 .. Pieces : WriteBegins(p, n)
    \/ \E w \in writes : WriteNode(w) \/ WritePoint(w)

Quiet == Active = {} /\ writes = {}
Rests == Quiet /\ UNCHANGED vars

Next == (\E r \in Request : Begin(r) \/ Step(r)) \/ Write \/ Crash \/ Rests

Spec == Init /\ [][Next]_vars

-----------------------------------------------------------------------------
(* What the four stores owe each other.                                    *)

Creation == [kind : {"create"}, phase : {"row", "node", "undo"},
             project : Project, from : {None}, to : Company]
Move == [kind : {"transfer"}, phase : {"copy", "remove", "graph", "docs", "row"},
         project : Project, from : Company, to : Company, back : BOOLEAN]
Deletion == [kind : {"delete"}, phase : {"points", "graph", "row"},
             project : Project, from : Company, to : {None}]
Drop == [kind : {"drop company"}, phase : {"points", "graph", "row"},
         from : Company, to : Company]
Addition == [kind : {"add company"},
             phase : {"row", "node", "collection", "undo row", "undo both", "undo node"},
             from : Company, to : Company]
Storing == [kind : {"write"}, phase : {"node", "point"}, project : Project,
            piece : 1 .. Pieces, from : Company, to : Company]

\* Every variable stays in its type.
TypeOK ==
    /\ companies \subseteq Company /\ row \in [Project -> Owner]
    /\ graph \in [Item -> Owner] /\ root \subseteq Company
    /\ owns \subseteq Company \X Project
    /\ collections \subseteq Company /\ points \in [Company -> SUBSET Item]
    /\ docs \in [Project -> Owner]
    /\ req \in [Request -> {Idle} \cup Creation \cup Move \cup Deletion \cup Drop
                             \cup Addition]
    /\ writes \subseteq Storing
    /\ requests \in 0 .. MaxRequests /\ faults \in 0 .. MaxFaults
    /\ written \subseteq Item /\ unseen \subseteq Item
    /\ cleared \subseteq Project /\ halved \subseteq Project
    /\ disturbed \subseteq Project /\ shaken \subseteq Company

InStep(p) == LET c == row[p] IN
    /\ graph[<<p, 0>>] = c
    /\ \A i \in Of(p) : graph[i] \in {None, c}
    /\ \A o \in owns : o[2] = p => o[1] = c
    /\ c # None => <<c, p>> \in owns /\ docs[p] \in {None, c}
    /\ \A d \in Company \ {c} : points[d] \cap Of(p) = {}

\* When everything has come to rest, all four stores place a project in the
\* company its row names, and nothing but ingestion documents is left of a
\* deleted one; a company has row, node and collection, or none of them.  This
\* holds across failing nodes at creation and a failing row at a transfer,
\* which are made up for; not when another store failed, or two activities had
\* the same project in hand.
StoresInStep ==
    Quiet => /\ \A p \in Project \ disturbed : InStep(p)
             /\ \A c \in Company \ shaken :
                    /\ c \in companies <=> c \in root
                    /\ c \in companies <=> c \in collections

\* The point of a file stays in some collection as long as nobody asked for
\* its deletion, through overlapping transfers, failures at any step and
\* crashes; only one that was written while a transfer was emptying its
\* collection can be lost.
NothingLost ==
    \A i \in written \ unseen :
        i[1] \in cleared \/ \E c \in Company : i \in points[c]

\* No point is in two collections, however transfers of its project overlap,
\* but between copying and removing, or when removing failed.
PointsInOnePlace ==
    \A i \in Item :
        \/ i[1] \in halved \cup Halving({req[r] : r \in Active})
        \/ Cardinality({c \in Company : i \in points[c]}) <= 1
=============================================================================
